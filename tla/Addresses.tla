------------------------------ MODULE Addresses ------------------------------
(***************************************************************************)
(* The address book of one user, one of whose addresses may be the default. *)
(* A new default is made in two statements, "no address is the default" and *)
(* "this one is", by create, saveCurrentLocation and update; setDefault has *)
(* the two in a transaction.  No unique index stands behind them.           *)
(*                                                                          *)
(* The transaction is one step: its first statement locks every row of the  *)
(* user that is not deleted, and what passes meanwhile could as well have   *)
(* come before or after it.                                                 *)
(***************************************************************************)
CONSTANTS
    Places,        \* addresses
    AddressRequests,
    NoRequest, NoAddress

ASSUME NoAddressAssumption == NoRequest \notin AddressRequests /\ NoAddress \notin Places

VARIABLES
    saved,      \* rows of addresses
    active,     \* ... with isActive: the others are deleted
    defaults,   \* ... with isDefault
    request,    \* the requests
    \* for the properties
    setter,     \* the request that last made an address the default
    deleters,   \* the requests that deleted an address
    wantedBy,   \* the request that last asked for a default, if it still stands
    earlier     \* requests that had ended when a request began

addressRows == <<saved, active, defaults>>
addressHistory == <<setter, deleters, wantedBy, earlier>>
addressVars == <<addressRows, request, addressHistory>>

AddressPc == {"idle", "unset", "insert", "update", "transaction", "delete", "done", "failed"}

AddressTypeOK ==
    /\ active \subseteq saved /\ defaults \subseteq saved /\ saved \subseteq Places
    /\ request \in [AddressRequests ->
         [pc : AddressPc, address : Places \cup {NoAddress}, isDefault : BOOLEAN]]
    /\ setter \in [Places -> AddressRequests \cup {NoRequest}]
    /\ deleters \in [Places -> SUBSET AddressRequests]
    /\ wantedBy \in AddressRequests \cup {NoRequest}
    /\ earlier \in [AddressRequests -> SUBSET AddressRequests]

AddressInit ==
    /\ saved = {} /\ active = {} /\ defaults = {}
    /\ request = [r \in AddressRequests |->
         [pc |-> "idle", address |-> NoAddress, isDefault |-> FALSE]]
    /\ setter = [a \in Places |-> NoRequest]
    /\ deleters = [a \in Places |-> {}]
    /\ wantedBy = NoRequest
    /\ earlier = [r \in AddressRequests |-> {}]

-----------------------------------------------------------------------------
AddressEnded == {r \in AddressRequests : request[r].pc \in {"done", "failed"}}

RequestAt(r, pc) == request' = [request EXCEPT ![r].pc = pc]

Begin(r, pc, a, d) ==
    /\ request[r].pc = "idle"
    /\ request' = [request EXCEPT ![r] = [pc |-> pc, address |-> a, isDefault |-> d]]
    /\ earlier' = [earlier EXCEPT ![r] = AddressEnded]
    /\ UNCHANGED <<addressRows, setter, deleters, wantedBy>>

Unused(a) == a \notin saved /\ \A r \in AddressRequests : request[r].address # a

\* Mutant: the other defaults are not unset.
CreateAddressOnly(r, a, d) == Unused(a) /\ Begin(r, "insert", a, d)

\* createAddress, saveCurrentLocation
CreateAddress(r, a, d) == Unused(a) /\ Begin(r, IF d THEN "unset" ELSE "insert", a, d)

\* Mutant: an update looks for the owner of the row only.
UpdateAddressDeleted(r, a, d) ==
    a \in saved /\ Begin(r, IF d THEN "unset" ELSE "update", a, d)

\* updateAddress with isDefault; without it neither column is written.
UpdateAddress(r, a, d) ==
    a \in active /\ Begin(r, IF d THEN "unset" ELSE "update", a, d)

\* setDefaultAddress
SetDefault(r, a) == a \in active /\ Begin(r, "transaction", a, TRUE)

\* deleteAddress, of a row deleted before as well
DeleteAddress(r, a) == a \in saved /\ Begin(r, "delete", a, FALSE)

\* unsetDefaultForUser
UnsetDefault(r) ==
    LET a == request[r].address
    IN  /\ request[r].pc = "unset"
        /\ defaults' = defaults \ active
        /\ RequestAt(r, IF a \in saved THEN "update" ELSE "insert")
        /\ wantedBy' = r
        /\ UNCHANGED <<saved, active, setter, deleters, earlier>>

MadeDefault(r, a) == setter' = [setter EXCEPT ![a] = r]

\* What stood for a was asked for by the request that is to lose it.
NoLongerWanted(a) ==
    wantedBy' = IF wantedBy # NoRequest /\ request[wantedBy].address = a THEN NoRequest
                ELSE wantedBy

InsertAddress(r) ==
    LET a == request[r].address
    IN  /\ request[r].pc = "insert"
        /\ saved' = saved \cup {a} /\ active' = active \cup {a}
        /\ IF request[r].isDefault
           THEN defaults' = defaults \cup {a} /\ MadeDefault(r, a)
           ELSE UNCHANGED <<defaults, setter>>
        /\ RequestAt(r, "done")
        /\ UNCHANGED <<deleters, wantedBy, earlier>>

\* The update is by id, of a row deleted by now as well.
WriteAddress(r) ==
    LET a == request[r].address
    IN  /\ request[r].pc = "update"
        /\ IF request[r].isDefault
           THEN defaults' = defaults \cup {a} /\ MadeDefault(r, a) /\ UNCHANGED wantedBy
           ELSE defaults' = defaults \ {a} /\ NoLongerWanted(a) /\ UNCHANGED setter
        /\ RequestAt(r, "done")
        /\ UNCHANGED <<saved, active, deleters, earlier>>

\* Mutant: this address first and then the others.
SetAsDefaultFirst(r) ==
    LET a == request[r].address
    IN  /\ request[r].pc = "transaction"
        /\ defaults' = (defaults \cup {a}) \ active
        /\ MadeDefault(r, a) /\ wantedBy' = r
        /\ RequestAt(r, "done")
        /\ UNCHANGED <<saved, active, deleters, earlier>>

\* setAsDefault
SetAsDefault(r) ==
    LET a == request[r].address
    IN  /\ request[r].pc = "transaction"
        /\ defaults' = (defaults \ active) \cup {a}
        /\ MadeDefault(r, a) /\ wantedBy' = r
        /\ RequestAt(r, "done")
        /\ UNCHANGED <<saved, active, deleters, earlier>>

\* softDelete
SoftDelete(r) ==
    LET a == request[r].address
    IN  /\ request[r].pc = "delete"
        /\ active' = active \ {a} /\ defaults' = defaults \ {a}
        /\ deleters' = [deleters EXCEPT ![a] = @ \cup {r}]
        /\ NoLongerWanted(a)
        /\ RequestAt(r, "done")
        /\ UNCHANGED <<saved, setter, earlier>>

AddressDies(r) ==
    /\ request[r].pc \notin {"idle", "done", "failed"}
    /\ RequestAt(r, "failed")
    /\ UNCHANGED <<addressRows, addressHistory>>

AddressNext ==
    \E r \in AddressRequests :
        \/ \E a \in Places :
             \/ SetDefault(r, a) \/ DeleteAddress(r, a)
             \/ \E d \in BOOLEAN : CreateAddress(r, a, d) \/ UpdateAddress(r, a, d)
        \/ UnsetDefault(r) \/ InsertAddress(r) \/ WriteAddress(r)
        \/ SetAsDefault(r) \/ SoftDelete(r) \/ AddressDies(r)

AddressSpec == AddressInit /\ [][AddressNext]_addressVars

-----------------------------------------------------------------------------
(***************************************************************************)
(* Properties                                                               *)
(***************************************************************************)
Overlap(r, s) == r \notin earlier[s] /\ s \notin earlier[r]

\* Two addresses are the default only when the requests that made them so ran
\* at one time: one after the other, the second takes the place of the first.
TwoDefaultsNeedRace ==
    \A a, b \in defaults \cap active : a # b => Overlap(setter[a], setter[b])

\* A deleted address is a default only when a request that had found it before
\* the delete wrote it after.
DeletedDefaultNeedsRace ==
    \A a \in defaults \ active : \E d \in deleters[a] : Overlap(setter[a], d)

\* A default is not lost between the two statements: the address last asked for
\* is the default once its request has gone through, unless it was unset by
\* itself or deleted.
WantedIsDefault ==
    wantedBy # NoRequest /\ request[wantedBy].pc = "done"
      => request[wantedBy].address \in defaults
=============================================================================
