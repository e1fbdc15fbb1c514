--------------------------- MODULE ServicePersons ---------------------------
(***************************************************************************)
(* The offerings of the providers, their service persons, and the links     *)
(* that say which person does which.  The list of a person's offerings is   *)
(* checked against the table and later written in two statements, without a *)
(* transaction; a provider may delete an offering in between.               *)
(***************************************************************************)
CONSTANTS
    Offerings, OwnerOf,       \* the provider each belongs to
    People, EmployerOf,
    StaffRequests,
    NoPerson

ASSUME StaffAssumption == NoPerson \notin People
ASSUME ProviderAssumption == DOMAIN OwnerOf = Offerings /\ DOMAIN EmployerOf = People

VARIABLES
    offered,     \* rows of provider_services
    withdrawn,   \* offerings that were deleted; their ids are not used again
    staff,       \* rows of service_people
    links,       \* rows of service_person_provider_services
    staffing,    \* the requests
    finished     \* for the properties: requests that had ended when one began

staffRows == <<offered, withdrawn, staff, links>>
staffVars == <<staffRows, staffing, finished>>

StaffPc == {"idle", "insert", "clear", "link", "done", "failed"}

StaffTypeOK ==
    /\ offered \subseteq Offerings /\ withdrawn \subseteq Offerings \ offered
    /\ staff \subseteq People
    /\ links \subseteq staff \X offered
    /\ staffing \in [StaffRequests ->
         [pc : StaffPc, person : People \cup {NoPerson}, list : SUBSET Offerings]]
    /\ finished \in [StaffRequests -> SUBSET StaffRequests]

StaffInit ==
    /\ offered = {} /\ withdrawn = {} /\ staff = {} /\ links = {}
    /\ staffing = [r \in StaffRequests |-> [pc |-> "idle", person |-> NoPerson, list |-> {}]]
    /\ finished = [r \in StaffRequests |-> {}]

-----------------------------------------------------------------------------
\* Mutant: the count is of the ids alone.
ValidListOfAnyone(p, list) == list \subseteq offered

\* validateProviderServiceIdsBelongToProvider
ValidList(p, list) ==
    list \subseteq {o \in offered : OwnerOf[o] = EmployerOf[p]}

StaffAt(r, pc) == staffing' = [staffing EXCEPT ![r].pc = pc]

BeginStaffing(r, pc, p, list) ==
    /\ staffing[r].pc = "idle"
    /\ ValidList(p, list)
    /\ staffing' = [staffing EXCEPT ![r] = [pc |-> pc, person |-> p, list |-> list]]
    /\ finished' = [finished EXCEPT
         ![r] = {s \in StaffRequests : staffing[s].pc \in {"done", "failed"}}]
    /\ UNCHANGED staffRows

\* create, with the caller's own provider
CreatePerson(r, p, list) ==
    /\ p \notin staff
    /\ \A s \in StaffRequests : staffing[s].person # p
    /\ BeginStaffing(r, "insert", p, list)

InsertPerson(r) ==
    /\ staffing[r].pc = "insert"
    /\ staff' = staff \cup {staffing[r].person}
    /\ StaffAt(r, IF staffing[r].list = {} THEN "done" ELSE "link")
    /\ UNCHANGED <<offered, withdrawn, links, finished>>

\* update with providerServiceIds; what else it writes is a column of the row.
UpdatePerson(r, p, list) == p \in staff /\ BeginStaffing(r, "clear", p, list)

\* Mutant: the links there are stay.
KeepLinks(r) ==
    /\ staffing[r].pc = "clear"
    /\ StaffAt(r, IF staffing[r].list = {} THEN "done" ELSE "link")
    /\ UNCHANGED <<staffRows, finished>>

\* deleteMany
ClearLinks(r) ==
    /\ staffing[r].pc = "clear"
    /\ links' = {l \in links : l[1] # staffing[r].person}
    /\ StaffAt(r, IF staffing[r].list = {} THEN "done" ELSE "link")
    /\ UNCHANGED <<offered, withdrawn, staff, finished>>

\* createMany with skipDuplicates: all rows, or none when an offering is gone.
CreateLinks(r) ==
    /\ staffing[r].pc = "link"
    /\ IF staffing[r].list \subseteq offered
       THEN /\ links' = links \cup ({staffing[r].person} \X staffing[r].list)
            /\ StaffAt(r, "done")
       ELSE StaffAt(r, "failed") /\ UNCHANGED links
    /\ UNCHANGED <<offered, withdrawn, staff, finished>>

StaffDies(r) ==
    /\ staffing[r].pc \in {"insert", "clear", "link"}
    /\ StaffAt(r, "failed")
    /\ UNCHANGED <<staffRows, finished>>

CreateOffering(o) ==
    /\ o \notin offered \cup withdrawn
    /\ offered' = offered \cup {o}
    /\ UNCHANGED <<withdrawn, staff, links, staffing, finished>>

\* delete, with the cascade to the links
DeleteOffering(o) ==
    /\ o \in offered
    /\ offered' = offered \ {o} /\ withdrawn' = withdrawn \cup {o}
    /\ links' = {l \in links : l[2] # o}
    /\ UNCHANGED <<staff, staffing, finished>>

StaffNext ==
    \/ \E r \in StaffRequests :
         \/ \E p \in People, list \in SUBSET Offerings :
              CreatePerson(r, p, list) \/ UpdatePerson(r, p, list)
         \/ InsertPerson(r) \/ ClearLinks(r) \/ CreateLinks(r) \/ StaffDies(r)
    \/ \E o \in Offerings : CreateOffering(o) \/ DeleteOffering(o)

StaffSpec == StaffInit /\ [][StaffNext]_staffVars

-----------------------------------------------------------------------------
(***************************************************************************)
(* Properties                                                               *)
(***************************************************************************)
\* A person is linked to offerings of the own provider only, although the check
\* is long past when the link is written.
LinksWithinProvider == \A l \in links : OwnerOf[l[2]] = EmployerOf[l[1]]

\* A list that was accepted is what the person is linked to, less what was
\* deleted, when every other request for the person had ended before: neither
\* the two statements nor an offering deleted between them leave a part of it.
ListIsKept ==
    \A r \in StaffRequests :
        LET p == staffing[r].person
        IN  /\ staffing[r].pc = "done"
            /\ \A s \in StaffRequests \ {r} : staffing[s].person = p => s \in finished[r]
            => {l \in links : l[1] = p} = {p} \X (staffing[r].list \cap offered)
=============================================================================
