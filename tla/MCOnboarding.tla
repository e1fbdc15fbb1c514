---------------------------- MODULE MCOnboarding ----------------------------
(* A small instance of Onboarding for TLC. *)
EXTENDS Onboarding, TLC

CONSTANTS p1, p2, a1, e1

\* Three signups at one time with one e-mail, which all type in capitals: two of
\* providers and one of an admin.
MCAccountTypeOf == (p1 :> "PROVIDER" @@ p2 :> "PROVIDER" @@ a1 :> "ADMIN")
MCAccountOf == (p1 :> "PROVIDER" @@ p2 :> "PROVIDER" @@ a1 :> "USER")
MCAddressesOf == [s \in Signups |-> {e1}]
MCContacts == {<<e1, "PROVIDER">>, <<e1, "ADMIN">>}
MCContactsOf == [s \in Signups |-> {<<e1, MCAccountTypeOf[s]>>}]

\* Where the events are followed from, states of OnboardingSpec: p1 and p2 both
\* found the e-mail free, p1 has the identity and no row of it yet, and a1 has
\* signed up, before the consumer's first start, when its event was lost, or after.
MCInit ==
    /\ service \in {"user", "provider"}
    /\ announced = {a1}
    /\ \/ consumer = "new" /\ routed = {}
       \/ consumer = "open" /\ routed = {[id |-> a1, wrapped |-> TRUE, tries |-> 0]}
    /\ main = [m \in Message |-> IF m \in routed THEN 1 ELSE 0]
    /\ waiting = [m \in Message |-> 0]
    /\ dead = [m \in Message |-> 0]
    /\ held = [h \in Handler |-> 0]
    /\ rows = {} /\ late = {}
    /\ faults = 0 /\ closes = 0
    /\ identities = {p1, a1}
    /\ records = SignupRows(a1)
    /\ verified = {}
    /\ code = [r \in Row |-> NoCode]
    /\ expired = {}
    /\ signup = (p1 :> "records" @@ p2 :> "insert" @@ a1 :> "done")
    /\ left = [s \in Signups |-> IF s = a1 THEN {} ELSE ContactsOf[s]]
    /\ send = [q \in Sends |-> [pc |-> "idle", claim |-> NoContact, found |-> FALSE]]
    /\ verify = [v \in Verifies |-> [pc |-> "idle", claim |-> NoContact]]
    /\ published = {} /\ known = {}
    /\ before = [q \in Sends |-> {}]

\* The fairness is that of Signup, of the consumer alone: no signup need end.
MCSpec ==
    MCInit /\ [][OnboardingNext]_onboardingVars /\ WF_vars(Start) /\ WF_vars(Work)
=============================================================================
