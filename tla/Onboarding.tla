----------------------------- MODULE Onboarding -----------------------------
(***************************************************************************)
(* From a signup to a profile: the auth service, the event it publishes,    *)
(* and a consumer of it, the one of the user service or the one of the      *)
(* provider service.                                                        *)
(*                                                                          *)
(* The auth service keeps an e-mail or a phone in a normal form, once for   *)
(* each account type; the event has it as it was typed, and the type with   *)
(* ADMIN written as USER.  So what is unique on one side need not be on the *)
(* other.                                                                   *)
(***************************************************************************)
EXTENDS Auth, Signup

CONSTANT AccountTypeOf     \* the account type each signup asks for

ASSUME AccountTypeAssumption ==
    AccountTypeOf \in [Signups -> {"USER", "PROVIDER", "ADMIN"}]

\* accountType of the event
ASSUME PublishedTypeAssumption ==
    \A s \in Signups :
        AccountOf[s] = IF AccountTypeOf[s] = "ADMIN" THEN "USER" ELSE AccountTypeOf[s]

\* What was typed alike is alike in the normal form.
ASSUME NormalFormAssumption ==
    \A s, t \in Signups :
        /\ AccountTypeOf[s] = AccountTypeOf[t]
        /\ AddressesOf[s] \cap AddressesOf[t] # {}
        => ContactsOf[s] \cap ContactsOf[t] # {}

consumerVars == <<service, consumer, routed, queueVars, held, tableVars, countVars>>
onboardingVars == <<authVars, consumerVars>>

OnboardingInit == AuthInit /\ Init

-----------------------------------------------------------------------------
\* The signup that publishes, with the exchange that copies its event.
Publish(s) == (\E wrapped \in Envelopes : Announce(s, wrapped)) /\ SignupPublish(s)

AuthMoves == UNCHANGED <<announced, consumerVars>> /\ AuthNext

ConsumerMoves ==
    /\ Start \/ Work \/ ChannelCloses \/ \E i \in Signups : LateInsert(i)
    /\ UNCHANGED authVars

OnboardingNext == (\E s \in Signups : Publish(s)) \/ AuthMoves \/ ConsumerMoves

OnboardingSpec == OnboardingInit /\ [][OnboardingNext]_onboardingVars

-----------------------------------------------------------------------------
(***************************************************************************)
(* Properties                                                               *)
(***************************************************************************)
\* FEATURES.md 1: a profile is of an identity that is stored with a row for each
\* of its contacts, although identity, rows and event are written one after the
\* other and the profile in another service, and although the signup may have
\* failed after its event or be still under way.
ProfileIsOfIdentity ==
    \A i \in rows \cup late :
        /\ i \in identities
        /\ SignupRows(i) \subseteq records

\* The unique indexes of the auth service keep apart what those of the users
\* table keep apart, but for the account type: if not for failures, an event is
\* dead-lettered in the user service alone, and only when an account of another
\* type with its e-mail or phone has the row.
DeadNeedsOtherAccount ==
    \A m \in Message :
        dead[m] > 0 /\ m.wrapped /\ faults <= MaxRetries =>
            /\ service = "user"
            /\ \E i \in rows \cap identities :
                 Rival(m.id, i) /\ AccountTypeOf[i] # AccountTypeOf[m.id]
=============================================================================
