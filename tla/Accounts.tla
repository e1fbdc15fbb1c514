------------------------------ MODULE Accounts ------------------------------
(***************************************************************************)
(* A verification code from the request that draws it to the one that       *)
(* enters it: the auth service publishes it, the notification service       *)
(* delivers it by mail or in the app, and its owner reads it there.         *)
(*                                                                          *)
(* Auth says of a delivery only that a published code may arrive; here the  *)
(* queue, the consumer and the channels decide it.                          *)
(***************************************************************************)
EXTENDS Auth, Notifications

\* What sendVerification publishes with a code for this contact.
CodeNote(q, claim) ==
    LET mail == claim[2] \in Emails
    IN  [id |-> q, userAuthId |-> claim[1], channel |-> IF mail THEN "email" ELSE "in_app",
         emailTo |-> mail, complete |-> TRUE]

\* Notifications of other services carry no code.
ASSUME CodesAreNotes ==
    /\ \A q \in Sends, claim \in Claim : CodeNote(q, claim) \in Notes
    /\ \A n \in Notes : n.id \in Sends => \E claim \in Claim : n = CodeNote(n.id, claim)

accountVars == <<authVars, noteVars>>

\* Codes that can be read: in a mail, or in the app.
Readable == {q \in Sends : \E n \in Notes : n.id = q /\ mails[n] + rows[n] > 0}

AccountsInit == AuthInit /\ NoteInit

CodePublish(q) ==
    /\ SendPublish(q)
    /\ Publish(CodeNote(q, send[q].claim))

OtherPublish(n) ==
    /\ n.id \notin Sends
    /\ Publish(n)
    /\ UNCHANGED authVars

\* A step of the notification service; a send that is carried out makes the code
\* readable.
NoteStep ==
    /\ NoteInner
    /\ known' = Readable'
    /\ UNCHANGED <<identityVars, expired, signupVars, sendVars, verify>>

AccountsNext ==
    \/ AuthInner /\ UNCHANGED noteVars
    \/ NoteStep
    \/ \E q \in Sends : CodePublish(q)
    \/ \E n \in Notes : OtherPublish(n)

AccountsSpec == AccountsInit /\ [][AccountsNext]_accountVars

\* What broker and consumer do of themselves, they do in the end.
FairAccounts == AccountsSpec /\ WF_accountVars(Work /\ NoteStep)

-----------------------------------------------------------------------------
\* With the real queue, consumer and channels the auth service does no more
\* than Auth says, so what is checked and proved of Auth holds of the two.
ImplementsAuth == AuthSpec
=============================================================================
