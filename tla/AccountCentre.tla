----------------------------- MODULE AccountCentre -----------------------------
(***************************************************************************)
(* The account centre (LiteClient) and the users of the provider (Accounts) *)
(* together: what the provider does with each call of the app, statement by *)
(* statement, while the app gives up, goes on, is killed and starts again.  *)
(* One user, who does not use the account elsewhere meanwhile.              *)
(***************************************************************************)
EXTENDS LiteClient

CONSTANTS Ids, AdminName, AdminRole, AdminToken

VARIABLES
    \* of Accounts; a call has the request slot of its own name
    clock, users, roles, pc, who, copy, actor, born, proved, granted

Provider == INSTANCE Accounts WITH
    Procs <- Calls, Ops <- {"password", "profile"}, MaxClock <- 0,
    Names <- {}, Emails <- {}, Phones <- {}, OtherRoles <- {},
    FirstStart <- FALSE, Schemes <- {"argon2id"}

\* The users of Accounts are what Accounts assumes of them.
ASSUME ProviderParameters ==
    /\ Ids \subseteq Nat
    /\ None \notin Ids \cup {AdminName, AdminRole, AdminToken}
    /\ None \notin Provider!User \cup Provider!Hash \cup Provider!Identity

server == <<clock, users, roles, pc, who, copy, actor, born, proved, granted>>
vars == <<app, server>>

\* The user of the app is the one there is, the administrator.
Init == AppInit /\ Provider!Init

\* The call has reached the provider and is not being served yet.
Arrived(c, op) ==
    /\ ~Free(c) /\ calls[c].op = op /\ calls[c].at = "sent"
    /\ pc[c] = "idle"

Client == AppStep /\ UNCHANGED server

Answers(c, at, info) ==
    /\ Reply(c, at, info)
    /\ UNCHANGED <<gate, device, signingIn, page, dialog, route, loggedOut, edits>>

-------------------------------------------------------------------------------

\* POST /oauth/token
ServeLogin(c) ==
    /\ Arrived(c, "login")
    /\ Answers(c, IF \E i \in Ids : Provider!SignsIn(AdminName, calls[c].text, i)
                  THEN "ok" ELSE "failed", None)
    /\ UNCHANGED server

\* Mutant of ServeFetch: the user as it is stored.
ServeUser(c, i) ==
    /\ Arrived(c, "fetch")
    /\ Answers(c, "ok", users[i])
    /\ UNCHANGED server

\* GET /userinfo
ServeFetch(c, i) ==
    /\ Arrived(c, "fetch")
    /\ Provider!Has(users, i)
    /\ Answers(c, "ok", [nickname |-> users[i].nickname])
    /\ UNCHANGED server

\* POST /userinfo
ServeNickname(c, i) ==
    /\ Arrived(c, "nickname")
    /\ Provider!UpdateUserInfo(c, i, calls[c].text)
    /\ UNCHANGED app

NicknameSaved(c) == Provider!ProfileWrite(c) /\ Answers(c, "ok", None)

\* POST /oauth/password/change
ServePassword(c, i) ==
    /\ Arrived(c, "password")
    /\ Provider!ChangePassword(c, i, calls[c].before, calls[c].text)
    /\ UNCHANGED app

WrongPassword(c, i) ==
    /\ Arrived(c, "password")
    /\ ~Provider!Verified(calls[c].before, users[i].hash)
    /\ Answers(c, "failed", None)
    /\ UNCHANGED server

PasswordSaved(c) == Provider!WriteBack(c) /\ Answers(c, "ok", None)

\* The call does not get there, the token is not accepted, or a statement fails;
\* the write of an edit may nevertheless be done, and its answer be lost.
ServeFails(c) ==
    /\ ~Free(c) /\ calls[c].at = "sent"
    /\ Answers(c, "failed", None)
    /\ \/ pc[c] = "idle" /\ UNCHANGED server
       \/ Provider!Abandon(c) \/ Provider!ProfileWrite(c) \/ Provider!WriteBack(c)

Serve(c) ==
    \/ ServeLogin(c)
    \/ \E i \in Ids : \/ ServeFetch(c, i) \/ ServeNickname(c, i)
                     \/ ServePassword(c, i) \/ WrongPassword(c, i)
    \/ NicknameSaved(c) \/ PasswordSaved(c)
    \/ ServeFails(c)

Next == Client \/ \E c \in Calls : Serve(c)

\* The device completes its writes or fails them, and the timer of every call goes off unless it
\* was answered; neither the user nor the provider need do anything.
Fairness ==
    /\ WF_vars((LogoutDone \/ LoginDone \/ WriteFails) /\ UNCHANGED server)
    /\ \A c \in Calls : WF_vars(Timeout(c) /\ UNCHANGED server)

Spec == Init /\ [][Next]_vars /\ Fairness

-------------------------------------------------------------------------------
(* Properties. *)

\* Every variable has its type.
TypeOK ==
    /\ AppTypeOK
    /\ Provider!TypeOK

\* A password whose change was announced, with no other call under way, is the
\* one that signs in, until the next change is submitted.
ConfirmedPasswordHolds ==
    confirmed # None =>
        \A password \in Passwords :
            (\E i \in Ids : Provider!SignsIn(AdminName, password, i)) <=> password = confirmed

\* No button and no page shows that it is busy for ever, whatever the user presses:
\* again and again there is a time when neither the login page, nor the password
\* page, nor the account page is.  The account page has no timer when it is built
\* while a logout has emptied the cache (account_screen.dart:38): it goes with that
\* logout, and stays as it is only if the device failed to remove the token.  The
\* device does not go on failing for ever.
BusyEnds ==
    LET sending == signingIn \/ route = "busy"
        notRemoved == page.error = "signedOut" /\ writes = <<>>
        loading == gate = "main" /\ page.loading /\ ~notRemoved
    IN <>[][~WriteFails]_vars => []<>~(sending \/ loading)
===============================================================================
