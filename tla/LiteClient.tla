------------------------------ MODULE LiteClient ------------------------------
(***************************************************************************)
(* The account centre (src/lite): one user's app, with the gate that shows  *)
(* the login page or the account page (main.dart), the screens on top of it *)
(* (screens/), and the token it keeps on the device (auth_service.dart).    *)
(*                                                                          *)
(* Dart runs one callback at a time.  A handler is therefore a row of       *)
(* actions, cut where it awaits: an answer of the provider or its timeout,  *)
(* or the completion of a write to the device.  Screens may have gone by    *)
(* then, and the user presses other buttons in between.  The app may be     *)
(* killed at any time and starts again.                                     *)
(*                                                                          *)
(* What the provider does with a call is left open here: AccountCentre says *)
(* it.  JWTs differ in their expiry only, so the device holds one or none.  *)
(***************************************************************************)
EXTENDS Naturals, Sequences, FiniteSets

CONSTANTS
    Calls,          \* numbered slots for calls to the provider
    Passwords, Nicks,
    None,
    MaxLogouts      \* bound of the model: logouts that the device has not done

ASSUME ClientParameters ==
    /\ MaxLogouts \in Nat
    /\ Calls \subseteq Nat
    /\ None \notin Passwords \cup Nicks

VARIABLES
    gate,       \* _AuthGateState: "starting" is _hasToken == null, "gone" that its
                \* page was popped and nothing is shown any more
    stored,     \* is there a token in the cache of SharedPreferences?
    disk,       \* and on the device?
    writes,     \* the writes to the device under way: is there a token, and the
                \* login that waits for the write, or None for a logout
    signingIn,  \* _LoginScreenState._loading, while the login page is shown
    page,       \* _AccountScreenState, while the account page is shown
    dialog,     \* the nickname dialog; "orphan" when its page has gone
    route,      \* _ChangePasswordScreenState; "busy" is _loading, "closing" that it
                \* was left while busy and is still in its exit transition
    calls,      \* what each call asks, how far it got and who waits for it
    \* what an observer knows and the app does not keep:
    loggedOut,  \* the user has logged out with no login under way, and not
                \* signed in again
    saved,      \* the nickname whose update was announced, no other call having
                \* been under way meanwhile, and that was not edited since
    confirmed   \* the same of the password

device == <<stored, disk, writes>>
edits == <<saved, confirmed>>
app == <<gate, device, signingIn, page, dialog, route, calls, loggedOut, edits>>

Info == [nickname : Nicks \cup {None}]

\* The error is that there is no token, or that the account could not be loaded.
Page == [loading : BOOLEAN, error : {"none", "signedOut", "failed"},
         info : Info \cup {None}]

Call == [op : {"login", "fetch", "nickname", "password"},
         before : Passwords \cup {None}, text : Passwords \cup Nicks \cup {None},
         \* at the provider, answered, or waiting for the device
         at : {"sent", "ok", "failed", "storing"},
         info : Info \cup {None},
         heard : BOOLEAN,      \* does the app still wait for it?
         mounted : BOOLEAN,    \* is the screen that made it still there?
         alone : BOOLEAN]      \* an observer's: was no other call under way since?

ASSUME NoneIsNoCall == None \notin Calls \cup Call \cup Page \cup Info

Asks(op, before, text, mounted) ==
    [op |-> op, before |-> before, text |-> text, at |-> "sent", info |-> None,
     heard |-> TRUE, mounted |-> mounted, alone |-> TRUE]

Fetch == Asks("fetch", None, None, TRUE)

Free(c) == calls[c] = None

\* The slots are alike: a new call takes the first that is free.
Slot(c) == Free(c) /\ \A d \in Calls : Free(d) => c <= d

Waits(c, op, at) ==
    ~Free(c) /\ calls[c].op = op /\ calls[c].heard /\ calls[c].at = at

\* The user has made the call.
Placed(c, call) ==
    [d \in Calls |->
        IF d = c THEN [call EXCEPT !.alone = \A e \in Calls : Free(e)]
        ELSE IF Free(d) THEN None ELSE [calls[d] EXCEPT !.alone = FALSE]]

\* The screens that make these calls are disposed.
Unmounted(ops) ==
    [c \in Calls |-> IF ~Free(c) /\ calls[c].op \in ops
                     THEN [calls[c] EXCEPT !.mounted = FALSE] ELSE calls[c]]

\* Nobody waits for the call any more.  An edit goes on at the provider; a login
\* or a fetch is forgotten, for the provider keeps nothing of it that matters here.
GivenUp(call) ==
    IF call.at = "sent" /\ call.op \in {"nickname", "password"}
    THEN [call EXCEPT !.heard = FALSE, !.mounted = FALSE] ELSE None

\* Mutant of LoadingAgain: the page stays as it is meanwhile.
NotLoadingAgain == page

LoadingAgain == [page EXCEPT !.loading = TRUE, !.error = "none"]

\* Mutant of ErrorShown: the loading flag is left on.
ErrorWhileLoading == [page EXCEPT !.error = "failed"]

\* Mutant of ErrorShown: the error is swallowed.
ErrorSwallowed == [page EXCEPT !.loading = FALSE]

ErrorShown == [page EXCEPT !.error = "failed", !.loading = FALSE]

Over(c) == [calls EXCEPT ![c] = None]

AppInit ==
    /\ gate = "starting"
    /\ disk \in BOOLEAN /\ stored = disk /\ writes = <<>>
    /\ signingIn = FALSE
    /\ page = None
    /\ dialog = "closed" /\ route = "closed"
    /\ calls = [c \in Calls |-> None]
    /\ loggedOut = FALSE /\ saved = None /\ confirmed = None

-------------------------------------------------------------------------------
(* The gate.  A page that is shown anew fetches the account; without a token  *)
(* it only sets its error.                                                    *)

ShowAccount(c) ==
    /\ gate' = "main"
    /\ page' = [loading |-> TRUE, error |-> IF stored THEN "none" ELSE "signedOut",
                info |-> None]
    /\ calls' = [Unmounted({"login"}) EXCEPT ![c] = IF stored THEN Fetch ELSE None]
    /\ signingIn' = FALSE

ShowLogin ==
    /\ gate' = "login"
    /\ page' = None
    /\ calls' = Unmounted({"fetch", "nickname"})
    /\ dialog' = IF dialog = "open" THEN "orphan" ELSE dialog
    /\ signingIn' = FALSE

Start(c) ==
    /\ gate = "starting" /\ Slot(c)
    /\ IF stored THEN ShowAccount(c) /\ UNCHANGED dialog ELSE ShowLogin
    /\ UNCHANGED <<device, route, loggedOut, edits>>

\* Mutant of Logout: the login page is shown without waiting for the device.
LogoutAtOnce ==
    /\ gate = "main" /\ dialog = "closed" /\ route = "closed"
    /\ ShowLogin
    /\ stored' = FALSE
    /\ writes' = Append(writes, [token |-> FALSE, call |-> None])
    /\ loggedOut' = TRUE
    /\ UNCHANGED <<disk, route, edits>>

\* The logout button: the cache is cleared at once.
Logout ==
    /\ gate = "main" /\ dialog = "closed" /\ route = "closed"
    /\ Cardinality({n \in 1 .. Len(writes) : ~writes[n].token}) < MaxLogouts
    /\ stored' = FALSE
    /\ writes' = Append(writes, [token |-> FALSE, call |-> None])
    /\ UNCHANGED <<gate, disk, signingIn, page, dialog, route, calls, loggedOut, edits>>

\* The device completes the writes in their order, those that fail included.
Written ==
    /\ writes # <<>>
    /\ disk' = Head(writes).token
    /\ writes' = Tail(writes)
    /\ UNCHANGED <<stored, route, edits>>

LogoutDone ==
    /\ Written /\ ~Head(writes).token
    /\ IF gate = "main" THEN ShowLogin
       ELSE UNCHANGED <<gate, page, calls, dialog, signingIn>>
    /\ loggedOut' = \A c \in Calls : Free(c) \/ calls[c].op # "login" \/ ~calls[c].heard

\* Mutant of Opens: onSuccess is left out when its login page has gone.
OpensIfMounted(c) == gate = "login" /\ calls[c].mounted

\* onSuccess is called whether its login page is still there or not.
Opens(c) == gate = "login"

LoginDone ==
    /\ Written /\ Head(writes).token
    /\ LET c == Head(writes).call
       IN IF Opens(c) THEN ShowAccount(c)
          ELSE calls' = Over(c) /\ UNCHANGED <<gate, page, signingIn>>
    /\ UNCHANGED <<dialog, loggedOut>>

\* setString or remove throws, after the cache was set.  A login shows an error if
\* its page is still there; nothing catches it for a logout, which ends there.
WriteFails ==
    /\ writes # <<>>
    /\ writes' = Tail(writes)
    /\ LET c == Head(writes).call
       IN IF Head(writes).token
          THEN calls' = Over(c) /\ signingIn' = (signingIn /\ ~calls[c].mounted)
          ELSE UNCHANGED <<calls, signingIn>>
    /\ UNCHANGED <<gate, stored, disk, page, dialog, route, loggedOut, edits>>

\* The app is killed; some of the writes under way have reached the device.  Its
\* calls go on at the provider.
Kill ==
    /\ gate # "starting"
    /\ gate' = "starting"
    /\ \E n \in 0 .. Len(writes) : disk' = IF n = 0 THEN disk ELSE writes[n].token
    /\ stored' = disk' /\ writes' = <<>>
    /\ calls' = [c \in Calls |-> IF Free(c) THEN None ELSE GivenUp(calls[c])]
    /\ \E c \in Calls : calls'[c] = None   \* bound of the model: room to start
    /\ signingIn' = FALSE /\ page' = None /\ dialog' = "closed" /\ route' = "closed"
    /\ UNCHANGED <<loggedOut, edits>>

-------------------------------------------------------------------------------
(* The login page.  The button is off while it is loading, but the Enter key  *)
(* in the password field is not.                                              *)

Submit(c, password) ==
    /\ gate = "login" /\ dialog = "closed" /\ route = "closed"
    /\ Slot(c)
    /\ calls' = Placed(c, Asks("login", None, password, TRUE))
    /\ signingIn' = TRUE
    /\ loggedOut' = FALSE
    /\ UNCHANGED <<gate, device, page, dialog, route, edits>>

LoginAnswered(c) ==
    /\ Waits(c, "login", "ok")
    /\ stored' = TRUE
    /\ writes' = Append(writes, [token |-> TRUE, call |-> c])
    /\ calls' = [calls EXCEPT ![c].at = "storing"]
    /\ UNCHANGED <<gate, disk, signingIn, page, dialog, route, loggedOut, edits>>

-------------------------------------------------------------------------------
(* The account page. *)

Ready == gate = "main" /\ ~page.loading /\ dialog = "closed" /\ route = "closed"

FetchAnswered(c) ==
    /\ Waits(c, "fetch", "ok")
    /\ page' = IF calls[c].mounted
               THEN [page EXCEPT !.info = calls[c].info, !.loading = FALSE] ELSE page
    /\ calls' = Over(c)
    /\ UNCHANGED <<gate, device, signingIn, dialog, route, loggedOut, edits>>

\* The retry button of the error.
Retry(c) ==
    /\ Ready /\ page.error # "none"
    /\ Slot(c)
    /\ page' = LoadingAgain
    /\ calls' = Placed(c, Fetch)
    /\ UNCHANGED <<gate, device, signingIn, dialog, route, loggedOut, edits>>

OpenDialog ==
    /\ Ready /\ page.error = "none"
    /\ dialog' = "open"
    /\ UNCHANGED <<gate, device, signingIn, page, route, calls, loggedOut, edits>>

CloseDialog ==
    /\ dialog # "closed"
    /\ dialog' = "closed"
    /\ UNCHANGED <<gate, device, signingIn, page, route, calls, loggedOut, edits>>

\* A nickname that the page shows already is not sent.  The dialog outlives its
\* page, and then goes by what that page showed.
SaveNickname(c, nickname) ==
    /\ dialog # "closed"
    /\ dialog = "open" => page.info # [nickname |-> nickname]
    /\ Slot(c)
    /\ dialog' = "closed"
    /\ calls' = Placed(c, Asks("nickname", None, nickname, dialog = "open"))
    /\ saved' = None
    /\ UNCHANGED <<gate, device, signingIn, page, route, loggedOut, confirmed>>

\* The page is loaded again, if it is there.
NicknameAnswered(c) ==
    /\ Waits(c, "nickname", "ok")
    /\ IF calls[c].mounted
       THEN /\ page' = LoadingAgain
            /\ calls' = [calls EXCEPT ![c] = Fetch]
            /\ saved' = IF calls[c].alone THEN calls[c].text ELSE saved
       ELSE calls' = Over(c) /\ UNCHANGED <<page, saved>>
    /\ UNCHANGED <<gate, device, signingIn, dialog, route, loggedOut, confirmed>>

-------------------------------------------------------------------------------
(* The password page, on top of either page of the gate. *)

OpenPassword ==
    /\ Ready /\ page.error = "none"
    /\ route' = "open"
    /\ UNCHANGED <<gate, device, signingIn, page, dialog, calls, loggedOut, edits>>

\* The back button.  A page that waits for an answer goes on waiting until its exit
\* transition ends; bound of the model: the user presses nothing meanwhile.
ClosePassword ==
    /\ route \in {"open", "busy"}
    /\ route' = IF route = "busy" THEN "closing" ELSE "closed"
    /\ UNCHANGED <<gate, device, signingIn, page, dialog, calls, loggedOut, edits>>

PasswordGone ==
    /\ route = "closing"
    /\ route' = "closed"
    /\ calls' = Unmounted({"password"})
    /\ UNCHANGED <<gate, device, signingIn, page, dialog, loggedOut, edits>>

SubmitPassword(c, before, after) ==
    /\ route = "open"
    /\ Slot(c)
    /\ route' = "busy"
    /\ calls' = Placed(c, Asks("password", before, after, TRUE))
    /\ confirmed' = None
    /\ UNCHANGED <<gate, device, signingIn, page, dialog, loggedOut, saved>>

\* The page that is announced to have worked pops itself; one that is closing
\* already pops the page below it, which is the gate.
PasswordAnswered(c) ==
    /\ Waits(c, "password", "ok")
    /\ confirmed' = IF calls[c].mounted /\ calls[c].alone THEN calls[c].text ELSE confirmed
    /\ IF calls[c].mounted /\ route = "closing"
       THEN /\ gate' = "gone" /\ page' = None /\ signingIn' = FALSE
            /\ calls' = [Unmounted({"login", "fetch", "nickname"}) EXCEPT ![c] = None]
            /\ UNCHANGED route
       ELSE /\ route' = IF calls[c].mounted THEN "closed" ELSE route
            /\ calls' = Over(c)
            /\ UNCHANGED <<gate, page, signingIn>>
    /\ UNCHANGED <<device, dialog, loggedOut, saved>>

-------------------------------------------------------------------------------
(* Errors, which every screen handles if it is still there: an answer that is *)
(* not a 200, no connection, or no answer for 15 seconds.                     *)

Shows(c) ==
    LET here(op) == calls[c].op = op /\ calls[c].mounted
    IN /\ signingIn' = (signingIn /\ ~here("login"))
       /\ page' = IF here("fetch") THEN ErrorShown ELSE page
       /\ route' = IF here("password") /\ route = "busy" THEN "open" ELSE route
       /\ UNCHANGED <<gate, device, dialog, loggedOut, edits>>

Fails(c) ==
    /\ ~Free(c) /\ calls[c].heard /\ calls[c].at = "failed"
    /\ Shows(c)
    /\ calls' = Over(c)

\* The call goes on at the provider; what comes of it is not listened to.
Timeout(c) ==
    /\ ~Free(c) /\ calls[c].heard /\ calls[c].at # "storing"
    /\ Shows(c)
    /\ calls' = [calls EXCEPT ![c] = GivenUp(@)]

\* The provider's answer.
Reply(c, at, info) ==
    calls' = [calls EXCEPT ![c] =
        IF @.heard THEN [@ EXCEPT !.at = at, !.info = info] ELSE None]

AppStep ==
    \/ \E c \in Calls :
          \/ Start(c)
          \/ \E password \in Passwords : Submit(c, password)
          \/ LoginAnswered(c) \/ FetchAnswered(c) \/ Retry(c)
          \/ \E nickname \in Nicks : SaveNickname(c, nickname)
          \/ NicknameAnswered(c)
          \/ \E before, after \in Passwords :
                before # after /\ SubmitPassword(c, before, after)
          \/ PasswordAnswered(c)
          \/ Fails(c) \/ Timeout(c)
    \/ Logout \/ LogoutDone \/ LoginDone \/ WriteFails \/ Kill
    \/ OpenDialog \/ CloseDialog \/ OpenPassword \/ ClosePassword \/ PasswordGone

-------------------------------------------------------------------------------
(* Properties. *)

\* Every variable has its type.
AppTypeOK ==
    /\ gate \in {"starting", "login", "main", "gone"}
    /\ stored \in BOOLEAN /\ disk \in BOOLEAN
    /\ writes \in Seq([token : BOOLEAN, call : Calls \cup {None}])
    /\ signingIn \in BOOLEAN
    /\ page \in Page \cup {None}
    /\ dialog \in {"closed", "open", "orphan"}
    /\ route \in {"closed", "open", "busy", "closing"}
    /\ calls \in [Calls -> Call \cup {None}]
    /\ loggedOut \in BOOLEAN
    /\ saved \in Nicks \cup {None}
    /\ confirmed \in Passwords \cup {None}

\* What main.dart:32 says of the gate: however logins, logouts and failing writes
\* overlap, the account page is shown if and only if the device keeps a token, so
\* that the next start shows what is shown now.
GateFollowsStore == gate \in {"login", "main"} => (gate = "main") = disk

\* A logout that is done, with no login under way, lasts until the user signs in
\* again: no late answer and no restart brings the account page back.
LogoutHolds == loggedOut => gate # "main" /\ ~stored

\* The account page never shows an account that it has not got (the "_info!" of
\* its build), however its loads overlap.
PageHasInfo ==
    gate = "main" /\ ~page.loading /\ page.error = "none" => page.info # None

\* A nickname whose update was announced is what the page shows, whenever it
\* shows an account, until it is edited again.
SavedNicknameShows ==
    gate = "main" /\ ~page.loading /\ page.error = "none" /\ saved # None
        => page.info = [nickname |-> saved]
===============================================================================
