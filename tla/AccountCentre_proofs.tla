-------------------------- MODULE AccountCentre_proofs --------------------------
(***************************************************************************)
(* Theorems about AccountCentre, for any number of calls under way, any      *)
(* passwords and nicknames, and however often the app logs out or is killed. *)
(***************************************************************************)
EXTENDS AccountCentre, TLAPS, SequenceTheorems

-------------------------------------------------------------------------------
(* The inductive invariant, of the app by itself. *)

Edits == {"nickname", "password"}

\* A call is listened to by a screen that is there, or given up; an edit asks for
\* what it may ask for.
IsSound(call) ==
    /\ call \in Call
    /\ call.at = "storing" => call.op = "login"
    /\ ~call.heard => call.op \in Edits /\ call.at = "sent"
    /\ call.heard => gate # "starting"
    /\ call.op = "fetch" /\ call.at = "ok" => call.info # None
    /\ call.op \in {"fetch", "nickname"} /\ call.mounted => call.heard /\ gate = "main"
    /\ call.op = "nickname" => call.text \in Nicks
    /\ call.op = "password" => call.before \in Passwords /\ call.text \in Passwords

CallsAreSound == \A c \in Calls : ~Free(c) => IsSound(calls[c])

\* The gate and what is on top of it belong together.
ScreensAreSound ==
    /\ gate = "main" <=> page # None
    /\ dialog = "open" => gate = "main"
    /\ gate = "starting" => dialog = "closed" /\ route = "closed"
    /\ route # "closed" => dialog = "closed"

Pending(n) == n \in 1 .. Len(writes) /\ writes[n].token

WaitsForDevice(c) ==
    c \in Calls /\ ~Free(c) /\ calls[c].op = "login" /\ calls[c].at = "storing"

\* Every token on its way to the device is that of a login of its own, and the
\* cache is what the device will be if it does its last write.
WritesAreSound ==
    /\ gate = "starting" => writes = <<>> /\ stored = disk
    /\ writes # <<>> => stored = writes[Len(writes)].token
    /\ \A n \in 1 .. Len(writes) : Pending(n) => WaitsForDevice(writes[n].call)
    /\ \A m, n \in 1 .. Len(writes) :
         Pending(m) /\ Pending(n) /\ writes[m].call = writes[n].call => m = n

\* A user who has logged out is out everywhere.
OutEverywhere ==
    loggedOut =>
        /\ gate # "main" /\ ~stored /\ ~disk
        /\ \A n \in 1 .. Len(writes) : ~Pending(n)
        /\ \A c \in Calls : Free(c) \/ calls[c].op # "login"

\* An edit with no other call under way but fetches: none of them sent before it.
AloneIsAlone ==
    \A c \in Calls : ~Free(c) /\ calls[c].op \in Edits /\ calls[c].alone =>
        \A d \in Calls \ {c} :
            \/ Free(d)
            \/ calls[d].op = "fetch" /\ ~(calls[c].op = "nickname" /\ calls[c].mounted)

AppInv ==
    /\ AppTypeOK
    /\ CallsAreSound
    /\ ScreensAreSound
    /\ WritesAreSound
    /\ GateFollowsStore
    /\ OutEverywhere
    /\ AloneIsAlone
    /\ PageHasInfo

-------------------------------------------------------------------------------
(* The inductive invariant, of the app and the provider together. *)

P == INSTANCE Accounts_proofs WITH
    Procs <- Calls, Ops <- {"password", "profile"}, MaxClock <- 0,
    Names <- {}, Emails <- {}, Phones <- {}, OtherRoles <- {},
    FirstStart <- FALSE, Schemes <- {"argon2id"}

\* There is one account, the administrator's, and there never was another.
IsTheAccount(a) ==
    /\ \A i \in Ids : (users[i] # None <=> i = a) /\ (born[i] # None <=> i = a)
    /\ born[a].username = AdminName

OnlyAdministrator == \E a \in Ids : IsTheAccount(a)

\* The provider writes what a call that has not been answered asks for.
ServedIsAsked ==
    \A c \in Calls :
        /\ pc[c] \in {"idle", "write", "profileWrite"}
        /\ pc[c] # "idle" => ~Free(c) /\ calls[c].at = "sent"
        /\ pc[c] = "write" =>
             calls[c].op = "password" /\ copy[c].hash = P!Hashed(calls[c].text)
        /\ pc[c] = "profileWrite" =>
             calls[c].op = "nickname" /\ copy[c].nickname = calls[c].text

NoCall(op) == \A c \in Calls : Free(c) \/ calls[c].op # op

\* What a user is, and what every copy is that will be written back.
AllHave(field, value) ==
    /\ \A i \in Ids : users[i] # None => users[i][field] = value
    /\ \A c \in Calls : pc[c] # "idle" => copy[c][field] = value

\* An edit that was answered, with no other under way, is done.
EditsAreDone ==
    \A c \in Calls : ~Free(c) /\ calls[c].at = "ok" /\ calls[c].alone =>
        /\ calls[c].op = "password" => AllHave("hash", P!Hashed(calls[c].text))
        /\ calls[c].op = "nickname" => AllHave("nickname", calls[c].text)

ConfirmedIsWritten ==
    confirmed # None => NoCall("password") /\ AllHave("hash", P!Hashed(confirmed))

SavedIsWritten ==
    saved # None =>
        /\ NoCall("nickname") /\ AllHave("nickname", saved)
        /\ \A c \in Calls :
             ~Free(c) /\ calls[c].op = "fetch" /\ calls[c].at = "ok"
               => calls[c].info = [nickname |-> saved]

Inv ==
    /\ AppInv
    /\ P!Inv
    /\ OnlyAdministrator
    /\ ServedIsAsked
    /\ EditsAreDone
    /\ ConfirmedIsWritten
    /\ SavedIsWritten
    /\ SavedNicknameShows

-------------------------------------------------------------------------------
(* Calls. *)

\* n asks for what call asks for.
SameRequest(n, call) ==
    /\ n \in Call /\ n # None
    /\ n.op = call.op /\ n.before = call.before /\ n.text = call.text

\* A call that is updated asks for what it asked for.
LEMMA AloneCalls ==
    ASSUME NEW call \in Call, NEW b \in BOOLEAN
    PROVE  LET n == [call EXCEPT !.alone = b]
           IN  /\ SameRequest(n, call) /\ n.at = call.at /\ n.info = call.info
               /\ n.heard = call.heard /\ n.mounted = call.mounted /\ n.alone = b
BY NoneIsNoCall DEF Call, SameRequest

\* So does one whose screen is disposed.
LEMMA UnmountedCalls ==
    ASSUME NEW call \in Call
    PROVE  LET n == [call EXCEPT !.mounted = FALSE]
           IN  /\ SameRequest(n, call) /\ n.at = call.at /\ n.info = call.info
               /\ n.heard = call.heard /\ n.mounted = FALSE /\ n.alone = call.alone
BY NoneIsNoCall DEF Call, SameRequest

\* So does one that is given up.
LEMMA GivenUpCalls ==
    ASSUME NEW call \in Call
    PROVE  LET n == [call EXCEPT !.heard = FALSE, !.mounted = FALSE]
           IN  /\ SameRequest(n, call) /\ n.at = call.at /\ n.info = call.info
               /\ n.heard = FALSE /\ n.mounted = FALSE /\ n.alone = call.alone
BY NoneIsNoCall DEF Call, SameRequest

\* So does one that waits for the device.
LEMMA StoringCalls ==
    ASSUME NEW call \in Call
    PROVE  LET n == [call EXCEPT !.at = "storing"]
           IN  /\ SameRequest(n, call) /\ n.at = "storing" /\ n.info = call.info
               /\ n.heard = call.heard /\ n.mounted = call.mounted /\ n.alone = call.alone
BY NoneIsNoCall DEF Call, SameRequest

\* What the app does with the calls that are there already: an edit that is at
\* the provider stays what it is, and what has been answered was answered before.
Kept ==
    \A c \in Calls :
        /\ calls[c] # None /\ calls[c].at = "sent" /\ calls[c].op \in Edits =>
             /\ calls'[c] # None /\ calls'[c].at = "sent"
             /\ calls'[c].op = calls[c].op /\ calls'[c].text = calls[c].text
        /\ calls'[c] # None /\ calls'[c].at = "ok" =>
             /\ calls[c] # None /\ calls[c].at = "ok" /\ calls'[c].op = calls[c].op
             /\ calls'[c].text = calls[c].text /\ calls'[c].info = calls[c].info
             /\ calls'[c].alone => calls[c].alone

\* What is left of a call: it asks for the same, and nothing comes back.
Left(old, new) ==
    new # None =>
        /\ old # None
        /\ new.op = old.op /\ new.before = old.before /\ new.text = old.text
        /\ new.mounted => old.mounted
        /\ new.alone => old.alone

\* Of calls that are left, those alone still are.
LEMMA LeftKeepsAlone ==
    ASSUME AloneIsAlone, \A c \in Calls : Left(calls[c], calls'[c])
    PROVE  AloneIsAlone'
BY DEF AloneIsAlone, Left, Free

\* A step leaves calls that are sound, and the logins that wait for the device
\* where they are.
CallsStaySound ==
    /\ calls' \in [Calls -> Call \cup {None}]
    /\ \A c \in Calls : calls'[c] # None => IsSound(calls'[c])
    /\ \A c \in Calls : calls[c] # None /\ calls[c].at = "storing" =>
         calls'[c] # None /\ calls'[c].op = "login" /\ calls'[c].at = "storing"
    /\ AloneIsAlone'

CallsGoOn == CallsStaySound /\ Kept

\* A step on the screens, with the gate and the device as they are.
LEMMA ScreenKeepsAppInv ==
    ASSUME AppInv, UNCHANGED <<gate, device>>,
           signingIn' \in BOOLEAN, page' \in Page \cup {None},
           dialog' \in {"closed", "open", "orphan"},
           route' \in {"closed", "open", "busy", "closing"},
           loggedOut' \in BOOLEAN, saved' \in Nicks \cup {None},
           confirmed' \in Passwords \cup {None},
           page' = None <=> page = None, dialog' = "open" => gate = "main",
           gate = "starting" => dialog' = "closed" /\ route' = "closed",
           route' # "closed" => dialog' = "closed",
           loggedOut' => loggedOut, loggedOut' => NoCall("login")',
           CallsStaySound, PageHasInfo'
    PROVE  AppInv'
<1>1. AppTypeOK'
    BY DEF AppInv, AppTypeOK, CallsStaySound, device
<1>2. CallsAreSound'
    BY DEF CallsAreSound, CallsStaySound, Free, IsSound
<1>3. ScreensAreSound'
    BY DEF AppInv, ScreensAreSound
<1>4. WritesAreSound'
    BY DEF AppInv, WritesAreSound, WaitsForDevice, Pending, CallsStaySound, Free, device
<1>5. GateFollowsStore'
    BY DEF AppInv, GateFollowsStore, device
<1>6. OutEverywhere'
    BY DEF AppInv, OutEverywhere, Pending, Free, NoCall, device
<1> QED
    BY <1>1, <1>2, <1>3, <1>4, <1>5, <1>6 DEF AppInv, CallsStaySound

\* The parts of a call in the invariant.
LEMMA SoundCalls ==
    ASSUME AppInv, NEW c \in Calls, calls[c] # None
    PROVE  /\ IsSound(calls[c]) /\ calls[c] \in Call
           /\ calls[c].op \in {"login", "fetch", "nickname", "password"}
           /\ calls[c].at \in {"sent", "ok", "failed", "storing"}
           /\ calls[c].info \in Info \cup {None}
           /\ calls[c].heard \in BOOLEAN /\ calls[c].mounted \in BOOLEAN
           /\ calls[c].alone \in BOOLEAN
BY DEF AppInv, CallsAreSound, Free, IsSound, Call

\* The call in slot c is over, and the others are what they were.
LEMMA OverCalls ==
    ASSUME AppInv, NEW c \in Calls, ~Free(c), calls[c].at \in {"ok", "failed"},
           calls' = Over(c),
           gate' = gate
    PROVE  /\ calls'[c] = None /\ \A d \in Calls \ {c} : calls'[d] = calls[d]
           /\ \A op : NoCall(op) => NoCall(op)'
           /\ CallsGoOn
<1>1. /\ calls' = [calls EXCEPT ![c] = None] /\ calls' \in [Calls -> Call \cup {None}]
      /\ calls'[c] = None /\ \A d \in Calls \ {c} : calls'[d] = calls[d]
    BY DEF Over, AppInv, AppTypeOK
<1>2. AloneIsAlone'
    BY <1>1, LeftKeepsAlone DEF Left, AppInv
<1>3. \A op : NoCall(op) => NoCall(op)'
    BY <1>1 DEF NoCall, Free
<1>4. Kept
    BY <1>1 DEF Kept, Free
<1> QED
    BY <1>1, <1>2, <1>3, <1>4, SoundCalls DEF CallsGoOn, CallsStaySound, Free, IsSound

\* A call that is placed takes a free slot; no other is alone from then on.
LEMMA PlacedCalls ==
    ASSUME AppInv, NEW c \in Calls, Free(c), NEW call \in Call, call.heard,
           calls' = Placed(c, call), gate' = gate, IsSound(call), call.at = "sent"
    PROVE  /\ calls'[c] # None /\ calls'[c].op = call.op /\ calls'[c].text = call.text
           /\ calls'[c].at = "sent"
           /\ \A d \in Calls \ {c} : calls[d] = None => calls'[d] = None
           /\ \A d \in Calls \ {c} : calls[d] # None =>
                /\ calls'[d] # None /\ calls'[d].op = calls[d].op /\ calls'[d].at = calls[d].at
                /\ calls'[d].text = calls[d].text /\ calls'[d].info = calls[d].info
                /\ ~calls'[d].alone
           /\ \A op : NoCall(op) /\ call.op # op => NoCall(op)'
           /\ CallsGoOn
<1> DEFINE n == [call EXCEPT !.alone = \A e \in Calls : Free(e)]
           m(d) == [calls[d] EXCEPT !.alone = FALSE]
<1>1. /\ SameRequest(n, call) /\ n.at = call.at /\ n.info = call.info
      /\ n.heard = call.heard /\ n.mounted = call.mounted
      /\ n.alone = \A e \in Calls : Free(e)
  <2> DEFINE b == \A e \in Calls : Free(e)
  <2>1. b \in BOOLEAN
      OBVIOUS
  <2> HIDE DEF b
  <2>2. LET k == [call EXCEPT !.alone = b]
        IN  /\ SameRequest(k, call) /\ k.at = call.at /\ k.info = call.info
            /\ k.heard = call.heard /\ k.mounted = call.mounted /\ k.alone = b
      BY <2>1, AloneCalls
  <2> QED
      BY <2>2 DEF b
<1>2. ASSUME NEW d \in Calls, calls[d] # None
      PROVE  /\ SameRequest(m(d), calls[d]) /\ m(d).at = calls[d].at
             /\ m(d).info = calls[d].info /\ m(d).heard = calls[d].heard
             /\ m(d).mounted = calls[d].mounted /\ m(d).alone = FALSE
  <2>1. calls[d] \in Call
      BY <1>2, SoundCalls
  <2> QED
      BY <2>1, AloneCalls
<1>3. calls' = [d \in Calls |-> IF d = c THEN n ELSE IF Free(d) THEN None ELSE m(d)]
    BY DEF Placed
<1> HIDE DEF n, m
<1>4. /\ calls'[c] = n
      /\ \A d \in Calls \ {c} : calls'[d] = IF calls[d] = None THEN None ELSE m(d)
    BY <1>3 DEF Free
<1>5. n # None /\ \A d \in Calls : calls[d] # None => m(d) # None
    BY <1>1, <1>2 DEF SameRequest
<1>6. calls' \in [Calls -> Call \cup {None}]
    BY <1>1, <1>2, <1>3 DEF Free, SameRequest
<1>7. \A d \in Calls : calls'[d] # None => IsSound(calls'[d])
  <2>1. IsSound(n)
      BY <1>1 DEF IsSound, SameRequest
  <2>2. ASSUME NEW d \in Calls, calls[d] # None
        PROVE  IsSound(m(d))
    <3>1. IsSound(calls[d])
        BY <2>2, SoundCalls
    <3>2. /\ SameRequest(m(d), calls[d]) /\ m(d).at = calls[d].at
          /\ m(d).info = calls[d].info /\ m(d).heard = calls[d].heard
          /\ m(d).mounted = calls[d].mounted
        BY <2>2, <1>2
    <3> DEFINE k == m(d)
    <3>3. IsSound(k)
      <4> HIDE DEF k
      <4> SUFFICES ASSUME SameRequest(k, calls[d]), k.at = calls[d].at,
                          k.info = calls[d].info, k.heard = calls[d].heard,
                          k.mounted = calls[d].mounted
                   PROVE  IsSound(k)
          BY <3>2 DEF k
      <4> QED
          BY <3>1 DEF IsSound, SameRequest
    <3> QED
        BY <3>3
  <2> QED
      BY <1>4, <2>1, <2>2
<1>8. AloneIsAlone'
    BY <1>1, <1>2, <1>4, <1>5 DEF AloneIsAlone, Free
<1>9. \A d \in Calls : calls[d] # None /\ calls[d].at = "storing" =>
        calls'[d] # None /\ calls'[d].op = "login" /\ calls'[d].at = "storing"
  <2> SUFFICES ASSUME NEW d \in Calls, calls[d] # None, calls[d].at = "storing"
               PROVE  calls'[d] # None /\ calls'[d].op = "login" /\ calls'[d].at = "storing"
      OBVIOUS
  <2>1. calls[d].op = "login"
      BY SoundCalls DEF IsSound
  <2>2. calls'[d] = m(d)
      BY <1>4 DEF Free
  <2> QED
      BY <2>1, <2>2, <1>2, <1>5 DEF SameRequest
<1>10. /\ calls'[c] # None /\ calls'[c].op = call.op /\ calls'[c].text = call.text
       /\ calls'[c].at = "sent"
    BY <1>1, <1>4, <1>5 DEF SameRequest
<1>11. \A d \in Calls \ {c} : calls[d] # None =>
         /\ calls'[d] # None /\ calls'[d].op = calls[d].op /\ calls'[d].at = calls[d].at
         /\ calls'[d].text = calls[d].text /\ calls'[d].info = calls[d].info
         /\ ~calls'[d].alone
    BY <1>2, <1>4, <1>5 DEF SameRequest
<1>12. \A op : NoCall(op) /\ call.op # op => NoCall(op)'
    BY <1>4, <1>10, <1>11 DEF NoCall, Free
<1>13. Kept
    BY <1>4, <1>10, <1>11 DEF Kept, Free
<1> QED
    BY <1>4, <1>6, <1>7, <1>8, <1>9, <1>10, <1>11, <1>12, <1>13 DEF CallsGoOn, CallsStaySound

-------------------------------------------------------------------------------
(* The steps of the app. *)

\* Submitting the login form keeps the invariant.
LEMMA SubmitKeepsAppInv ==
    ASSUME AppInv, NEW c \in Calls, NEW password \in Passwords, Submit(c, password)
    PROVE  AppInv' /\ Kept /\ \A op \in Edits : NoCall(op) => NoCall(op)'
<1> DEFINE call == Asks("login", None, password, TRUE)
<1>1. /\ call \in Call /\ call.op = "login" /\ call.at = "sent" /\ call.heard
      /\ call.mounted
    BY DEF Asks, Call
<1>2. /\ calls' = Placed(c, call) /\ Free(c) /\ gate = "login"
    BY DEF Submit, Slot
<1> HIDE DEF call
<1>3. IsSound(call)
    BY <1>1, <1>2 DEF IsSound, Edits
<1>4. UNCHANGED <<gate, device, page, dialog, route, saved, confirmed>>
    BY DEF Submit, edits
<1>5. /\ CallsGoOn
      /\ \A op : NoCall(op) /\ call.op # op => NoCall(op)'
    BY <1>1, <1>2, <1>3, <1>4, PlacedCalls
<1>6. loggedOut' = FALSE /\ signingIn' = TRUE
    BY DEF Submit
<1>7. PageHasInfo'
    BY <1>2, <1>4 DEF PageHasInfo
<1>8. AppInv'
    BY <1>2, <1>4, <1>5, <1>6, <1>7, ScreenKeepsAppInv
       DEF CallsGoOn, AppInv, AppTypeOK, ScreensAreSound
<1> QED
    BY <1>1, <1>5, <1>8 DEF CallsGoOn, Edits

\* So does an account that has been fetched.
LEMMA FetchAnsweredKeepsAppInv ==
    ASSUME AppInv, NEW c \in Calls, FetchAnswered(c)
    PROVE  AppInv' /\ Kept /\ \A op : NoCall(op) => NoCall(op)'
<1>1. /\ ~Free(c) /\ calls[c].at = "ok" /\ calls[c].op = "fetch" /\ calls' = Over(c)
      /\ UNCHANGED <<gate, device, signingIn, dialog, route, loggedOut, saved, confirmed>>
    BY DEF FetchAnswered, Waits, edits
<1>2. /\ IsSound(calls[c]) /\ calls[c].info \in Info \cup {None}
    BY <1>1, SoundCalls DEF Free
<1>3. calls[c].info # None
    BY <1>1, <1>2 DEF IsSound
<1>4. calls[c].mounted => gate = "main" /\ page \in Page
    BY <1>1, <1>2 DEF IsSound, AppInv, ScreensAreSound, AppTypeOK
<1>5. /\ page' \in Page \cup {None} /\ (page' = None <=> page = None) /\ PageHasInfo'
  <2>1. CASE calls[c].mounted
    <3>1. page' = [page EXCEPT !.info = calls[c].info, !.loading = FALSE]
        BY <2>1 DEF FetchAnswered
    <3>2. page' \in Page /\ page'.info = calls[c].info
        BY <1>2, <1>3, <1>4, <2>1, <3>1 DEF Page
    <3> QED
        BY <1>3, <1>4, <2>1, <3>2, NoneIsNoCall DEF PageHasInfo
  <2>2. CASE ~calls[c].mounted
      BY <1>1, <2>2 DEF FetchAnswered, AppInv, AppTypeOK, PageHasInfo
  <2> QED
      BY <2>1, <2>2
<1>6. /\ CallsGoOn
      /\ \A op : NoCall(op) => NoCall(op)'
    BY <1>1, OverCalls
<1>7. loggedOut => NoCall("login")
    BY DEF AppInv, OutEverywhere, NoCall
<1>8. AppInv'
    BY <1>1, <1>5, <1>6, <1>7, ScreenKeepsAppInv
       DEF CallsGoOn, AppInv, AppTypeOK, ScreensAreSound
<1> QED
    BY <1>6, <1>8 DEF CallsGoOn, CallsStaySound
\* So does loading the page again, which every retry and every nickname saved does.
LEMMA LoadingAgainIsAPage ==
    ASSUME AppInv, gate = "main", page' = LoadingAgain, gate' = gate
    PROVE  page' \in Page /\ page' # None /\ page # None /\ PageHasInfo'
<1>1. page \in Page /\ page # None
    BY DEF AppInv, AppTypeOK, ScreensAreSound
<1>2. page' = [page EXCEPT !.loading = TRUE, !.error = "none"]
    BY DEF LoadingAgain
<1>3. page' \in Page /\ page'.loading
    BY <1>1, <1>2 DEF Page
<1> QED
    BY <1>1, <1>3, NoneIsNoCall DEF PageHasInfo

\* A fetch is a call.
LEMMA FetchIsACall ==
    /\ Fetch \in Call /\ Fetch # None /\ Fetch.op = "fetch" /\ Fetch.at = "sent"
    /\ Fetch.heard
<1>1. Fetch \in Call /\ Fetch.op = "fetch" /\ Fetch.at = "sent" /\ Fetch.heard
    BY DEF Fetch, Asks, Call
<1> QED
    BY <1>1, NoneIsNoCall

\* A retry keeps the invariant.
LEMMA RetryKeepsAppInv ==
    ASSUME AppInv, NEW c \in Calls, Retry(c)
    PROVE  AppInv' /\ Kept /\ \A op \in Edits : NoCall(op) => NoCall(op)'
<1>1. /\ Fetch \in Call /\ Fetch.op = "fetch" /\ Fetch.at = "sent" /\ Fetch.heard
    BY FetchIsACall
<1>2. /\ calls' = Placed(c, Fetch) /\ Free(c) /\ gate = "main" /\ page' = LoadingAgain
      /\ UNCHANGED <<gate, device, signingIn, dialog, route, loggedOut, saved, confirmed>>
    BY DEF Retry, Slot, Ready, edits
<1>3. IsSound(Fetch)
    BY <1>1, <1>2 DEF IsSound, Edits
<1>4. /\ CallsGoOn
      /\ \A op : NoCall(op) /\ Fetch.op # op => NoCall(op)'
    BY <1>1, <1>2, <1>3, PlacedCalls
<1>5. page' \in Page /\ page' # None /\ page # None /\ PageHasInfo'
    BY <1>2, LoadingAgainIsAPage
<1>6. loggedOut => NoCall("login")
    BY DEF AppInv, OutEverywhere, NoCall
<1>7. loggedOut' => NoCall("login")'
    BY <1>1, <1>2, <1>4, <1>6
<1>8. AppInv'
    BY <1>2, <1>4, <1>5, <1>7, ScreenKeepsAppInv
       DEF CallsGoOn, AppInv, AppTypeOK, ScreensAreSound
<1> QED
    BY <1>1, <1>4, <1>8 DEF CallsGoOn, Edits

\* When the calls stay as they are they go on.
LEMMA SameCalls ==
    ASSUME AppInv, UNCHANGED <<gate, calls>>
    PROVE  CallsGoOn /\ \A op : NoCall(op) => NoCall(op)'
<1>1. AloneIsAlone' /\ Kept /\ \A op : NoCall(op) => NoCall(op)'
    BY DEF AppInv, AloneIsAlone, Kept, NoCall, Free
<1> QED
    BY <1>1, SoundCalls DEF CallsGoOn, CallsStaySound, AppInv, AppTypeOK, IsSound

\* So do opening and closing the dialog, and opening the password page.
LEMMA DialogKeepsAppInv ==
    ASSUME AppInv, OpenDialog \/ CloseDialog \/ OpenPassword
    PROVE  AppInv' /\ Kept /\ \A op : NoCall(op) => NoCall(op)'
<1>1. /\ UNCHANGED <<gate, device, signingIn, page, calls, loggedOut, saved, confirmed>>
      /\ dialog' \in {"closed", "open", "orphan"}
      /\ route' \in {"closed", "open", "busy", "closing"}
      /\ dialog' = "open" => gate = "main"
      /\ gate = "starting" => dialog' = "closed" /\ route' = "closed"
      /\ route' # "closed" => dialog' = "closed"
    BY DEF OpenDialog, CloseDialog, OpenPassword, Ready, edits, AppInv, AppTypeOK,
           ScreensAreSound
<1>2. CallsGoOn /\ \A op : NoCall(op) => NoCall(op)'
    BY <1>1, SameCalls
<1>3. PageHasInfo'
    BY <1>1 DEF AppInv, PageHasInfo
<1>4. loggedOut => NoCall("login")
    BY DEF AppInv, OutEverywhere, NoCall
<1>5. AppInv'
    BY <1>1, <1>2, <1>3, <1>4, ScreenKeepsAppInv DEF CallsGoOn, AppInv, AppTypeOK
<1> QED
    BY <1>2, <1>5 DEF CallsGoOn, CallsStaySound

\* So does saving a nickname.
LEMMA SaveNicknameKeepsAppInv ==
    ASSUME AppInv, NEW c \in Calls, NEW nickname \in Nicks, SaveNickname(c, nickname)
    PROVE  /\ AppInv' /\ Kept /\ \A op : NoCall(op) /\ op # "nickname" => NoCall(op)'
<1> DEFINE call == Asks("nickname", None, nickname, dialog = "open")
<1>1. /\ call \in Call /\ call.op = "nickname" /\ call.at = "sent" /\ call.heard
      /\ call.mounted = (dialog = "open") /\ call.text = nickname
    BY DEF Asks, Call
<1>2. /\ calls' = Placed(c, call) /\ Free(c) /\ dialog # "closed" /\ dialog' = "closed"
      /\ saved' = None
      /\ UNCHANGED <<gate, device, signingIn, page, route, loggedOut, confirmed>>
    BY DEF SaveNickname, Slot
<1> HIDE DEF call
<1>3. IsSound(call)
    BY <1>1, <1>2 DEF IsSound, Edits, AppInv, ScreensAreSound
<1>4. /\ CallsGoOn
      /\ \A op : NoCall(op) /\ call.op # op => NoCall(op)'
    BY <1>1, <1>2, <1>3, PlacedCalls
<1>5. PageHasInfo'
    BY <1>2 DEF AppInv, PageHasInfo
<1>6. loggedOut => NoCall("login")
    BY DEF AppInv, OutEverywhere, NoCall
<1>7. loggedOut' => NoCall("login")'
    BY <1>1, <1>2, <1>4, <1>6
<1>8. AppInv'
    BY <1>2, <1>4, <1>5, <1>7, ScreenKeepsAppInv
       DEF CallsGoOn, AppInv, AppTypeOK, ScreensAreSound
<1> QED
    BY <1>1, <1>4, <1>8 DEF CallsGoOn, CallsStaySound

\* So does submitting the password form.
LEMMA SubmitPasswordKeepsAppInv ==
    ASSUME AppInv, NEW c \in Calls, NEW before \in Passwords, NEW after \in Passwords,
           SubmitPassword(c, before, after)
    PROVE  /\ AppInv' /\ Kept /\ \A op : NoCall(op) /\ op # "password" => NoCall(op)'
<1> DEFINE call == Asks("password", before, after, TRUE)
<1>1. /\ call \in Call /\ call.op = "password" /\ call.at = "sent" /\ call.heard
      /\ call.before = before /\ call.text = after
    BY DEF Asks, Call
<1>2. /\ calls' = Placed(c, call) /\ Free(c) /\ route = "open" /\ route' = "busy"
      /\ confirmed' = None
      /\ UNCHANGED <<gate, device, signingIn, page, dialog, loggedOut, saved>>
    BY DEF SubmitPassword, Slot
<1> HIDE DEF call
<1>3. IsSound(call)
    BY <1>1, <1>2 DEF IsSound, Edits, AppInv, ScreensAreSound
<1>4. /\ CallsGoOn
      /\ \A op : NoCall(op) /\ call.op # op => NoCall(op)'
    BY <1>1, <1>2, <1>3, PlacedCalls
<1>5. PageHasInfo'
    BY <1>2 DEF AppInv, PageHasInfo
<1>6. loggedOut => NoCall("login")
    BY DEF AppInv, OutEverywhere, NoCall
<1>7. loggedOut' => NoCall("login")'
    BY <1>1, <1>2, <1>4, <1>6
<1>8. AppInv'
    BY <1>2, <1>4, <1>5, <1>7, ScreenKeepsAppInv
       DEF CallsGoOn, AppInv, AppTypeOK, ScreensAreSound
<1> QED
    BY <1>1, <1>4, <1>8 DEF CallsGoOn, CallsStaySound

\* Disposing the screens of some calls leaves these without a screen.
LEMMA UnmountedAll ==
    ASSUME AppInv, NEW ops
    PROVE  LET u == Unmounted(ops)
           IN  /\ u \in [Calls -> Call \cup {None}]
               /\ \A c \in Calls : calls[c] = None => u[c] = None
               /\ \A c \in Calls : calls[c] # None =>
                    /\ SameRequest(u[c], calls[c]) /\ u[c].at = calls[c].at
                    /\ u[c].info = calls[c].info /\ u[c].heard = calls[c].heard
                    /\ u[c].alone = calls[c].alone
                    /\ u[c].mounted => calls[c].mounted /\ calls[c].op \notin ops
<1> DEFINE m(c) == [calls[c] EXCEPT !.mounted = FALSE]
           u == Unmounted(ops)
<1>1. ASSUME NEW c \in Calls, calls[c] # None
      PROVE  /\ SameRequest(m(c), calls[c]) /\ m(c).at = calls[c].at
             /\ m(c).info = calls[c].info /\ m(c).heard = calls[c].heard
             /\ m(c).mounted = FALSE /\ m(c).alone = calls[c].alone
             /\ SameRequest(calls[c], calls[c])
  <2>1. calls[c] \in Call
      BY <1>1, SoundCalls
  <2> QED
      BY <1>1, <2>1, UnmountedCalls DEF SameRequest
<1>2. u = [c \in Calls |-> IF calls[c] # None /\ calls[c].op \in ops THEN m(c) ELSE calls[c]]
    BY DEF Unmounted, Free
<1> HIDE DEF m, u
<1>3. \A c \in Calls : u[c] = IF calls[c] # None /\ calls[c].op \in ops THEN m(c)
                               ELSE calls[c]
    BY <1>2
<1>4. u \in [Calls -> Call \cup {None}]
    BY <1>1, <1>2 DEF SameRequest, AppInv, AppTypeOK
<1>5. ASSUME NEW c \in Calls, calls[c] # None
      PROVE  /\ SameRequest(u[c], calls[c]) /\ u[c].at = calls[c].at
             /\ u[c].info = calls[c].info /\ u[c].heard = calls[c].heard
             /\ u[c].alone = calls[c].alone
             /\ u[c].mounted => calls[c].mounted /\ calls[c].op \notin ops
  <2>1. CASE calls[c].op \in ops
      BY <1>1, <1>3, <1>5, <2>1
  <2>2. CASE calls[c].op \notin ops
      BY <1>1, <1>3, <1>5, <2>2
  <2> QED
      BY <2>1, <2>2
<1> QED
    BY <1>3, <1>4, <1>5 DEF u

\* A call that asks for the same, with or without its screen, is as sound.
LEMMA StillSound ==
    ASSUME NEW old, NEW new, IsSound(old), SameRequest(new, old), new.at = old.at,
           new.info = old.info, new.heard = old.heard, new.mounted => old.mounted
    PROVE  IsSound(new)
BY DEF IsSound, SameRequest

\* So does a password that has been changed, if its page is closed for it or gone.
LEMMA PasswordClosesKeepsAppInv ==
    ASSUME AppInv, NEW c \in Calls, PasswordAnswered(c),
           ~(calls[c].mounted /\ route = "closing")
    PROVE  /\ AppInv' /\ Kept /\ \A op : NoCall(op) => NoCall(op)'
           /\ calls'[c] = None /\ \A d \in Calls : Left(calls[d], calls'[d])
<1>1. /\ ~Free(c) /\ calls[c].at = "ok" /\ calls[c].op = "password" /\ calls' = Over(c)
      /\ UNCHANGED <<gate, device, signingIn, page, dialog, loggedOut, saved>>
      /\ route' \in {"closed", route} /\ confirmed' \in {confirmed, calls[c].text}
    BY DEF PasswordAnswered, Waits
<1>2. calls[c].text \in Passwords
    BY <1>1, SoundCalls DEF Free, IsSound
<1>3. /\ CallsGoOn /\ \A op : NoCall(op) => NoCall(op)'
      /\ calls'[c] = None /\ \A d \in Calls \ {c} : calls'[d] = calls[d]
    BY <1>1, OverCalls
<1>4. PageHasInfo'
    BY <1>1 DEF AppInv, PageHasInfo
<1>5. loggedOut => NoCall("login")
    BY DEF AppInv, OutEverywhere, NoCall
<1>6. AppInv'
    BY <1>1, <1>2, <1>3, <1>4, <1>5, ScreenKeepsAppInv
       DEF CallsGoOn, AppInv, AppTypeOK, ScreensAreSound
<1> QED
    BY <1>3, <1>6 DEF CallsGoOn, CallsStaySound, Left

\* And so it does if it pops the gate.
LEMMA PasswordPopsTheGate ==
    ASSUME AppInv, NEW c \in Calls, PasswordAnswered(c),
           calls[c].mounted, route = "closing"
    PROVE  /\ AppInv' /\ Kept /\ \A op : NoCall(op) => NoCall(op)'
           /\ calls'[c] = None /\ \A d \in Calls : Left(calls[d], calls'[d])
<1> DEFINE u == Unmounted({"login", "fetch", "nickname"})
<1>1. /\ ~Free(c) /\ calls[c].at = "ok" /\ calls[c].op = "password"
      /\ gate' = "gone" /\ page' = None /\ signingIn' = FALSE
      /\ calls' = [u EXCEPT ![c] = None]
      /\ UNCHANGED <<device, route, dialog, loggedOut, saved>>
      /\ confirmed' \in {confirmed, calls[c].text}
    BY DEF PasswordAnswered, Waits
<1>2. calls[c].text \in Passwords
    BY <1>1, SoundCalls DEF Free, IsSound
<1>3. /\ u \in [Calls -> Call \cup {None}]
      /\ \A d \in Calls : calls[d] = None => u[d] = None
      /\ \A d \in Calls : calls[d] # None =>
           /\ SameRequest(u[d], calls[d]) /\ u[d].at = calls[d].at
           /\ u[d].info = calls[d].info /\ u[d].heard = calls[d].heard
           /\ u[d].alone = calls[d].alone
           /\ u[d].mounted => /\ calls[d].mounted
                              /\ calls[d].op \notin {"login", "fetch", "nickname"}
    BY UnmountedAll
<1> HIDE DEF u
<1>4. /\ calls' \in [Calls -> Call \cup {None}]
      /\ calls'[c] = None /\ \A d \in Calls \ {c} : calls'[d] = u[d]
    BY <1>1, <1>3
<1>5. \A d \in Calls : Left(calls[d], calls'[d])
    BY <1>3, <1>4 DEF Left, SameRequest
<1>6. AloneIsAlone'
    BY <1>5, LeftKeepsAlone DEF AppInv
<1>7. \A op : NoCall(op) => NoCall(op)'
    BY <1>5 DEF Left, NoCall, Free
<1>8. Kept
    BY <1>1, <1>3, <1>4 DEF Kept, SameRequest
<1>9. ASSUME NEW d \in Calls, calls'[d] # None
      PROVE  IsSound(calls[d])'
  <2>1. /\ IsSound(calls[d]) /\ SameRequest(calls'[d], calls[d])
        /\ calls'[d].at = calls[d].at /\ calls'[d].info = calls[d].info
        /\ calls'[d].heard = calls[d].heard
        /\ calls'[d].mounted => /\ calls[d].mounted
                                /\ calls[d].op \notin {"login", "fetch", "nickname"}
      BY <1>3, <1>4, <1>9, SoundCalls
  <2> QED
      BY <1>1, <2>1 DEF IsSound, SameRequest
<1>10. AppTypeOK'
    BY <1>1, <1>2, <1>4 DEF AppInv, AppTypeOK, device
<1>11. CallsAreSound'
    BY <1>9 DEF CallsAreSound, Free
<1>12. ScreensAreSound' /\ GateFollowsStore' /\ PageHasInfo'
    BY <1>1 DEF AppInv, ScreensAreSound, GateFollowsStore, PageHasInfo
<1>13. \A d \in Calls : calls[d] # None /\ calls[d].at = "storing" =>
         calls'[d] # None /\ calls'[d].op = "login" /\ calls'[d].at = "storing"
    BY <1>1, <1>3, <1>4, SoundCalls DEF IsSound, Free, SameRequest
<1>14. WritesAreSound'
  <2>1. UNCHANGED <<stored, disk, writes>> /\ gate' # "starting"
      BY <1>1 DEF device
  <2>2. writes # <<>> => stored = writes[Len(writes)].token
      BY DEF AppInv, WritesAreSound
  <2>3. \A n \in 1 .. Len(writes) : Pending(n)' => WaitsForDevice(writes[n].call)'
      BY <1>13, <2>1 DEF AppInv, WritesAreSound, Pending, WaitsForDevice, Free
  <2>4. \A m, n \in 1 .. Len(writes) :
          Pending(m)' /\ Pending(n)' /\ writes[m].call = writes[n].call => m = n
      BY <2>1 DEF AppInv, WritesAreSound, Pending
  <2> QED
      BY <2>1, <2>2, <2>3, <2>4 DEF WritesAreSound
<1>15. OutEverywhere'
  <2>1. loggedOut => ~stored /\ ~disk /\ NoCall("login")
                     /\ \A n \in 1 .. Len(writes) : ~writes[n].token
      BY DEF AppInv, OutEverywhere, Pending, NoCall
  <2> QED
      BY <1>1, <1>7, <2>1 DEF OutEverywhere, Pending, NoCall, device
<1>16. AppInv'
    BY <1>6, <1>10, <1>11, <1>12, <1>14, <1>15 DEF AppInv
<1> QED
    BY <1>4, <1>5, <1>7, <1>8, <1>16

\* So a password that has been changed keeps the invariant.
LEMMA PasswordAnsweredKeepsAppInv ==
    ASSUME AppInv, NEW c \in Calls, PasswordAnswered(c)
    PROVE  /\ AppInv' /\ Kept /\ \A op : NoCall(op) => NoCall(op)'
           /\ calls'[c] = None /\ \A d \in Calls : Left(calls[d], calls'[d])
BY PasswordClosesKeepsAppInv, PasswordPopsTheGate

\* Leaving the password page keeps the invariant.
LEMMA ClosePasswordKeepsAppInv ==
    ASSUME AppInv, ClosePassword
    PROVE  AppInv' /\ Kept /\ \A op : NoCall(op) => NoCall(op)'
<1>1. /\ route # "closed" /\ route' \in {"closed", "closing"}
      /\ UNCHANGED <<gate, device, signingIn, page, dialog, calls, loggedOut, saved,
                     confirmed>>
    BY DEF ClosePassword, edits
<1>2. CallsGoOn /\ \A op : NoCall(op) => NoCall(op)'
    BY <1>1, SameCalls
<1>3. PageHasInfo'
    BY <1>1 DEF AppInv, PageHasInfo
<1>4. loggedOut => NoCall("login")
    BY DEF AppInv, OutEverywhere, NoCall
<1>5. AppInv'
    BY <1>1, <1>2, <1>3, <1>4, ScreenKeepsAppInv
       DEF CallsGoOn, AppInv, AppTypeOK, ScreensAreSound
<1> QED
    BY <1>2, <1>5 DEF CallsGoOn, CallsStaySound

\* The end of the exit transition, which disposes the page, keeps the invariant.
LEMMA PasswordGoneKeepsAppInv ==
    ASSUME AppInv, PasswordGone
    PROVE  AppInv' /\ Kept /\ \A op : NoCall(op) => NoCall(op)'
<1>1. /\ route' = "closed"
      /\ UNCHANGED <<gate, device, signingIn, page, dialog, loggedOut, saved, confirmed>>
    BY DEF PasswordGone, edits
<1>2. /\ calls' \in [Calls -> Call \cup {None}]
      /\ \A c \in Calls : calls[c] = None => calls'[c] = None
      /\ \A c \in Calls : calls[c] # None =>
           /\ SameRequest(calls'[c], calls[c]) /\ calls'[c].at = calls[c].at
           /\ calls'[c].info = calls[c].info /\ calls'[c].heard = calls[c].heard
           /\ calls'[c].alone = calls[c].alone
           /\ calls'[c].mounted => calls[c].mounted
    BY UnmountedAll DEF PasswordGone
<1>3. \A c \in Calls : Left(calls[c], calls'[c])
    BY <1>2 DEF Left, SameRequest
<1>4. AloneIsAlone'
    BY <1>3, LeftKeepsAlone DEF AppInv
<1>5. \A op : NoCall(op) => NoCall(op)'
    BY <1>3 DEF Left, NoCall, Free
<1>6. Kept
    BY <1>2 DEF Kept, SameRequest
<1>7. \A c \in Calls : calls'[c] # None => IsSound(calls'[c])
    BY <1>2, SoundCalls, StillSound
<1>8. \A c \in Calls : calls[c] # None /\ calls[c].at = "storing" =>
        calls'[c] # None /\ calls'[c].op = "login" /\ calls'[c].at = "storing"
    BY <1>2, SoundCalls DEF IsSound, SameRequest
<1>9. CallsGoOn
    BY <1>2, <1>4, <1>6, <1>7, <1>8 DEF CallsGoOn, CallsStaySound
<1>10. PageHasInfo'
    BY <1>1 DEF AppInv, PageHasInfo
<1>11. loggedOut => NoCall("login")
    BY DEF AppInv, OutEverywhere, NoCall
<1>12. AppInv'
    BY <1>1, <1>5, <1>9, <1>10, <1>11, ScreenKeepsAppInv
       DEF CallsGoOn, AppInv, AppTypeOK, ScreensAreSound
<1> QED
    BY <1>5, <1>6, <1>12

\* So does a nickname that has been changed.
LEMMA NicknameAnsweredKeepsAppInv ==
    ASSUME AppInv, NEW c \in Calls, NicknameAnswered(c)
    PROVE  AppInv' /\ Kept /\ \A op \in Edits : NoCall(op) => NoCall(op)'
<1>1. /\ ~Free(c) /\ calls[c].at = "ok" /\ calls[c].op = "nickname"
      /\ UNCHANGED <<gate, device, signingIn, dialog, route, loggedOut, confirmed>>
    BY DEF NicknameAnswered, Waits
<1>2. IsSound(calls[c]) /\ calls[c].text \in Nicks
    BY <1>1, SoundCalls DEF Free, IsSound
<1>3. loggedOut => NoCall("login")
    BY DEF AppInv, OutEverywhere, NoCall
<1>4. CASE calls[c].mounted
  <2>1. /\ Fetch \in Call /\ Fetch.op = "fetch" /\ Fetch.at = "sent" /\ Fetch.heard
        /\ Fetch # None
      BY FetchIsACall
  <2>2. gate = "main"
      BY <1>1, <1>2, <1>4 DEF IsSound
  <2>3. /\ page' = LoadingAgain /\ calls' = [calls EXCEPT ![c] = Fetch]
        /\ saved' \in {saved, calls[c].text}
      BY <1>4 DEF NicknameAnswered
  <2>4. page' \in Page /\ page' # None /\ page # None /\ PageHasInfo'
      BY <1>1, <2>2, <2>3, LoadingAgainIsAPage
  <2>5. /\ calls' \in [Calls -> Call \cup {None}]
        /\ calls'[c] = Fetch /\ \A d \in Calls \ {c} : calls'[d] = calls[d]
      BY <2>1, <2>3 DEF AppInv, AppTypeOK
  <2>6. IsSound(Fetch)
      BY <2>1, <2>2 DEF IsSound, Edits
  <2>7. \A d \in Calls : calls'[d] # None => IsSound(calls'[d])
      BY <2>5, <2>6, SoundCalls
  <2>8. AloneIsAlone'
    <3>1. \A d \in Calls \ {c} : Free(d) \/ ~calls[d].alone \/ calls[d].op \notin Edits
        BY <1>1 DEF AppInv, AloneIsAlone
    <3> QED
        BY <2>1, <2>5, <3>1 DEF AloneIsAlone, Free, Edits
  <2>9. Kept
      BY <1>1, <2>1, <2>5 DEF Kept, Free
  <2>10. \A d \in Calls : calls[d] # None /\ calls[d].at = "storing" =>
           calls'[d] # None /\ calls'[d].op = "login" /\ calls'[d].at = "storing"
      BY <1>1, <2>5, SoundCalls DEF IsSound
  <2>11. CallsGoOn
      BY <2>5, <2>7, <2>8, <2>9, <2>10 DEF CallsGoOn, CallsStaySound
  <2>12. \A op : op # "fetch" /\ NoCall(op) => NoCall(op)'
      BY <2>1, <2>5 DEF NoCall, Free
  <2>13. AppInv'
      BY <1>1, <1>2, <1>3, <2>3, <2>4, <2>11, <2>12, ScreenKeepsAppInv
         DEF CallsGoOn, AppInv, AppTypeOK, ScreensAreSound
  <2> QED
      BY <2>9, <2>12, <2>13 DEF Edits
<1>5. CASE ~calls[c].mounted
  <2>1. calls' = Over(c) /\ UNCHANGED <<page, saved>>
      BY <1>5 DEF NicknameAnswered
  <2>2. CallsGoOn /\ \A op : NoCall(op) => NoCall(op)'
      BY <1>1, <2>1, OverCalls
  <2>3. PageHasInfo'
      BY <1>1, <2>1 DEF AppInv, PageHasInfo
  <2>4. AppInv'
      BY <1>1, <1>3, <2>1, <2>2, <2>3, ScreenKeepsAppInv
         DEF CallsGoOn, AppInv, AppTypeOK, ScreensAreSound
  <2> QED
      BY <2>2, <2>4 DEF CallsGoOn, CallsStaySound
<1> QED
    BY <1>4, <1>5

\* An error that is shown leaves the screens as they may be.
LEMMA ShowsScreens ==
    ASSUME AppInv, NEW c \in Calls, ~Free(c), calls[c].heard, Shows(c)
    PROVE  /\ UNCHANGED <<gate, device, dialog, loggedOut, saved, confirmed>>
           /\ signingIn' \in BOOLEAN /\ page' \in Page \cup {None}
           /\ (page' = None <=> page = None) /\ PageHasInfo'
           /\ route' \in {"closed", "open", "busy", "closing"}
           /\ gate = "starting" => route' = "closed"
           /\ route' # "closed" => dialog = "closed"
<1>1. IsSound(calls[c])
    BY SoundCalls DEF Free
<1>2. /\ UNCHANGED <<gate, device, dialog, loggedOut, saved, confirmed>>
      /\ signingIn' \in BOOLEAN
      /\ route' = route \/ (route' = "open" /\ route = "busy")
    BY <1>1 DEF Shows, IsSound, edits, AppInv, AppTypeOK
<1>3. /\ page' \in Page \cup {None} /\ (page' = None <=> page = None) /\ PageHasInfo'
  <2>1. CASE calls[c].op = "fetch" /\ calls[c].mounted
    <3>1. gate = "main" /\ page \in Page
        BY <1>1, <2>1 DEF IsSound, AppInv, AppTypeOK, ScreensAreSound
    <3>2. page' = [page EXCEPT !.error = "failed", !.loading = FALSE]
        BY <2>1 DEF Shows, ErrorShown
    <3>3. page' \in Page /\ page'.error = "failed"
        BY <3>1, <3>2 DEF Page
    <3> QED
        BY <3>1, <3>3, NoneIsNoCall DEF PageHasInfo
  <2>2. CASE ~(calls[c].op = "fetch" /\ calls[c].mounted)
      BY <1>2, <2>2 DEF Shows, AppInv, AppTypeOK, PageHasInfo
  <2> QED
      BY <2>1, <2>2
<1> QED
    BY <1>2, <1>3 DEF AppInv, AppTypeOK, ScreensAreSound

\* A call that fails keeps the invariant.
LEMMA FailsKeepsAppInv ==
    ASSUME AppInv, NEW c \in Calls, Fails(c)
    PROVE  AppInv' /\ Kept /\ \A op : NoCall(op) => NoCall(op)'
<1>1. ~Free(c) /\ calls[c].heard /\ calls[c].at = "failed" /\ Shows(c) /\ calls' = Over(c)
    BY DEF Fails
<1>2. /\ UNCHANGED <<gate, device, dialog, loggedOut, saved, confirmed>>
      /\ signingIn' \in BOOLEAN /\ page' \in Page \cup {None}
      /\ (page' = None <=> page = None) /\ PageHasInfo'
      /\ route' \in {"closed", "open", "busy", "closing"}
      /\ gate = "starting" => route' = "closed"
      /\ route' # "closed" => dialog = "closed"
    BY <1>1, ShowsScreens
<1>3. CallsGoOn /\ \A op : NoCall(op) => NoCall(op)'
    BY <1>1, <1>2, OverCalls
<1>4. loggedOut => NoCall("login")
    BY DEF AppInv, OutEverywhere, NoCall
<1>5. AppInv'
    BY <1>2, <1>3, <1>4, ScreenKeepsAppInv
       DEF CallsGoOn, AppInv, AppTypeOK, ScreensAreSound
<1> QED
    BY <1>3, <1>5 DEF CallsGoOn, CallsStaySound

\* An edit that nobody waits for: sound, wherever the gate is.
IsGivenUp(call) ==
    /\ call \in Call /\ call # None
    /\ call.op \in Edits /\ call.at = "sent" /\ ~call.heard /\ ~call.mounted
    /\ call.op = "nickname" => call.text \in Nicks
    /\ call.op = "password" => call.before \in Passwords /\ call.text \in Passwords

\* What is left of a call that is given up.
LEMMA GivenUpIsLeft ==
    ASSUME AppInv, NEW c \in Calls, ~Free(c)
    PROVE  LET new == GivenUp(calls[c])
           IN  \/ /\ new = None
                  /\ ~(calls[c].at = "sent" /\ calls[c].op \in Edits)
               \/ /\ calls[c].at = "sent" /\ calls[c].op \in Edits
                  /\ SameRequest(new, calls[c]) /\ new.alone = calls[c].alone
                  /\ IsGivenUp(new)
<1>1. calls[c] \in Call /\ IsSound(calls[c])
    BY SoundCalls DEF Free
<1>2. CASE calls[c].at = "sent" /\ calls[c].op \in Edits
  <2> DEFINE new == [calls[c] EXCEPT !.heard = FALSE, !.mounted = FALSE]
  <2>1. GivenUp(calls[c]) = new
      BY <1>2 DEF GivenUp, Edits
  <2>2. /\ SameRequest(new, calls[c]) /\ new.at = "sent" /\ ~new.heard /\ ~new.mounted
        /\ new.alone = calls[c].alone
      BY <1>1, <1>2, GivenUpCalls
  <2> HIDE DEF new
  <2>3. IsGivenUp(new)
      BY <1>1, <1>2, <2>2 DEF IsGivenUp, IsSound, SameRequest
  <2> QED
      BY <1>2, <2>1, <2>2, <2>3
<1>3. CASE ~(calls[c].at = "sent" /\ calls[c].op \in Edits)
    BY <1>3 DEF GivenUp, Edits
<1> QED
    BY <1>2, <1>3

\* A call that takes too long keeps the invariant.
LEMMA TimeoutKeepsAppInv ==
    ASSUME AppInv, NEW c \in Calls, Timeout(c)
    PROVE  AppInv' /\ Kept /\ \A op : NoCall(op) => NoCall(op)'
<1>1. /\ ~Free(c) /\ calls[c].heard /\ calls[c].at # "storing" /\ Shows(c)
      /\ calls' = [calls EXCEPT ![c] = GivenUp(calls[c])]
    BY DEF Timeout
<1>2. /\ UNCHANGED <<gate, device, dialog, loggedOut, saved, confirmed>>
      /\ signingIn' \in BOOLEAN /\ page' \in Page \cup {None}
      /\ (page' = None <=> page = None) /\ PageHasInfo'
      /\ route' \in {"closed", "open", "busy", "closing"}
      /\ gate = "starting" => route' = "closed"
      /\ route' # "closed" => dialog = "closed"
    BY <1>1, ShowsScreens
<1> DEFINE new == GivenUp(calls[c])
<1>3. \/ new = None /\ ~(calls[c].at = "sent" /\ calls[c].op \in Edits)
      \/ /\ calls[c].at = "sent" /\ calls[c].op \in Edits
         /\ SameRequest(new, calls[c]) /\ new.alone = calls[c].alone /\ IsGivenUp(new)
    BY <1>1, GivenUpIsLeft
<1> HIDE DEF new
<1>4. calls'[c] = new /\ \A d \in Calls \ {c} : calls'[d] = calls[d]
    BY <1>1 DEF new, AppInv, AppTypeOK
<1>5. calls' \in [Calls -> Call \cup {None}]
  <2>1. new \in Call \cup {None}
      BY <1>3 DEF IsGivenUp
  <2>2. calls' = [calls EXCEPT ![c] = new]
      BY <1>1 DEF new
  <2> QED
      BY <2>1, <2>2 DEF AppInv, AppTypeOK
<1>6. IsGivenUp(new) => IsSound(new)
    BY DEF IsGivenUp, IsSound
<1>7. \A d \in Calls : calls'[d] # None => IsSound(calls'[d])
    BY <1>3, <1>4, <1>6, SoundCalls
<1>8. \A d \in Calls : Left(calls[d], calls'[d])
    BY <1>1, <1>3, <1>4 DEF Left, SameRequest, IsGivenUp, Free
<1>9. AloneIsAlone'
    BY <1>8, LeftKeepsAlone DEF AppInv
<1>10. \A op : NoCall(op) => NoCall(op)'
    BY <1>8 DEF Left, NoCall, Free
<1>11. Kept
    BY <1>3, <1>4 DEF Kept, SameRequest, IsGivenUp
<1>12. \A d \in Calls : calls[d] # None /\ calls[d].at = "storing" =>
         calls'[d] # None /\ calls'[d].op = "login" /\ calls'[d].at = "storing"
    BY <1>1, <1>4, SoundCalls DEF IsSound
<1>13. CallsGoOn
    BY <1>5, <1>7, <1>9, <1>11, <1>12 DEF CallsGoOn, CallsStaySound
<1>14. loggedOut => NoCall("login")
    BY DEF AppInv, OutEverywhere, NoCall
<1>15. AppInv'
    BY <1>2, <1>10, <1>13, <1>14, ScreenKeepsAppInv
       DEF CallsGoOn, AppInv, AppTypeOK, ScreensAreSound
<1> QED
    BY <1>10, <1>11, <1>15
-------------------------------------------------------------------------------
(* The steps on the device. *)

Write == [token : BOOLEAN, call : Calls \cup {None}]

\* A write that is added is the last.
LEMMA AppendedWrite ==
    ASSUME AppInv, NEW w \in Write
    PROVE  LET new == Append(writes, w)
           IN  /\ new \in Seq(Write) /\ new # <<>> /\ Len(writes) \in Nat
               /\ Len(new) = Len(writes) + 1 /\ new[Len(new)] = w
               /\ \A n \in 1 .. Len(writes) : new[n] = writes[n]
<1>1. writes \in Seq(Write)
    BY DEF AppInv, AppTypeOK, Write
<1>2. /\ Append(writes, w) \in Seq(Write) /\ Append(writes, w) # <<>>
      /\ Len(Append(writes, w)) = Len(writes) + 1
      /\ \A i \in 1 .. Len(writes) : Append(writes, w)[i] = writes[i]
      /\ Append(writes, w)[Len(writes) + 1] = w
    BY <1>1, AppendProperties
<1>3. Len(writes) \in Nat
    BY <1>1, LenProperties
<1> QED
    BY <1>2, <1>3

\* A login that is answered keeps the invariant.
LEMMA LoginAnsweredKeepsAppInv ==
    ASSUME AppInv, NEW c \in Calls, LoginAnswered(c)
    PROVE  AppInv' /\ Kept /\ \A op : NoCall(op) => NoCall(op)'
<1>1. /\ ~Free(c) /\ calls[c].op = "login" /\ calls[c].heard /\ calls[c].at = "ok"
      /\ stored' = TRUE /\ writes' = Append(writes, [token |-> TRUE, call |-> c])
      /\ calls' = [calls EXCEPT ![c] = [calls[c] EXCEPT !.at = "storing"]]
      /\ UNCHANGED <<gate, disk, signingIn, page, dialog, route, loggedOut, saved, confirmed>>
    BY DEF LoginAnswered, Waits, edits
<1>2. calls[c] \in Call /\ IsSound(calls[c]) /\ gate # "starting"
    BY <1>1, SoundCalls DEF Free, IsSound
<1> DEFINE new == [calls[c] EXCEPT !.at = "storing"]
           w == [token |-> TRUE, call |-> c]
<1>3. /\ SameRequest(new, calls[c]) /\ new.at = "storing" /\ new.info = calls[c].info
      /\ new.heard = calls[c].heard /\ new.mounted = calls[c].mounted
      /\ new.alone = calls[c].alone
    BY <1>2, StoringCalls
<1>4. w \in Write /\ w.token = TRUE /\ w.call = c
    BY DEF Write
<1>5. calls' = [calls EXCEPT ![c] = new] /\ writes' = Append(writes, w)
    BY <1>1
<1> HIDE DEF new, w
<1>6. calls' \in [Calls -> Call \cup {None}]
    BY <1>3, <1>5 DEF AppInv, AppTypeOK, SameRequest
<1>7. calls'[c] = new /\ \A d \in Calls \ {c} : calls'[d] = calls[d]
    BY <1>5 DEF AppInv, AppTypeOK
<1>8. /\ writes' \in Seq(Write) /\ writes' # <<>> /\ Len(writes) \in Nat
      /\ Len(writes') = Len(writes) + 1 /\ writes'[Len(writes')] = w
      /\ \A n \in 1 .. Len(writes) : writes'[n] = writes[n]
    BY <1>4, <1>5, AppendedWrite
<1>9. IsSound(new)
    BY <1>1, <1>2, <1>3 DEF IsSound, SameRequest, Edits
<1>10. \A d \in Calls : Left(calls[d], calls'[d])
    BY <1>1, <1>3, <1>7 DEF Left, SameRequest, Free
<1>11. AloneIsAlone'
    BY <1>10, LeftKeepsAlone DEF AppInv
<1>12. \A op : NoCall(op) => NoCall(op)'
    BY <1>10 DEF Left, NoCall, Free
<1>13. Kept
    BY <1>1, <1>3, <1>7 DEF Kept
<1>14. AppTypeOK'
    BY <1>1, <1>6, <1>8 DEF AppInv, AppTypeOK, Write
<1>15. CallsAreSound'
    BY <1>1, <1>7, <1>9, SoundCalls DEF CallsAreSound, Free, IsSound
<1>16. ScreensAreSound'
    BY <1>1 DEF AppInv, ScreensAreSound
<1>17. WritesAreSound'
  <2>1. ASSUME NEW n \in 1 .. Len(writes'), Pending(n)'
        PROVE  \/ n = Len(writes') /\ writes'[n].call = c
               \/ /\ n \in 1 .. Len(writes) /\ Pending(n) /\ writes'[n] = writes[n]
                  /\ WaitsForDevice(writes[n].call) /\ writes[n].call # c
    <3>1. n \in 1 .. Len(writes) \/ n = Len(writes')
        BY <1>8
    <3>2. CASE n \in 1 .. Len(writes)
      <4>1. writes'[n] = writes[n] /\ Pending(n)
          BY <1>8, <2>1, <3>2 DEF Pending
      <4>2. WaitsForDevice(writes[n].call)
          BY <3>2, <4>1 DEF AppInv, WritesAreSound
      <4> QED
          BY <1>1, <3>2, <4>1, <4>2 DEF WaitsForDevice
    <3> QED
        BY <1>4, <1>8, <3>1, <3>2
  <2>2. ASSUME NEW d, d = c \/ WaitsForDevice(d)
        PROVE  d \in Calls /\ calls'[d] # None /\ calls'[d].op = "login"
               /\ calls'[d].at = "storing"
      BY <1>1, <1>3, <1>7, <2>2 DEF WaitsForDevice, Free, SameRequest
  <2>3. \A n \in 1 .. Len(writes') : Pending(n)' => WaitsForDevice(writes[n].call)'
    <3> SUFFICES ASSUME NEW n \in 1 .. Len(writes'), Pending(n)'
                 PROVE  WaitsForDevice(writes[n].call)'
        OBVIOUS
    <3>1. writes'[n].call = c \/ WaitsForDevice(writes'[n].call)
        BY <2>1
    <3> QED
        BY <2>2, <3>1 DEF WaitsForDevice, Free
  <2>4. \A m, n \in 1 .. Len(writes') :
          Pending(m)' /\ Pending(n)' /\ writes'[m].call = writes'[n].call => m = n
      BY <2>1 DEF AppInv, WritesAreSound
  <2>5. stored' = writes'[Len(writes')].token
      BY <1>1, <1>4, <1>8
  <2> QED
      BY <1>1, <1>2, <1>8, <2>3, <2>4, <2>5 DEF WritesAreSound
<1>18. GateFollowsStore'
    BY <1>1 DEF AppInv, GateFollowsStore
<1>19. ~loggedOut'
    BY <1>1 DEF AppInv, OutEverywhere
<1>20. PageHasInfo'
    BY <1>1 DEF AppInv, PageHasInfo
<1> QED
    BY <1>11, <1>12, <1>13, <1>14, <1>15, <1>16, <1>17, <1>18, <1>19, <1>20
       DEF AppInv, OutEverywhere

\* So does the logout button.
LEMMA LogoutKeepsAppInv ==
    ASSUME AppInv, Logout
    PROVE  AppInv' /\ Kept /\ \A op : NoCall(op) => NoCall(op)'
<1> DEFINE w == [token |-> FALSE, call |-> None]
<1>1. /\ gate = "main" /\ stored' = FALSE /\ writes' = Append(writes, w)
      /\ UNCHANGED <<gate, disk, signingIn, page, dialog, route, calls, loggedOut, saved,
                    confirmed>>
    BY DEF Logout, edits
<1>2. w \in Write /\ w.token = FALSE
    BY DEF Write
<1> HIDE DEF w
<1>3. /\ writes' \in Seq(Write) /\ writes' # <<>> /\ Len(writes) \in Nat
      /\ Len(writes') = Len(writes) + 1 /\ writes'[Len(writes')] = w
      /\ \A n \in 1 .. Len(writes) : writes'[n] = writes[n]
    BY <1>1, <1>2, AppendedWrite
<1>4. CallsGoOn /\ \A op : NoCall(op) => NoCall(op)'
    BY <1>1, SameCalls
<1>5. AppTypeOK'
    BY <1>1, <1>3 DEF AppInv, AppTypeOK, Write
<1>6. CallsAreSound'
    BY <1>1 DEF AppInv, CallsAreSound, Free, IsSound
<1>7. ScreensAreSound'
    BY <1>1 DEF AppInv, ScreensAreSound
<1>8. WritesAreSound'
  <2>1. \A n \in 1 .. Len(writes') : Pending(n)' => n \in 1 .. Len(writes) /\ Pending(n)
      BY <1>2, <1>3 DEF Pending
  <2>2. \A n \in 1 .. Len(writes') : Pending(n)' => WaitsForDevice(writes[n].call)'
      BY <1>1, <1>3, <2>1 DEF AppInv, WritesAreSound, WaitsForDevice, Free
  <2>3. \A m, n \in 1 .. Len(writes') :
          Pending(m)' /\ Pending(n)' /\ writes'[m].call = writes'[n].call => m = n
      BY <1>3, <2>1 DEF AppInv, WritesAreSound
  <2>4. stored' = writes'[Len(writes')].token
      BY <1>1, <1>2, <1>3
  <2> QED
      BY <1>1, <1>3, <2>2, <2>3, <2>4 DEF WritesAreSound
<1>9. GateFollowsStore'
    BY <1>1 DEF AppInv, GateFollowsStore
<1>10. ~loggedOut'
    BY <1>1 DEF AppInv, OutEverywhere
<1>11. PageHasInfo'
    BY <1>1 DEF AppInv, PageHasInfo
<1> QED
    BY <1>4, <1>5, <1>6, <1>7, <1>8, <1>9, <1>10, <1>11
       DEF AppInv, OutEverywhere, CallsGoOn, CallsStaySound

\* When the first write is over the others move up.
LEMMA TailOfWrites ==
    ASSUME AppInv, writes # <<>>, writes' = Tail(writes), UNCHANGED stored
    PROVE  /\ gate # "starting" /\ writes \in Seq(Write) /\ Len(writes) \in Nat \ {0}
           /\ Head(writes) = writes[1]
           /\ stored = writes[Len(writes)].token
           /\ writes' \in Seq(Write) /\ Len(writes') = Len(writes) - 1
           /\ (writes' = <<>> <=> Len(writes) = 1)
           /\ \A n \in 1 .. Len(writes') : writes'[n] = writes[n + 1]
<1>1. writes \in Seq(Write)
    BY DEF AppInv, AppTypeOK, Write
<1>2. Len(writes) \in Nat \ {0}
    BY <1>1, EmptySeq, LenProperties
<1>3. /\ Tail(writes) \in Seq(Write) /\ Len(Tail(writes)) = Len(writes) - 1
      /\ \A i \in 1 .. Len(Tail(writes)) : Tail(writes)[i] = writes[i + 1]
    BY <1>1, HeadTailProperties
<1>4. Head(writes) = writes[1]
    BY <1>1
<1>5. writes' = <<>> <=> Len(writes') = 0
    BY <1>1, <1>3, EmptySeq
<1> QED
    BY <1>1, <1>2, <1>3, <1>4, <1>5 DEF AppInv, WritesAreSound

\* The device does the first write.
LEMMA WrittenDevice ==
    ASSUME AppInv, Written
    PROVE  /\ gate # "starting" /\ writes \in Seq(Write) /\ Len(writes) \in Nat \ {0}
           /\ disk' = writes[1].token /\ stored' = stored
           /\ stored = writes[Len(writes)].token
           /\ writes' \in Seq(Write) /\ Len(writes') = Len(writes) - 1
           /\ (writes' = <<>> <=> Len(writes) = 1)
           /\ \A n \in 1 .. Len(writes') : writes'[n] = writes[n + 1]
BY TailOfWrites DEF Written

\* The logins that wait for the other writes go on waiting.
LEMMA WrittenWrites ==
    ASSUME AppInv, writes # <<>>, writes' = Tail(writes), UNCHANGED stored,
           gate' # "starting",
           \A c \in Calls : WaitsForDevice(c) /\ ~(writes[1].token /\ writes[1].call = c) =>
               calls'[c] # None /\ calls'[c].op = "login" /\ calls'[c].at = "storing"
    PROVE  WritesAreSound'
<1>1. /\ gate # "starting" /\ writes \in Seq(Write) /\ Len(writes) \in Nat \ {0}
      /\ stored = writes[Len(writes)].token
      /\ writes' \in Seq(Write) /\ Len(writes') = Len(writes) - 1
      /\ (writes' = <<>> <=> Len(writes) = 1)
      /\ \A n \in 1 .. Len(writes') : writes'[n] = writes[n + 1]
    BY TailOfWrites
<1>2. ASSUME NEW n \in 1 .. Len(writes'), Pending(n)'
      PROVE  /\ n + 1 \in 1 .. Len(writes) /\ Pending(n + 1) /\ writes'[n] = writes[n + 1]
             /\ WaitsForDevice(writes[n + 1].call)
             /\ ~(writes[1].token /\ writes[1].call = writes[n + 1].call)
  <2>1. /\ n + 1 \in 1 .. Len(writes) /\ n + 1 # 1 /\ 1 \in 1 .. Len(writes)
        /\ writes'[n] = writes[n + 1] /\ Pending(n + 1)
      BY <1>1, <1>2 DEF Pending
  <2> QED
      BY <2>1 DEF AppInv, WritesAreSound, Pending
<1>3. \A n \in 1 .. Len(writes') : Pending(n)' => WaitsForDevice(writes[n].call)'
  <2> SUFFICES ASSUME NEW n \in 1 .. Len(writes'), Pending(n)'
               PROVE  WaitsForDevice(writes[n].call)'
      OBVIOUS
  <2> DEFINE d == writes[n + 1].call
  <2>1. writes'[n].call = d /\ WaitsForDevice(d) /\ ~(writes[1].token /\ writes[1].call = d)
      BY <1>2
  <2>2. d \in Calls
      BY <2>1 DEF WaitsForDevice
  <2>3. calls'[d] # None /\ calls'[d].op = "login" /\ calls'[d].at = "storing"
      BY <2>1, <2>2
  <2> QED
      BY <2>1, <2>2, <2>3 DEF WaitsForDevice, Free
<1>4. \A m, n \in 1 .. Len(writes') :
        Pending(m)' /\ Pending(n)' /\ writes'[m].call = writes'[n].call => m = n
  <2> SUFFICES ASSUME NEW m \in 1 .. Len(writes'), NEW n \in 1 .. Len(writes'),
                      Pending(m)', Pending(n)', writes'[m].call = writes'[n].call
               PROVE  m = n
      OBVIOUS
  <2>1. m + 1 = n + 1
      BY <1>2 DEF AppInv, WritesAreSound
  <2> QED
      BY <1>1, <2>1
<1>5. writes' # <<>> => stored' = writes'[Len(writes')].token
    BY <1>1
<1> QED
    BY <1>3, <1>4, <1>5 DEF WritesAreSound

\* A logout that the device has done keeps the invariant.
LEMMA LogoutDoneKeepsAppInv ==
    ASSUME AppInv, LogoutDone
    PROVE  AppInv' /\ Kept /\ \A op : NoCall(op) => NoCall(op)'
<1>1. /\ gate # "starting" /\ writes \in Seq(Write) /\ Len(writes) \in Nat \ {0}
      /\ disk' = writes[1].token /\ stored' = stored
      /\ stored = writes[Len(writes)].token
      /\ writes' \in Seq(Write) /\ Len(writes') = Len(writes) - 1
      /\ (writes' = <<>> <=> Len(writes) = 1)
      /\ \A n \in 1 .. Len(writes') : writes'[n] = writes[n + 1]
    BY WrittenDevice DEF LogoutDone
<1>2. Written /\ UNCHANGED <<route, saved, confirmed>>
    BY DEF LogoutDone, Written, edits
<1>3. writes[1] \in Write /\ writes[1].token = FALSE
  <2>1. writes[1] \in Write
      BY <1>1
  <2>2. ~writes[1].token
      BY <1>1 DEF LogoutDone
  <2> QED
      BY <2>1, <2>2 DEF Write
<1>4. /\ gate = "main" =>
           /\ gate' = "login" /\ page' = None /\ calls' = Unmounted({"fetch", "nickname"})
           /\ dialog' = (IF dialog = "open" THEN "orphan" ELSE dialog) /\ signingIn' = FALSE
      /\ gate # "main" => UNCHANGED <<gate, page, calls, dialog, signingIn>>
    BY DEF LogoutDone, ShowLogin
<1>5. /\ calls' \in [Calls -> Call \cup {None}]
      /\ \A c \in Calls : calls[c] = None => calls'[c] = None
      /\ \A c \in Calls : calls[c] # None =>
           /\ SameRequest(calls'[c], calls[c]) /\ calls'[c].at = calls[c].at
           /\ calls'[c].info = calls[c].info /\ calls'[c].heard = calls[c].heard
           /\ calls'[c].alone = calls[c].alone
           /\ calls'[c].mounted => calls[c].mounted
           /\ gate = "main" /\ calls[c].op \in {"fetch", "nickname"} => ~calls'[c].mounted
  <2>1. CASE gate = "main"
      BY <1>4, <2>1, UnmountedAll
  <2>2. CASE gate # "main"
    <3>1. calls' = calls /\ calls \in [Calls -> Call \cup {None}]
        BY <1>4, <2>2 DEF AppInv, AppTypeOK
    <3> QED
        BY <2>2, <3>1, SoundCalls DEF SameRequest
  <2> QED
      BY <2>1, <2>2
<1>6. gate' # "main" /\ gate' # "starting" /\ gate' \in {"starting", "login", "main", "gone"}
    BY <1>1, <1>4 DEF AppInv, AppTypeOK
<1>7. \A c \in Calls : Left(calls[c], calls'[c])
    BY <1>5 DEF Left, SameRequest
<1>8. AloneIsAlone'
    BY <1>7, LeftKeepsAlone DEF AppInv
<1>9. \A op : NoCall(op) => NoCall(op)'
    BY <1>7 DEF Left, NoCall, Free
<1>10. Kept
    BY <1>5 DEF Kept, SameRequest
<1>11. AppTypeOK'
  <2>1. /\ signingIn' \in BOOLEAN /\ page' \in Page \cup {None}
        /\ dialog' \in {"closed", "open", "orphan"}
      BY <1>4 DEF AppInv, AppTypeOK
  <2>2. loggedOut' \in BOOLEAN /\ disk' \in BOOLEAN
      BY <1>1, <1>3 DEF LogoutDone
  <2> QED
      BY <1>1, <1>2, <1>5, <1>6, <2>1, <2>2 DEF AppInv, AppTypeOK, Write
<1>12. CallsAreSound'
  <2> SUFFICES ASSUME NEW c \in Calls, calls'[c] # None
               PROVE  IsSound(calls[c])'
      BY DEF CallsAreSound, Free
  <2>1. calls[c] # None /\ IsSound(calls[c])
      BY <1>5, SoundCalls
  <2>2. calls[c].op \in {"fetch", "nickname"} => ~calls'[c].mounted
      BY <1>5, <2>1 DEF IsSound
  <2> QED
      BY <1>5, <1>6, <2>1, <2>2 DEF IsSound, SameRequest
<1>13. ScreensAreSound'
    BY <1>2, <1>4, <1>6, NoneIsNoCall DEF AppInv, ScreensAreSound
<1>14. WritesAreSound'
  <2>1. \A c \in Calls : WaitsForDevice(c) =>
          calls'[c] # None /\ calls'[c].op = "login" /\ calls'[c].at = "storing"
      BY <1>5 DEF WaitsForDevice, Free, SameRequest
  <2> QED
      BY <1>2, <1>6, <2>1, WrittenWrites DEF Written
<1>15. GateFollowsStore'
    BY <1>1, <1>3, <1>6 DEF GateFollowsStore
<1>16. OutEverywhere'
  <2> SUFFICES ASSUME loggedOut'
               PROVE  /\ ~stored' /\ ~disk'
                      /\ \A n \in 1 .. Len(writes') : ~Pending(n)'
                      /\ \A c \in Calls : Free(c)' \/ calls'[c].op # "login"
      BY <1>6 DEF OutEverywhere
  <2>1. \A c \in Calls : Free(c) \/ calls[c].op # "login" \/ ~calls[c].heard
      BY DEF LogoutDone
  <2>2. NoCall("login")
      BY <2>1, SoundCalls DEF NoCall, Free, IsSound, Edits
  <2>3. \A n \in 1 .. Len(writes) : ~Pending(n)
      BY <2>2 DEF NoCall, AppInv, WritesAreSound, WaitsForDevice
  <2>4. \A n \in 1 .. Len(writes) : ~writes[n].token
      BY <2>3 DEF Pending
  <2>5. ~stored' /\ ~disk'
      BY <1>1, <2>4
  <2>6. \A n \in 1 .. Len(writes') : ~Pending(n)'
      BY <1>1, <2>4 DEF Pending
  <2> QED
      BY <1>9, <2>2, <2>5, <2>6 DEF NoCall
<1>17. PageHasInfo'
    BY <1>6 DEF PageHasInfo
<1> QED
    BY <1>8, <1>9, <1>10, <1>11, <1>12, <1>13, <1>14, <1>15, <1>16, <1>17 DEF AppInv

\* So does a kill, whatever has reached the device.
LEMMA KillKeepsAppInv ==
    ASSUME AppInv, Kill
    PROVE  AppInv' /\ Kept /\ \A op : NoCall(op) => NoCall(op)'
<1>1. /\ gate' = "starting" /\ stored' = disk' /\ writes' = <<>>
      /\ signingIn' = FALSE /\ page' = None /\ dialog' = "closed" /\ route' = "closed"
      /\ UNCHANGED <<loggedOut, saved, confirmed>>
      /\ calls' = [c \in Calls |-> IF Free(c) THEN None ELSE GivenUp(calls[c])]
    BY DEF Kill, edits
<1>2. writes \in Seq(Write) /\ Len(writes) \in Nat
    BY LenProperties DEF AppInv, AppTypeOK, Write
<1>3. PICK n \in 0 .. Len(writes) : disk' = IF n = 0 THEN disk ELSE writes[n].token
    BY DEF Kill
<1>4. disk' \in BOOLEAN
  <2>1. n # 0 => writes[n] \in Write
      BY <1>2
  <2> QED
      BY <1>3, <2>1 DEF AppInv, AppTypeOK, Write
<1>5. \A c \in Calls : calls[c] = None => calls'[c] = None
    BY <1>1 DEF Free
<1>6. \A c \in Calls : calls[c] # None =>
        \/ /\ calls'[c] = None
           /\ ~(calls[c].at = "sent" /\ calls[c].op \in Edits)
        \/ /\ calls[c].at = "sent" /\ calls[c].op \in Edits
           /\ SameRequest(calls'[c], calls[c]) /\ calls'[c].alone = calls[c].alone
           /\ IsGivenUp(calls'[c])
  <2> SUFFICES ASSUME NEW c \in Calls, calls[c] # None
               PROVE  \/ /\ calls'[c] = None
                         /\ ~(calls[c].at = "sent" /\ calls[c].op \in Edits)
                      \/ /\ calls[c].at = "sent" /\ calls[c].op \in Edits
                         /\ SameRequest(calls'[c], calls[c])
                         /\ calls'[c].alone = calls[c].alone /\ IsGivenUp(calls'[c])
      OBVIOUS
  <2>1. calls'[c] = GivenUp(calls[c])
      BY <1>1 DEF Free
  <2> QED
      BY <2>1, GivenUpIsLeft DEF Free
<1>7. calls' \in [Calls -> Call \cup {None}]
  <2>1. \A c \in Calls : calls'[c] \in Call \cup {None}
      BY <1>5, <1>6 DEF IsGivenUp
  <2> QED
      BY <1>1, <2>1
<1>8. \A c \in Calls : Left(calls[c], calls'[c])
    BY <1>5, <1>6 DEF Left, SameRequest, IsGivenUp
<1>9. AloneIsAlone'
    BY <1>8, LeftKeepsAlone DEF AppInv
<1>10. \A op : NoCall(op) => NoCall(op)'
    BY <1>8 DEF Left, NoCall, Free
<1>11. Kept
    BY <1>5, <1>6 DEF Kept, SameRequest, IsGivenUp
<1>12. AppTypeOK'
  <2>1. writes' \in Seq(Write)
      BY <1>1
  <2> QED
      BY <1>1, <1>4, <1>7, <2>1 DEF AppInv, AppTypeOK, Write
<1>13. CallsAreSound'
  <2> SUFFICES ASSUME NEW c \in Calls, calls'[c] # None
               PROVE  IsSound(calls[c])'
      BY DEF CallsAreSound, Free
  <2>1. IsGivenUp(calls'[c])
      BY <1>5, <1>6
  <2> QED
      BY <2>1 DEF IsGivenUp, IsSound
<1>14. ScreensAreSound'
    BY <1>1 DEF ScreensAreSound
<1>15. WritesAreSound'
    BY <1>1 DEF WritesAreSound
<1>16. GateFollowsStore'
    BY <1>1 DEF GateFollowsStore
<1>17. OutEverywhere'
  <2> SUFFICES ASSUME loggedOut
               PROVE  ~disk' /\ \A c \in Calls : Free(c)' \/ calls'[c].op # "login"
      BY <1>1 DEF OutEverywhere
  <2>1. ~disk /\ (\A m \in 1 .. Len(writes) : ~writes[m].token) /\ NoCall("login")
      BY DEF AppInv, OutEverywhere, Pending, NoCall
  <2>2. ~disk'
      BY <1>2, <1>3, <2>1
  <2> QED
      BY <1>10, <2>1, <2>2 DEF NoCall
<1>18. PageHasInfo'
    BY <1>1 DEF PageHasInfo
<1> QED
    BY <1>9, <1>10, <1>11, <1>12, <1>13, <1>14, <1>15, <1>16, <1>17, <1>18 DEF AppInv

\* What becomes of the calls when the account page is shown.
LEMMA ShowAccountCalls ==
    ASSUME AppInv, NEW c \in Calls, ShowAccount(c), gate # "main",
           Free(c) \/ calls[c].at = "storing"
    PROVE  /\ calls' \in [Calls -> Call \cup {None}]
           /\ calls'[c] = IF stored THEN Fetch ELSE None
           /\ \A d \in Calls \ {c} : calls[d] = None => calls'[d] = None
           /\ \A d \in Calls \ {c} : calls[d] # None =>
                /\ SameRequest(calls'[d], calls[d]) /\ calls'[d].at = calls[d].at
                /\ calls'[d].info = calls[d].info /\ calls'[d].heard = calls[d].heard
                /\ calls'[d].alone = calls[d].alone
                /\ calls'[d].mounted => calls[d].mounted
           /\ Kept /\ AloneIsAlone'
           /\ \A op \in Edits : NoCall(op) => NoCall(op)'
<1> DEFINE u == Unmounted({"login"})
<1>1. calls' = [u EXCEPT ![c] = IF stored THEN Fetch ELSE None]
    BY DEF ShowAccount
<1>2. /\ u \in [Calls -> Call \cup {None}]
      /\ \A d \in Calls : calls[d] = None => u[d] = None
      /\ \A d \in Calls : calls[d] # None =>
           /\ SameRequest(u[d], calls[d]) /\ u[d].at = calls[d].at
           /\ u[d].info = calls[d].info /\ u[d].heard = calls[d].heard
           /\ u[d].alone = calls[d].alone
           /\ u[d].mounted => calls[d].mounted
    BY UnmountedAll
<1> HIDE DEF u
<1>3. /\ calls' \in [Calls -> Call \cup {None}]
      /\ calls'[c] = IF stored THEN Fetch ELSE None
      /\ \A d \in Calls \ {c} : calls'[d] = u[d]
    BY <1>1, <1>2, FetchIsACall
<1>4. /\ \A d \in Calls \ {c} : calls[d] = None => calls'[d] = None
      /\ \A d \in Calls \ {c} : calls[d] # None =>
           /\ SameRequest(calls'[d], calls[d]) /\ calls'[d].at = calls[d].at
           /\ calls'[d].info = calls[d].info /\ calls'[d].heard = calls[d].heard
           /\ calls'[d].alone = calls[d].alone
           /\ calls'[d].mounted => calls[d].mounted
    BY <1>2, <1>3
<1>5. calls[c] # None => calls[c].op = "login" /\ calls[c].at = "storing"
    BY SoundCalls DEF Free, IsSound
<1>6. Kept
    BY <1>3, <1>4, <1>5, FetchIsACall DEF Kept, SameRequest
<1>7. \A op \in Edits : NoCall(op) => NoCall(op)'
    BY <1>3, <1>4, FetchIsACall DEF NoCall, Free, SameRequest, Edits
<1>8. AloneIsAlone'
  <2> SUFFICES ASSUME NEW d \in Calls, calls'[d] # None, calls'[d].op \in Edits,
                      calls'[d].alone, NEW e \in Calls \ {d}, calls'[e] # None
               PROVE  /\ calls'[e].op = "fetch"
                      /\ ~(calls'[d].op = "nickname" /\ calls'[d].mounted)
      BY DEF AloneIsAlone, Free
  <2>1. d # c
      BY <1>3, FetchIsACall DEF Edits
  <2>2. /\ calls[d] # None /\ calls[d].op = calls'[d].op /\ calls[d].alone
        /\ calls'[d].mounted => calls[d].mounted
      BY <1>4, <2>1 DEF SameRequest
  <2>3. ~(calls[d].op = "nickname" /\ calls[d].mounted)
      BY <2>2, SoundCalls DEF IsSound
  <2>4. calls'[e].op = "fetch"
    <3>1. CASE e = c
        BY <1>3, <3>1, FetchIsACall
    <3>2. CASE e # c
      <4>1. calls[e] # None /\ calls[e].op = calls'[e].op
          BY <1>4, <3>2 DEF SameRequest
      <4> QED
          BY <2>2, <4>1 DEF AppInv, AloneIsAlone, Free
    <3> QED
        BY <3>1, <3>2
  <2> QED
      BY <2>2, <2>3, <2>4
<1> QED
    BY <1>3, <1>4, <1>6, <1>7, <1>8

\* The account page is shown, with calls that are sound.
LEMMA ShowAccountIsSound ==
    ASSUME AppInv, NEW c \in Calls, ShowAccount(c), gate # "main",
           Free(c) \/ calls[c].at = "storing"
    PROVE  /\ gate' = "main" /\ signingIn' = FALSE
           /\ page' \in Page /\ page' # None /\ PageHasInfo'
           /\ CallsAreSound'
<1>1. /\ gate' = "main" /\ signingIn' = FALSE
      /\ page' = [loading |-> TRUE, error |-> IF stored THEN "none" ELSE "signedOut", info |-> None]
    BY DEF ShowAccount
<1>2. page' \in Page /\ page'.loading
    BY <1>1 DEF Page
<1>3. page' # None
    BY <1>2, NoneIsNoCall
<1>4. CallsAreSound'
  <2> SUFFICES ASSUME NEW d \in Calls, calls'[d] # None
               PROVE  IsSound(calls[d])'
      BY DEF CallsAreSound, Free
  <2>1. CASE d = c
    <3>1. calls'[d] = Fetch
        BY <2>1, ShowAccountCalls
    <3> QED
        BY <1>1, <3>1, FetchIsACall DEF IsSound, Edits
  <2>2. CASE d # c
    <3>1. /\ calls[d] # None /\ SameRequest(calls'[d], calls[d])
          /\ calls'[d].at = calls[d].at /\ calls'[d].info = calls[d].info
          /\ calls'[d].heard = calls[d].heard /\ (calls'[d].mounted => calls[d].mounted)
        BY <2>2, ShowAccountCalls
    <3>2. IsSound(calls[d])
        BY <3>1, SoundCalls
    <3> QED
        BY <1>1, <3>1, <3>2 DEF IsSound, SameRequest
  <2> QED
      BY <2>1, <2>2
<1> QED
    BY <1>1, <1>2, <1>3, <1>4 DEF PageHasInfo

\* So does a login that the device has stored.
LEMMA LoginDoneKeepsAppInv ==
    ASSUME AppInv, LoginDone
    PROVE  AppInv' /\ Kept /\ \A op \in Edits : NoCall(op) => NoCall(op)'
<1>1. /\ gate # "starting" /\ writes \in Seq(Write) /\ Len(writes) \in Nat \ {0}
      /\ disk' = writes[1].token /\ stored' = stored
      /\ stored = writes[Len(writes)].token
      /\ writes' \in Seq(Write) /\ Len(writes') = Len(writes) - 1
      /\ (writes' = <<>> <=> Len(writes) = 1)
      /\ \A n \in 1 .. Len(writes') : writes'[n] = writes[n + 1]
    BY WrittenDevice DEF LoginDone
<1>2. Written /\ UNCHANGED <<route, saved, confirmed, dialog, loggedOut>>
    BY DEF LoginDone, Written, edits
<1>3. Head(writes) = writes[1] /\ 1 \in 1 .. Len(writes) /\ writes[1] \in Write
    BY <1>1
<1>4. writes[1].token = TRUE
  <2>1. writes[1].token
      BY <1>3 DEF LoginDone
  <2> QED
      BY <1>3, <2>1 DEF Write
<1> DEFINE c == writes[1].call
<1>5. c \in Calls /\ calls[c] # None /\ calls[c].op = "login" /\ calls[c].at = "storing"
    BY <1>3, <1>4 DEF AppInv, WritesAreSound, WaitsForDevice, Pending, Free
<1>6. IF gate = "login" THEN ShowAccount(c)
      ELSE calls' = Over(c) /\ UNCHANGED <<gate, page, signingIn>>
    BY <1>3 DEF LoginDone, Opens
<1>7. ~loggedOut
    BY <1>3, <1>4 DEF AppInv, OutEverywhere, Pending
<1> HIDE DEF c
<1>8. ASSUME calls' \in [Calls -> Call \cup {None}], signingIn' \in BOOLEAN,
             page' \in Page \cup {None}, gate' = "main" <=> page' # None,
             gate' \in {"main", "gone"}, gate = "main" => gate' = "main",
             CallsAreSound', AloneIsAlone', PageHasInfo',
             \A d \in Calls \ {c} : calls[d] # None =>
                 calls'[d] # None /\ calls'[d].op = calls[d].op /\ calls'[d].at = calls[d].at
      PROVE  AppInv'
  <2>1. AppTypeOK'
      BY <1>1, <1>2, <1>4, <1>8 DEF AppInv, AppTypeOK, Write
  <2>2. ScreensAreSound'
      BY <1>2, <1>8 DEF AppInv, ScreensAreSound
  <2>3. WritesAreSound'
    <3>1. \A d \in Calls : WaitsForDevice(d) /\ ~(writes[1].token /\ writes[1].call = d) =>
            calls'[d] # None /\ calls'[d].op = "login" /\ calls'[d].at = "storing"
        BY <1>4, <1>8 DEF WaitsForDevice, Free, c
    <3> QED
        BY <1>2, <1>8, <3>1, WrittenWrites DEF Written
  <2>4. GateFollowsStore'
      BY <1>1, <1>4, <1>8 DEF GateFollowsStore
  <2>5. OutEverywhere'
      BY <1>2, <1>7 DEF OutEverywhere
  <2> QED
      BY <1>8, <2>1, <2>2, <2>3, <2>4, <2>5 DEF AppInv
<1>9. CASE gate = "login"
  <2>1. ShowAccount(c)
      BY <1>6, <1>9
  <2>2. /\ calls' \in [Calls -> Call \cup {None}] /\ Kept /\ AloneIsAlone'
        /\ \A d \in Calls \ {c} : calls[d] # None =>
             SameRequest(calls'[d], calls[d]) /\ calls'[d].at = calls[d].at
        /\ \A op \in Edits : NoCall(op) => NoCall(op)'
      BY <1>5, <1>9, <2>1, ShowAccountCalls
  <2>3. /\ gate' = "main" /\ signingIn' = FALSE
        /\ page' \in Page /\ page' # None /\ PageHasInfo' /\ CallsAreSound'
      BY <1>5, <1>9, <2>1, ShowAccountIsSound
  <2>4. \A d \in Calls \ {c} : calls[d] # None =>
          calls'[d] # None /\ calls'[d].op = calls[d].op /\ calls'[d].at = calls[d].at
      BY <2>2 DEF SameRequest
  <2>5. AppInv'
      BY <1>8, <1>9, <2>2, <2>3, <2>4
  <2> QED
      BY <2>2, <2>5
<1>10. CASE gate # "login"
  <2>1. calls' = Over(c) /\ UNCHANGED <<gate, page, signingIn>>
      BY <1>6, <1>10
  <2>2. /\ calls' \in [Calls -> Call \cup {None}] /\ calls'[c] = None
        /\ \A d \in Calls \ {c} : calls'[d] = calls[d]
      BY <1>5, <2>1 DEF Over, AppInv, AppTypeOK
  <2>3. Kept /\ \A op : NoCall(op) => NoCall(op)'
      BY <1>5, <2>2 DEF Kept, NoCall, Free
  <2>4. AloneIsAlone'
    <3>1. \A d \in Calls : Left(calls[d], calls'[d])
        BY <2>2 DEF Left
    <3> QED
        BY <3>1, LeftKeepsAlone DEF AppInv
  <2>5. CallsAreSound'
      BY <2>1, <2>2 DEF AppInv, CallsAreSound, Free, IsSound
  <2>6. /\ signingIn' \in BOOLEAN /\ page' \in Page \cup {None} /\ PageHasInfo'
        /\ gate' \in {"main", "gone"} /\ (gate' = "main" <=> page' # None)
      BY <1>1, <1>10, <2>1 DEF AppInv, AppTypeOK, ScreensAreSound, PageHasInfo
  <2>7. AppInv'
      BY <1>8, <2>1, <2>2, <2>4, <2>5, <2>6
  <2> QED
      BY <2>3, <2>7
<1> QED
    BY <1>9, <1>10

\* So does a write that fails.
LEMMA WriteFailsKeepsAppInv ==
    ASSUME AppInv, WriteFails
    PROVE  AppInv' /\ Kept /\ \A op : NoCall(op) => NoCall(op)'
<1> DEFINE c == writes[1].call
<1>1. /\ writes # <<>> /\ writes' = Tail(writes)
      /\ UNCHANGED <<gate, stored, disk, page, dialog, route, loggedOut, saved, confirmed>>
    BY DEF WriteFails, edits
<1>2. /\ gate # "starting" /\ writes \in Seq(Write) /\ Len(writes) \in Nat \ {0}
      /\ Head(writes) = writes[1]
      /\ writes' \in Seq(Write) /\ Len(writes') = Len(writes) - 1
      /\ \A n \in 1 .. Len(writes') : writes'[n] = writes[n + 1]
    BY <1>1, TailOfWrites
<1>3. /\ signingIn' \in BOOLEAN
      /\ IF writes[1].token THEN calls' = Over(c) ELSE calls' = calls
    BY <1>2 DEF WriteFails, AppInv, AppTypeOK
<1>4. writes[1].token =>
        c \in Calls /\ calls[c] # None /\ calls[c].op = "login" /\ calls[c].at = "storing"
    BY <1>2 DEF AppInv, WritesAreSound, WaitsForDevice, Pending, Free
<1> HIDE DEF c
<1>5. /\ calls' \in [Calls -> Call \cup {None}]
      /\ \A d \in Calls : calls'[d] \in {calls[d], None}
      /\ \A d \in Calls : calls'[d] # calls[d] => writes[1].token /\ d = c
    BY <1>3, <1>4 DEF Over, AppInv, AppTypeOK
<1>6. \A op : NoCall(op) => NoCall(op)'
    BY <1>5 DEF NoCall, Free
<1>7. Kept
    BY <1>4, <1>5 DEF Kept
<1>8. AloneIsAlone'
  <2>1. \A d \in Calls : Left(calls[d], calls'[d])
      BY <1>5 DEF Left
  <2> QED
      BY <2>1, LeftKeepsAlone DEF AppInv
<1>9. AppTypeOK'
    BY <1>1, <1>2, <1>3, <1>5 DEF AppInv, AppTypeOK, Write
<1>10. CallsAreSound'
    BY <1>1, <1>5 DEF AppInv, CallsAreSound, Free, IsSound
<1>11. ScreensAreSound' /\ GateFollowsStore' /\ PageHasInfo'
    BY <1>1 DEF AppInv, ScreensAreSound, GateFollowsStore, PageHasInfo
<1>12. WritesAreSound'
  <2>1. \A d \in Calls : WaitsForDevice(d) /\ ~(writes[1].token /\ writes[1].call = d) =>
          calls'[d] # None /\ calls'[d].op = "login" /\ calls'[d].at = "storing"
      BY <1>5 DEF WaitsForDevice, Free, c
  <2> QED
      BY <1>1, <1>2, <2>1, WrittenWrites
<1>13. OutEverywhere'
  <2> SUFFICES ASSUME loggedOut'
               PROVE  /\ gate' # "main" /\ ~stored' /\ ~disk'
                      /\ \A n \in 1 .. Len(writes') : ~Pending(n)'
                      /\ \A d \in Calls : Free(d)' \/ calls'[d].op # "login"
      BY DEF OutEverywhere
  <2>1. /\ gate # "main" /\ ~stored /\ ~disk
        /\ \A n \in 1 .. Len(writes) : ~writes[n].token
        /\ NoCall("login")
      BY <1>1 DEF AppInv, OutEverywhere, Pending, NoCall
  <2>2. \A n \in 1 .. Len(writes') : ~Pending(n)'
      BY <1>2, <2>1 DEF Pending
  <2> QED
      BY <1>1, <1>6, <2>1, <2>2 DEF NoCall
<1> QED
    BY <1>6, <1>7, <1>8, <1>9, <1>10, <1>11, <1>12, <1>13 DEF AppInv

\* So does the start of the app.
LEMMA StartKeepsAppInv ==
    ASSUME AppInv, NEW c \in Calls, Start(c)
    PROVE  AppInv' /\ Kept /\ \A op \in Edits : NoCall(op) => NoCall(op)'
<1>1. /\ gate = "starting" /\ Free(c) /\ writes = <<>> /\ stored = disk
      /\ dialog = "closed" /\ route = "closed"
      /\ UNCHANGED <<device, route, loggedOut, saved, confirmed>>
    BY DEF Start, Slot, edits, AppInv, WritesAreSound, ScreensAreSound
<1>2. stored \in BOOLEAN
    BY DEF AppInv, AppTypeOK
<1>3. CASE stored
  <2>1. ShowAccount(c) /\ UNCHANGED dialog
      BY <1>3 DEF Start
  <2>2. /\ calls' \in [Calls -> Call \cup {None}] /\ Kept /\ AloneIsAlone'
        /\ \A op \in Edits : NoCall(op) => NoCall(op)'
      BY <1>1, <2>1, ShowAccountCalls
  <2>3. /\ gate' = "main" /\ signingIn' = FALSE
        /\ page' \in Page /\ page' # None /\ PageHasInfo' /\ CallsAreSound'
      BY <1>1, <2>1, ShowAccountIsSound
  <2>4. AppTypeOK'
      BY <1>1, <2>1, <2>2, <2>3 DEF AppInv, AppTypeOK, device
  <2>5. ScreensAreSound'
      BY <1>1, <2>1, <2>3 DEF ScreensAreSound
  <2>6. WritesAreSound'
      BY <1>1, <2>3, EmptySeq DEF WritesAreSound, device
  <2>7. GateFollowsStore'
      BY <1>1, <1>2, <1>3, <2>3 DEF GateFollowsStore, device
  <2>8. ~loggedOut'
      BY <1>1, <1>3 DEF AppInv, OutEverywhere
  <2> QED
      BY <2>2, <2>3, <2>4, <2>5, <2>6, <2>7, <2>8 DEF AppInv, OutEverywhere
<1>4. CASE ~stored
  <2>1. /\ gate' = "login" /\ page' = None /\ calls' = Unmounted({"fetch", "nickname"})
        /\ dialog' = "closed" /\ signingIn' = FALSE
      BY <1>1, <1>4 DEF Start, ShowLogin
  <2>2. /\ calls' \in [Calls -> Call \cup {None}]
        /\ \A d \in Calls : calls[d] = None => calls'[d] = None
        /\ \A d \in Calls : calls[d] # None =>
             /\ SameRequest(calls'[d], calls[d]) /\ calls'[d].at = calls[d].at
             /\ calls'[d].info = calls[d].info /\ calls'[d].heard = calls[d].heard
             /\ calls'[d].alone = calls[d].alone
             /\ calls'[d].mounted => calls[d].mounted
      BY <2>1, UnmountedAll
  <2>3. \A d \in Calls : Left(calls[d], calls'[d])
      BY <2>2 DEF Left, SameRequest
  <2>4. AloneIsAlone'
      BY <2>3, LeftKeepsAlone DEF AppInv
  <2>5. \A op : NoCall(op) => NoCall(op)'
      BY <2>3 DEF Left, NoCall, Free
  <2>6. Kept
      BY <2>2 DEF Kept, SameRequest
  <2>7. AppTypeOK'
      BY <1>1, <2>1, <2>2 DEF AppInv, AppTypeOK, device
  <2>8. CallsAreSound'
    <3> SUFFICES ASSUME NEW d \in Calls, calls'[d] # None
                 PROVE  IsSound(calls[d])'
        BY DEF CallsAreSound, Free
    <3>1. calls[d] # None /\ IsSound(calls[d])
        BY <2>2, SoundCalls
    <3> QED
        BY <1>1, <2>1, <2>2, <3>1 DEF IsSound, SameRequest
  <2>9. ScreensAreSound'
      BY <1>1, <2>1 DEF ScreensAreSound
  <2>10. WritesAreSound'
      BY <1>1, <2>1, EmptySeq DEF WritesAreSound, device
  <2>11. GateFollowsStore'
      BY <1>1, <1>2, <1>4, <2>1 DEF GateFollowsStore, device
  <2>12. OutEverywhere'
      BY <1>1, <1>4, <2>1, <2>5 DEF AppInv, OutEverywhere, NoCall, Pending, device
  <2>13. PageHasInfo'
      BY <2>1 DEF PageHasInfo
  <2> QED
      BY <2>4, <2>5, <2>6, <2>7, <2>8, <2>9, <2>10, <2>11, <2>12, <2>13 DEF AppInv
<1> QED
    BY <1>3, <1>4

\* Every step of the app keeps the invariant of the app.
LEMMA AppStepKeepsAppInv ==
    ASSUME AppInv, AppStep
    PROVE  AppInv' /\ Kept
BY SubmitKeepsAppInv, FetchAnsweredKeepsAppInv, RetryKeepsAppInv, SaveNicknameKeepsAppInv,
   NicknameAnsweredKeepsAppInv, DialogKeepsAppInv, ClosePasswordKeepsAppInv,
   SubmitPasswordKeepsAppInv, PasswordAnsweredKeepsAppInv, FailsKeepsAppInv,
   TimeoutKeepsAppInv, LoginAnsweredKeepsAppInv, LogoutKeepsAppInv,
   LogoutDoneKeepsAppInv, LoginDoneKeepsAppInv, WriteFailsKeepsAppInv,
   PasswordGoneKeepsAppInv, KillKeepsAppInv, StartKeepsAppInv
   DEF AppStep

\* The invariant holds initially.
LEMMA AppInitInv == AppInit => AppInv
<1> SUFFICES ASSUME AppInit
             PROVE  AppInv
    OBVIOUS
<1>1. /\ gate = "starting" /\ disk \in BOOLEAN /\ stored = disk /\ writes = <<>>
      /\ signingIn = FALSE /\ page = None /\ dialog = "closed" /\ route = "closed"
      /\ calls = [c \in Calls |-> None]
      /\ loggedOut = FALSE /\ saved = None /\ confirmed = None
    BY DEF AppInit
<1>2. writes \in Seq(Write) /\ Len(writes) = 0
    BY <1>1
<1>3. AppTypeOK
    BY <1>1, <1>2 DEF AppTypeOK, Write
<1>4. \A c \in Calls : Free(c)
    BY <1>1 DEF Free
<1>5. CallsAreSound /\ AloneIsAlone
    BY <1>4 DEF CallsAreSound, AloneIsAlone
<1>6. ScreensAreSound /\ OutEverywhere /\ PageHasInfo /\ GateFollowsStore
    BY <1>1 DEF ScreensAreSound, OutEverywhere, PageHasInfo, GateFollowsStore
<1>7. WritesAreSound
    BY <1>1, <1>2 DEF WritesAreSound
<1> QED
    BY <1>3, <1>5, <1>6, <1>7 DEF AppInv

\* When nothing of the app changes, its invariant stays.
LEMMA SameApp == AppInv /\ UNCHANGED app => AppInv'
<1> SUFFICES ASSUME AppInv, UNCHANGED app
             PROVE  AppInv'
    OBVIOUS
<1>1. /\ UNCHANGED <<gate, device, calls, page>>
      /\ UNCHANGED <<stored, disk, writes, signingIn, dialog, route, loggedOut, saved, confirmed>>
    BY DEF app, device, edits
<1>2. CallsStaySound
    BY <1>1, SameCalls DEF CallsGoOn
<1>3. loggedOut' => NoCall("login")'
    BY <1>1 DEF AppInv, OutEverywhere, NoCall, Free
<1>4. PageHasInfo'
    BY <1>1 DEF AppInv, PageHasInfo
<1> QED
    BY <1>1, <1>2, <1>3, <1>4, ScreenKeepsAppInv DEF AppInv, AppTypeOK, ScreensAreSound

\* An answer of the provider keeps it, and changes one call that was not answered.
LEMMA AnswersKeepsAppInv ==
    ASSUME AppInv, NEW c \in Calls, calls[c] # None, calls[c].at = "sent",
           NEW at \in {"ok", "failed"}, NEW info \in Info \cup {None},
           calls[c].op = "fetch" /\ at = "ok" => info # None,
           Answers(c, at, info)
    PROVE  /\ AppInv'
           /\ \A d \in Calls \ {c} : calls'[d] = calls[d]
           /\ calls'[c] # None =>
                /\ calls'[c].op = calls[c].op /\ calls'[c].text = calls[c].text
                /\ calls'[c].at = at /\ calls'[c].info = info
                /\ calls'[c].alone = calls[c].alone
           /\ \A op : NoCall(op) => NoCall(op)'
           /\ UNCHANGED <<gate, page, saved, confirmed>>
<1>1. /\ UNCHANGED <<gate, device, signingIn, page, dialog, route, loggedOut, saved, confirmed>>
      /\ calls' = [calls EXCEPT ![c] = IF calls[c].heard
                                      THEN [calls[c] EXCEPT !.at = at, !.info = info] ELSE None]
    BY DEF Answers, Reply, edits
<1>2. calls[c] \in Call /\ IsSound(calls[c])
    BY SoundCalls
<1> DEFINE n == [calls[c] EXCEPT !.at = at, !.info = info]
           new == IF calls[c].heard THEN n ELSE None
<1>3. /\ SameRequest(n, calls[c]) /\ n.at = at /\ n.info = info
      /\ n.heard = calls[c].heard /\ n.mounted = calls[c].mounted /\ n.alone = calls[c].alone
  <2>1. /\ n.op = calls[c].op /\ n.before = calls[c].before /\ n.text = calls[c].text
        /\ n.at = at /\ n.info = info /\ n.heard = calls[c].heard
        /\ n.mounted = calls[c].mounted /\ n.alone = calls[c].alone
      BY <1>2 DEF Call
  <2>2. n \in Call
      BY <1>2 DEF Call
  <2> QED
      BY <2>1, <2>2, NoneIsNoCall DEF SameRequest
<1>4. calls' = [calls EXCEPT ![c] = new]
    BY <1>1
<1> HIDE DEF n
<1>5. new \in Call \cup {None}
    BY <1>3 DEF SameRequest
<1>6. /\ calls' \in [Calls -> Call \cup {None}]
      /\ calls'[c] = new /\ \A d \in Calls \ {c} : calls'[d] = calls[d]
    BY <1>4, <1>5 DEF AppInv, AppTypeOK
<1>7. calls[c].heard => IsSound(n)
    BY <1>2, <1>3 DEF IsSound, SameRequest
<1>8. \A d \in Calls : calls'[d] # None => IsSound(calls'[d])
    BY <1>6, <1>7, SoundCalls
<1>9. \A d \in Calls : Left(calls[d], calls'[d])
    BY <1>3, <1>6 DEF Left, SameRequest
<1>10. AloneIsAlone'
    BY <1>9, LeftKeepsAlone DEF AppInv
<1>11. \A op : NoCall(op) => NoCall(op)'
    BY <1>9 DEF Left, NoCall, Free
<1>12. \A d \in Calls : calls[d] # None /\ calls[d].at = "storing" =>
         calls'[d] # None /\ calls'[d].op = "login" /\ calls'[d].at = "storing"
    BY <1>6, SoundCalls DEF IsSound
<1>13. CallsStaySound
    BY <1>6, <1>8, <1>10, <1>12 DEF CallsStaySound
<1>14. loggedOut' => NoCall("login")'
    BY <1>1, <1>11 DEF AppInv, OutEverywhere, NoCall
<1>15. PageHasInfo'
    BY <1>1 DEF AppInv, PageHasInfo
<1>16. AppInv'
    BY <1>1, <1>13, <1>14, <1>15, ScreenKeepsAppInv DEF AppInv, AppTypeOK, ScreensAreSound
<1> QED
    BY <1>1, <1>3, <1>6, <1>11, <1>16 DEF SameRequest

-------------------------------------------------------------------------------
(* The provider. *)

\* What Accounts assumes of its constants is so of those it is given here.
LEMMA ProviderAssumptions == P!Parameters /\ P!NoneIsNoUser /\ P!KeysAreNumbers
<1>1. P!Parameters
    BY ClientParameters, ProviderParameters DEF P!Parameters
<1>2. P!NoneIsNoUser
    BY ProviderParameters
       DEF P!NoneIsNoUser, P!User, P!Hash, P!Identity, P!Texts,
           Provider!User, Provider!Hash, Provider!Identity, Provider!Texts
<1>3. P!KeysAreNumbers
    BY ProviderParameters DEF P!KeysAreNumbers
<1> QED
    BY <1>1, <1>2, <1>3

\* The steps that the provider takes here are steps of Accounts.
LEMMA ProviderSteps ==
    ASSUME NEW c \in Calls, P!Inv,
           \/ \E i \in Ids, nickname \in Nicks : Provider!UpdateUserInfo(c, i, nickname)
           \/ \E i \in Ids, before, after \in Passwords :
                 Provider!ChangePassword(c, i, before, after)
           \/ Provider!ProfileWrite(c) \/ Provider!WriteBack(c) \/ Provider!Abandon(c)
    PROVE  P!Inv'
<1>1. ASSUME NEW i \in Ids, NEW nickname \in Nicks, Provider!UpdateUserInfo(c, i, nickname)
      PROVE  P!UpdateUserInfo(c, i, nickname)
    BY <1>1 DEF P!UpdateUserInfo, P!Called, P!Existing, P!Rows, P!Holds, P!OnlyReads, P!observed,
                Provider!UpdateUserInfo, Provider!Called, Provider!Existing, Provider!Rows,
                Provider!Holds, Provider!OnlyReads, Provider!observed
<1>2. ASSUME NEW i \in Ids, NEW before \in Passwords, NEW after \in Passwords,
             Provider!ChangePassword(c, i, before, after)
      PROVE  P!ChangePassword(c, i, before, after)
    BY <1>2 DEF P!ChangePassword, P!Called, P!Existing, P!Rows, P!Holds, P!OnlyReads,
                P!observed, P!Verified, P!Hashed, P!Rehashed,
                Provider!ChangePassword, Provider!Called, Provider!Existing, Provider!Rows,
                Provider!Holds, Provider!OnlyReads, Provider!observed, Provider!Verified,
                Provider!Hashed, Provider!Rehashed
<1>3. Provider!ProfileWrite(c) => P!ProfileWrite(c)
    BY DEF P!ProfileWrite, P!WritesBack, P!Saved, P!EndRequest, Provider!ProfileWrite,
           Provider!WritesBack, Provider!Saved, Provider!EndRequest
<1>4. Provider!WriteBack(c) => P!WriteBack(c)
    BY DEF P!WriteBack, P!WritesBack, P!Saved, P!EndRequest, Provider!WriteBack,
           Provider!WritesBack, Provider!Saved, Provider!EndRequest
<1>5. Provider!Abandon(c) => P!Abandon(c)
    BY DEF P!Abandon, P!EndRequest, P!OnlyReads, P!observed,
           Provider!Abandon, Provider!EndRequest, Provider!OnlyReads, Provider!observed
<1>6. P!OwnAccount(c) \/ P!Abandon(c)
    BY <1>1, <1>2, <1>3, <1>4, <1>5 DEF P!OwnAccount
<1>7. P!Next
    BY <1>6 DEF P!Next
<1> QED
    BY <1>7, ProviderAssumptions, P!NextKeepsInv

\* A write puts the copy of its request in place of the account.
LEMMA WritesTheAccount ==
    ASSUME P!Inv, NEW a \in Ids, IsTheAccount(a), NEW c \in Calls,
           Provider!ProfileWrite(c) \/ Provider!WriteBack(c)
    PROVE  /\ pc[c] # "idle" /\ users'[a] = copy[c] /\ users'[a] # None
           /\ \A i \in Ids \ {a} : users'[i] = users[i]
           /\ pc'[c] = "idle"
           /\ \A d \in Calls \ {c} : pc'[d] = pc[d] /\ copy'[d] = copy[d]
           /\ IsTheAccount(a)'
<1>1. /\ pc[c] \in {"write", "profileWrite"} /\ users' = [users EXCEPT ![who[c]] = copy[c]]
      /\ pc' = [pc EXCEPT ![c] = "idle"] /\ copy' = [copy EXCEPT ![c] = None]
      /\ born' = born
    BY DEF Provider!ProfileWrite, Provider!WriteBack, Provider!WritesBack, Provider!Saved,
           Provider!EndRequest
<1>2. /\ who[c] \in Ids /\ copy[c] \in P!User /\ P!IdentityOf(copy[c]) = born[who[c]]
    BY <1>1 DEF P!Inv, P!Ready, P!Writing, P!IsItself
<1>3. copy[c] # None /\ P!IdentityOf(copy[c]) # None
    BY <1>2, ProviderAssumptions, P!UserFields
<1>4. who[c] = a
    BY <1>2, <1>3 DEF IsTheAccount
<1>5. /\ users \in [Ids -> P!User \cup {None}] /\ copy \in [Calls -> P!User \cup {None}]
      /\ pc' \in [Calls -> P!Steps] /\ pc \in [Calls -> P!Steps]
    BY <1>1 DEF P!Inv, P!TypeOK, P!Steps
<1>6. users'[a] = copy[c] /\ \A i \in Ids \ {a} : users'[i] = users[i]
    BY <1>1, <1>4, <1>5
<1> QED
    BY <1>1, <1>3, <1>5, <1>6 DEF IsTheAccount

\* What all have, they have after a write,
LEMMA WriteKeepsAllHave ==
    ASSUME P!Inv, OnlyAdministrator, NEW c \in Calls,
           Provider!ProfileWrite(c) \/ Provider!WriteBack(c),
           NEW field, NEW value,
           AllHave(field, value)
             \/ (copy[c][field] = value /\ \A d \in Calls \ {c} : pc[d] = "idle")
    PROVE  AllHave(field, value)'
<1>1. PICK a \in Ids : IsTheAccount(a)
    BY DEF OnlyAdministrator
<1>2. /\ pc[c] # "idle" /\ users'[a] = copy[c]
      /\ \A i \in Ids \ {a} : users'[i] = users[i]
      /\ pc'[c] = "idle"
      /\ \A d \in Calls \ {c} : pc'[d] = pc[d] /\ copy'[d] = copy[d]
    BY <1>1, WritesTheAccount
<1>3. copy[c][field] = value
    BY <1>2 DEF AllHave
<1>4. \A i \in Ids \ {a} : users[i] = None
    BY <1>1 DEF IsTheAccount
<1>5. \A d \in Calls : pc'[d] # "idle" => d # c /\ pc[d] # "idle" /\ copy'[d] = copy[d]
    BY <1>2
<1> QED
    BY <1>2, <1>3, <1>4, <1>5 DEF AllHave

\* and after a request that is given up.
LEMMA AbandonKeepsAllHave ==
    ASSUME P!Inv, NEW c \in Calls, Provider!Abandon(c)
    PROVE  /\ users' = users /\ born' = born /\ pc'[c] = "idle"
           /\ \A d \in Calls \ {c} : pc'[d] = pc[d] /\ copy'[d] = copy[d]
           /\ \A field, value : AllHave(field, value) => AllHave(field, value)'
<1>1. /\ users' = users /\ born' = born /\ pc' = [pc EXCEPT ![c] = "idle"]
      /\ copy' = [copy EXCEPT ![c] = None]
    BY DEF Provider!Abandon, Provider!EndRequest, Provider!OnlyReads, Provider!observed
<1>2. /\ pc'[c] = "idle"
      /\ \A d \in Calls \ {c} : pc'[d] = pc[d] /\ copy'[d] = copy[d]
    BY <1>1 DEF P!Inv, P!TypeOK
<1>3. \A d \in Calls : pc'[d] # "idle" => pc[d] # "idle" /\ copy'[d] = copy[d]
    BY <1>2
<1>4. \A field, value : AllHave(field, value) => AllHave(field, value)'
    BY <1>1, <1>3 DEF AllHave
<1> QED
    BY <1>1, <1>2, <1>4

\* A request that reads the account holds a copy that differs in one field.
LEMMA HoldsACopy ==
    ASSUME P!Inv, NEW c \in Calls, NEW i \in Ids, NEW u, NEW next,
           Provider!Holds(c, i, u, next), Provider!OnlyReads
    PROVE  /\ users' = users /\ born' = born /\ pc'[c] = next /\ copy'[c] = u
           /\ \A d \in Calls \ {c} : pc'[d] = pc[d] /\ copy'[d] = copy[d]
           /\ \A field, value : AllHave(field, value) /\ u[field] = value
                                 => AllHave(field, value)'
<1>1. /\ users' = users /\ born' = born /\ pc' = [pc EXCEPT ![c] = next]
      /\ copy' = [copy EXCEPT ![c] = u]
    BY DEF Provider!Holds, Provider!OnlyReads, Provider!observed
<1>2. /\ pc'[c] = next /\ copy'[c] = u
      /\ \A d \in Calls \ {c} : pc'[d] = pc[d] /\ copy'[d] = copy[d]
    BY <1>1 DEF P!Inv, P!TypeOK
<1>3. ASSUME NEW field, NEW value, AllHave(field, value), u[field] = value
      PROVE  AllHave(field, value)'
  <2>1. \A d \in Calls : pc'[d] # "idle" => copy'[d][field] = value
    <3> SUFFICES ASSUME NEW d \in Calls, pc'[d] # "idle"
                 PROVE  copy'[d][field] = value
        OBVIOUS
    <3>1. CASE d = c
        BY <1>2, <1>3, <3>1
    <3>2. CASE d # c
        BY <1>2, <1>3, <3>2 DEF AllHave
    <3> QED
        BY <3>1, <3>2
  <2>2. \A j \in Ids : users'[j] # None => users'[j][field] = value
      BY <1>1, <1>3 DEF AllHave
  <2> QED
      BY <2>1, <2>2 DEF AllHave
<1> QED
    BY <1>1, <1>2, <1>3

-------------------------------------------------------------------------------
(* The steps of the app, with the provider standing still. *)

\* What the app does with what was announced, and with the page.
LEMMA AppStepOnEdits ==
    ASSUME AppInv, AppStep
    PROVE  /\ \/ confirmed' = confirmed /\ (NoCall("password") => NoCall("password")')
              \/ confirmed' = None
              \/ \E c \in Calls :
                    PasswordAnswered(c) /\ calls[c].mounted /\ calls[c].alone
           /\ \/ saved' = saved /\ (NoCall("nickname") => NoCall("nickname")')
              \/ saved' = None
              \/ \E c \in Calls :
                    NicknameAnswered(c) /\ calls[c].mounted /\ calls[c].alone
           /\ \/ UNCHANGED <<gate, page>>
              \/ gate' # "main"
              \/ page'.loading \/ page'.error # "none"
              \/ \E c \in Calls : FetchAnswered(c) /\ calls[c].mounted
<1> DEFINE Confirms == \/ confirmed' = confirmed /\ (NoCall("password") => NoCall("password")')
                       \/ confirmed' = None
                       \/ \E c \in Calls :
                             PasswordAnswered(c) /\ calls[c].mounted /\ calls[c].alone
           Saves == \/ saved' = saved /\ (NoCall("nickname") => NoCall("nickname")')
                    \/ saved' = None
                    \/ \E c \in Calls :
                          NicknameAnswered(c) /\ calls[c].mounted /\ calls[c].alone
           Pages == \/ UNCHANGED <<gate, page>>
                    \/ gate' # "main"
                    \/ page'.loading \/ page'.error # "none"
                    \/ \E c \in Calls : FetchAnswered(c) /\ calls[c].mounted
<1>1. gate = "main" => page \in Page
    BY DEF AppInv, AppTypeOK, ScreensAreSound
<1>2. gate = "main" /\ page' = LoadingAgain => page'.loading
    BY <1>1 DEF LoadingAgain, Page
<1>3. ASSUME NEW c \in Calls, Start(c)
      PROVE  Confirms /\ Saves /\ Pages
  <2>1. gate' # "main" \/ page'.loading
      BY <1>3 DEF Start, ShowAccount, ShowLogin
  <2>2. UNCHANGED <<saved, confirmed>>
      BY <1>3 DEF Start, edits
  <2> QED
      BY <1>3, <2>1, <2>2, StartKeepsAppInv DEF Edits
<1>4. ASSUME NEW c \in Calls, NEW password \in Passwords, Submit(c, password)
      PROVE  Confirms /\ Saves /\ Pages
    BY <1>4, SubmitKeepsAppInv DEF Submit, edits, Edits
<1>5. ASSUME NEW c \in Calls, LoginAnswered(c)
      PROVE  Confirms /\ Saves /\ Pages
    BY <1>5, LoginAnsweredKeepsAppInv DEF LoginAnswered, edits
<1>6. ASSUME NEW c \in Calls, FetchAnswered(c)
      PROVE  Confirms /\ Saves /\ Pages
    BY <1>6, FetchAnsweredKeepsAppInv DEF FetchAnswered, edits
<1>7. ASSUME NEW c \in Calls, Retry(c)
      PROVE  Confirms /\ Saves /\ Pages
    BY <1>2, <1>7, RetryKeepsAppInv DEF Retry, Ready, edits, Edits
<1>8. ASSUME NEW c \in Calls, NEW nickname \in Nicks, SaveNickname(c, nickname)
      PROVE  Confirms /\ Saves /\ Pages
  <2>1. NoCall("password") => NoCall("password")'
      BY <1>8, SaveNicknameKeepsAppInv
  <2> QED
      BY <1>8, <2>1 DEF SaveNickname
<1>9. ASSUME NEW c \in Calls, NicknameAnswered(c)
      PROVE  Confirms /\ Saves /\ Pages
  <2>1. \A op \in Edits : NoCall(op) => NoCall(op)'
      BY <1>9, NicknameAnsweredKeepsAppInv
  <2>2. calls[c].mounted => gate = "main"
      BY <1>9, SoundCalls DEF NicknameAnswered, Waits, Free, IsSound
  <2>3. Pages
      BY <1>2, <1>9, <2>2 DEF NicknameAnswered
  <2>4. saved' = saved \/ (calls[c].mounted /\ calls[c].alone)
      BY <1>9 DEF NicknameAnswered
  <2>5. confirmed' = confirmed
      BY <1>9 DEF NicknameAnswered
  <2> QED
      BY <1>9, <2>1, <2>3, <2>4, <2>5 DEF Edits
<1>10. ASSUME NEW c \in Calls, NEW before \in Passwords, NEW after \in Passwords,
              SubmitPassword(c, before, after)
       PROVE  Confirms /\ Saves /\ Pages
  <2>1. NoCall("nickname") => NoCall("nickname")'
      BY <1>10, SubmitPasswordKeepsAppInv
  <2> QED
      BY <1>10, <2>1 DEF SubmitPassword
<1>11. ASSUME NEW c \in Calls, PasswordAnswered(c)
       PROVE  Confirms /\ Saves /\ Pages
    BY <1>11, PasswordAnsweredKeepsAppInv DEF PasswordAnswered
<1>12. ASSUME NEW c \in Calls, Fails(c) \/ Timeout(c)
       PROVE  Confirms /\ Saves /\ Pages
  <2>1. /\ UNCHANGED <<gate, saved, confirmed>> /\ ~Free(c) /\ calls[c].heard
        /\ page' = IF calls[c].op = "fetch" /\ calls[c].mounted THEN ErrorShown ELSE page
      BY <1>12 DEF Fails, Timeout, Shows, edits
  <2>2. calls[c].op = "fetch" /\ calls[c].mounted => gate = "main"
      BY <2>1, SoundCalls DEF Free, IsSound
  <2>3. page' = page \/ page'.error # "none"
      BY <1>1, <2>1, <2>2 DEF ErrorShown, Page
  <2>4. \A op : NoCall(op) => NoCall(op)'
      BY <1>12, FailsKeepsAppInv, TimeoutKeepsAppInv
  <2> QED
      BY <2>1, <2>3, <2>4
<1>13. ASSUME Logout
       PROVE  Confirms /\ Saves /\ Pages
    BY <1>13, LogoutKeepsAppInv DEF Logout, edits
<1>14. ASSUME LogoutDone
       PROVE  Confirms /\ Saves /\ Pages
  <2>1. UNCHANGED <<gate, page>> \/ gate' # "main"
      BY <1>14 DEF LogoutDone, ShowLogin
  <2> QED
      BY <1>14, <2>1, LogoutDoneKeepsAppInv DEF LogoutDone, Written, edits
<1>15. ASSUME LoginDone
       PROVE  Confirms /\ Saves /\ Pages
  <2>1. UNCHANGED <<gate, page>> \/ page'.loading
      BY <1>15 DEF LoginDone, ShowAccount
  <2> QED
      BY <1>15, <2>1, LoginDoneKeepsAppInv DEF LoginDone, Written, edits, Edits
<1>16. ASSUME Kill
       PROVE  Confirms /\ Saves /\ Pages
    BY <1>16, KillKeepsAppInv DEF Kill, edits
<1>17. ASSUME OpenDialog \/ CloseDialog \/ OpenPassword
       PROVE  Confirms /\ Saves /\ Pages
    BY <1>17, DialogKeepsAppInv DEF OpenDialog, CloseDialog, OpenPassword, edits
<1>18. ASSUME ClosePassword \/ PasswordGone
       PROVE  Confirms /\ Saves /\ Pages
    BY <1>18, ClosePasswordKeepsAppInv, PasswordGoneKeepsAppInv
       DEF ClosePassword, PasswordGone, edits
<1>19. ASSUME WriteFails
       PROVE  Confirms /\ Saves /\ Pages
    BY <1>19, WriteFailsKeepsAppInv DEF WriteFails, edits
<1> HIDE DEF Confirms, Saves, Pages
<1>20. Confirms /\ Saves /\ Pages
    BY <1>3, <1>4, <1>5, <1>6, <1>7, <1>8, <1>9, <1>10, <1>11, <1>12, <1>13, <1>14, <1>15,
       <1>16, <1>17, <1>18, <1>19 DEF AppStep
<1> QED
    BY <1>20 DEF Confirms, Saves, Pages

\* When the provider stands still, so does all that is said of it alone.
LEMMA SameServer ==
    ASSUME Inv, UNCHANGED server
    PROVE  /\ P!Inv' /\ OnlyAdministrator'
           /\ \A field, value : AllHave(field, value) => AllHave(field, value)'
<1>1. UNCHANGED <<clock, users, roles, pc, who, copy, actor, born, proved, granted>>
    BY DEF server
<1>2. P!Inv'
    BY <1>1, ProviderAssumptions, P!NextKeepsInv DEF Inv, P!vars, P!observed
<1>3. OnlyAdministrator'
    BY <1>1 DEF Inv, OnlyAdministrator, IsTheAccount
<1>4. \A field, value : AllHave(field, value) => AllHave(field, value)'
    BY <1>1 DEF AllHave
<1> QED
    BY <1>2, <1>3, <1>4

\* What a password or a nickname that was announced rests on: it was the only call.
LEMMA AnnouncedIsWritten ==
    ASSUME Inv, NEW c \in Calls, calls[c] # None, calls[c].at = "ok",
           calls[c].op \in Edits, calls[c].alone
    PROVE  /\ \A d \in Calls \ {c} : Free(d) \/ calls[d].op = "fetch"
           /\ calls[c].op = "nickname" /\ calls[c].mounted =>
                \A d \in Calls \ {c} : Free(d)
           /\ calls[c].op = "password" => AllHave("hash", P!Hashed(calls[c].text))
           /\ calls[c].op = "nickname" => AllHave("nickname", calls[c].text)
<1>1. AloneIsAlone /\ EditsAreDone
    BY DEF Inv, AppInv
<1> QED
    BY <1>1 DEF AloneIsAlone, EditsAreDone, Free

\* A step of the app keeps the whole invariant.
LEMMA ClientKeepsInv ==
    ASSUME Inv, Client
    PROVE  Inv'
<1>1. AppInv /\ AppStep /\ UNCHANGED server
    BY DEF Inv, Client
<1>2. AppInv' /\ Kept
    BY <1>1, AppStepKeepsAppInv
<1>3. /\ P!Inv' /\ OnlyAdministrator'
      /\ \A field, value : AllHave(field, value) => AllHave(field, value)'
    BY <1>1, SameServer
<1>4. /\ \/ confirmed' = confirmed /\ (NoCall("password") => NoCall("password")')
         \/ confirmed' = None
         \/ \E c \in Calls : PasswordAnswered(c) /\ calls[c].mounted /\ calls[c].alone
      /\ \/ saved' = saved /\ (NoCall("nickname") => NoCall("nickname")')
         \/ saved' = None
         \/ \E c \in Calls : NicknameAnswered(c) /\ calls[c].mounted /\ calls[c].alone
      /\ \/ UNCHANGED <<gate, page>>
         \/ gate' # "main"
         \/ page'.loading \/ page'.error # "none"
         \/ \E c \in Calls : FetchAnswered(c) /\ calls[c].mounted
    BY <1>1, AppStepOnEdits
<1>5. ServedIsAsked'
  <2>1. UNCHANGED <<pc, copy>>
      BY <1>1 DEF server
  <2>2. ASSUME NEW c \in Calls, pc[c] # "idle"
        PROVE  /\ calls'[c] # None /\ calls'[c].at = "sent"
               /\ calls'[c].op = calls[c].op /\ calls'[c].text = calls[c].text
    <3>1. calls[c] # None /\ calls[c].at = "sent" /\ calls[c].op \in Edits
        BY <2>2 DEF Inv, ServedIsAsked, Free, Edits
    <3> QED
        BY <1>2, <3>1 DEF Kept
  <2> QED
      BY <2>1, <2>2 DEF Inv, ServedIsAsked, Free
<1>6. EditsAreDone'
  <2> SUFFICES ASSUME NEW c \in Calls, calls'[c] # None, calls'[c].at = "ok", calls'[c].alone,
                      NEW text, text = calls'[c].text
               PROVE  /\ calls'[c].op = "password" => AllHave("hash", P!Hashed(text))'
                      /\ calls'[c].op = "nickname" => AllHave("nickname", text)'
      BY DEF EditsAreDone, Free, AllHave
  <2>1. /\ calls[c] # None /\ calls[c].at = "ok" /\ calls[c].alone
        /\ calls[c].op = calls'[c].op /\ calls[c].text = text
      BY <1>2 DEF Kept
  <2>2. /\ calls[c].op = "password" => AllHave("hash", P!Hashed(text))
        /\ calls[c].op = "nickname" => AllHave("nickname", text)
      BY <2>1 DEF Inv, EditsAreDone, Free
  <2> QED
      BY <1>3, <2>1, <2>2
<1>7. ConfirmedIsWritten'
  <2> SUFFICES ASSUME NEW text, text = confirmed', text # None
               PROVE  NoCall("password")' /\ AllHave("hash", P!Hashed(text))'
      BY DEF ConfirmedIsWritten, AllHave
  <2>1. CASE confirmed' = confirmed /\ (NoCall("password") => NoCall("password")')
    <3>1. NoCall("password") /\ AllHave("hash", P!Hashed(text))
        BY <2>1 DEF Inv, ConfirmedIsWritten
    <3> QED
        BY <1>3, <2>1, <3>1
  <2>2. ASSUME NEW c \in Calls, PasswordAnswered(c), calls[c].mounted, calls[c].alone
        PROVE  NoCall("password")' /\ AllHave("hash", P!Hashed(text))'
    <3>1. /\ calls[c] # None /\ calls[c].op = "password" /\ calls[c].at = "ok"
          /\ calls[c].text = text
          /\ calls'[c] = None /\ \A d \in Calls : Left(calls[d], calls'[d])
        BY <1>1, <2>2, PasswordAnsweredKeepsAppInv DEF PasswordAnswered, Waits, Free
    <3>2. /\ \A d \in Calls \ {c} : Free(d) \/ calls[d].op = "fetch"
          /\ AllHave("hash", P!Hashed(text))
        BY <2>2, <3>1, AnnouncedIsWritten DEF Edits
    <3>3. NoCall("password")'
        BY <3>1, <3>2 DEF Left, NoCall, Free
    <3> QED
        BY <1>3, <3>2, <3>3
  <2> QED
      BY <1>4, <2>1, <2>2
<1>8. SavedIsWritten'
  <2> SUFFICES ASSUME NEW text, text = saved', text # None
               PROVE  /\ NoCall("nickname")' /\ AllHave("nickname", text)'
                      /\ \A c \in Calls :
                           calls'[c] # None /\ calls'[c].op = "fetch" /\ calls'[c].at = "ok"
                             => calls'[c].info = [nickname |-> text]
      BY DEF SavedIsWritten, AllHave, Free
  <2>1. CASE saved' = saved /\ (NoCall("nickname") => NoCall("nickname")')
    <3>1. /\ NoCall("nickname") /\ AllHave("nickname", text)
          /\ \A c \in Calls :
               calls[c] # None /\ calls[c].op = "fetch" /\ calls[c].at = "ok"
                 => calls[c].info = [nickname |-> text]
        BY <2>1 DEF Inv, SavedIsWritten, Free
    <3>2. \A c \in Calls :
            calls'[c] # None /\ calls'[c].op = "fetch" /\ calls'[c].at = "ok"
              => calls'[c].info = [nickname |-> text]
        BY <1>2, <3>1 DEF Kept
    <3> QED
        BY <1>3, <2>1, <3>1, <3>2
  <2>2. ASSUME NEW c \in Calls, NicknameAnswered(c), calls[c].mounted, calls[c].alone
        PROVE  /\ NoCall("nickname")' /\ AllHave("nickname", text)'
               /\ \A d \in Calls : calls'[d] # None => calls'[d].at = "sent"
    <3>1. /\ calls[c] # None /\ calls[c].op = "nickname" /\ calls[c].at = "ok"
          /\ calls[c].text = text /\ calls' = [calls EXCEPT ![c] = Fetch]
        BY <2>2 DEF NicknameAnswered, Waits, Free
    <3>2. /\ \A d \in Calls \ {c} : Free(d)
          /\ AllHave("nickname", text)
        BY <2>2, <3>1, AnnouncedIsWritten DEF Edits
    <3>3. calls'[c] = Fetch /\ \A d \in Calls \ {c} : calls'[d] = None
        BY <1>1, <3>1, <3>2 DEF AppInv, AppTypeOK, Free
    <3>4. NoCall("nickname")'
        BY <3>3, FetchIsACall DEF NoCall, Free
    <3> QED
        BY <1>3, <3>2, <3>3, <3>4, FetchIsACall
  <2> QED
      BY <1>4, <2>1, <2>2
<1>9. SavedNicknameShows'
  <2> SUFFICES ASSUME gate' = "main", ~page'.loading, page'.error = "none", saved' # None
               PROVE  page'.info = [nickname |-> saved']
      BY DEF SavedNicknameShows
  <2>1. saved' = saved
    <3>1. ASSUME NEW c \in Calls, NicknameAnswered(c), calls[c].mounted
          PROVE  FALSE
      <4>1. page' = LoadingAgain /\ gate' = gate
          BY <3>1 DEF NicknameAnswered
      <4>2. page \in Page
          BY <1>1, <4>1 DEF AppInv, AppTypeOK, ScreensAreSound
      <4> QED
          BY <4>1, <4>2 DEF LoadingAgain, Page
    <3> QED
        BY <1>4, <3>1
  <2>2. CASE UNCHANGED <<gate, page>>
      BY <2>1, <2>2 DEF Inv, SavedNicknameShows
  <2>3. ASSUME NEW c \in Calls, FetchAnswered(c), calls[c].mounted
        PROVE  page'.info = [nickname |-> saved']
    <3>1. /\ gate' = gate /\ page' = [page EXCEPT !.info = calls[c].info, !.loading = FALSE]
          /\ calls[c] # None /\ calls[c].op = "fetch" /\ calls[c].at = "ok"
        BY <2>3 DEF FetchAnswered, Waits, Free
    <3>2. page \in Page
        BY <1>1, <3>1 DEF AppInv, AppTypeOK, ScreensAreSound
    <3>3. page'.info = calls[c].info
        BY <3>1, <3>2 DEF Page
    <3>4. calls[c].info = [nickname |-> saved]
        BY <2>1, <3>1 DEF Inv, SavedIsWritten, Free
    <3> QED
        BY <2>1, <3>3, <3>4
  <2> QED
      BY <1>4, <2>2, <2>3
<1> QED
    BY <1>2, <1>3, <1>5, <1>6, <1>7, <1>8, <1>9 DEF Inv

-------------------------------------------------------------------------------
(* The steps of the provider, with the app standing still but for an answer. *)

\* An answer to a call that changes nothing at the provider keeps the invariant.
LEMMA AnswerKeepsInv ==
    ASSUME Inv, NEW c \in Calls, calls[c] # None, calls[c].at = "sent", pc[c] = "idle",
           NEW at \in {"ok", "failed"}, NEW info \in Info \cup {None},
           Answers(c, at, info), UNCHANGED server,
           at = "ok" => calls[c].op \in {"login", "fetch"},
           at = "ok" /\ calls[c].op = "fetch" =>
               info # None /\ \E i \in Ids : /\ users[i] # None
                                            /\ info = [nickname |-> users[i].nickname]
    PROVE  Inv'
<1>1. AppInv
    BY DEF Inv
<1>2. /\ AppInv'
      /\ \A d \in Calls \ {c} : calls'[d] = calls[d]
      /\ calls'[c] # None =>
           /\ calls'[c].op = calls[c].op /\ calls'[c].text = calls[c].text
           /\ calls'[c].at = at /\ calls'[c].info = info
           /\ calls'[c].alone = calls[c].alone
      /\ \A op : NoCall(op) => NoCall(op)'
      /\ UNCHANGED <<gate, page, saved, confirmed>>
    BY <1>1, AnswersKeepsAppInv
<1>3. /\ P!Inv' /\ OnlyAdministrator'
      /\ \A field, value : AllHave(field, value) => AllHave(field, value)'
    BY SameServer
<1>4. UNCHANGED <<pc, copy>>
    BY DEF server
<1>5. ServedIsAsked'
    BY <1>2, <1>4 DEF Inv, ServedIsAsked, Free
<1>6. EditsAreDone'
  <2> SUFFICES ASSUME NEW d \in Calls, calls'[d] # None, calls'[d].at = "ok", calls'[d].alone,
                      NEW text, text = calls'[d].text, calls'[d].op \in Edits
               PROVE  /\ calls'[d].op = "password" => AllHave("hash", P!Hashed(text))'
                      /\ calls'[d].op = "nickname" => AllHave("nickname", text)'
      BY DEF EditsAreDone, Free, AllHave, Edits
  <2>1. d # c
      BY <1>2 DEF Edits
  <2>2. calls'[d] = calls[d]
      BY <1>2, <2>1
  <2>3. /\ calls[d].op = "password" => AllHave("hash", P!Hashed(text))
        /\ calls[d].op = "nickname" => AllHave("nickname", text)
      BY <2>2 DEF Inv, EditsAreDone, Free
  <2> QED
      BY <1>3, <2>2, <2>3
<1>7. ConfirmedIsWritten'
  <2> SUFFICES ASSUME NEW text, text = confirmed', text # None
               PROVE  NoCall("password")' /\ AllHave("hash", P!Hashed(text))'
      BY DEF ConfirmedIsWritten, AllHave
  <2>1. NoCall("password") /\ AllHave("hash", P!Hashed(text))
      BY <1>2 DEF Inv, ConfirmedIsWritten
  <2> QED
      BY <1>2, <1>3, <2>1
<1>8. SavedIsWritten'
  <2> SUFFICES ASSUME NEW text, text = saved', text # None
               PROVE  /\ NoCall("nickname")' /\ AllHave("nickname", text)'
                      /\ \A d \in Calls :
                           calls'[d] # None /\ calls'[d].op = "fetch" /\ calls'[d].at = "ok"
                             => calls'[d].info = [nickname |-> text]
      BY DEF SavedIsWritten, AllHave, Free
  <2>1. /\ NoCall("nickname") /\ AllHave("nickname", text)
        /\ \A d \in Calls :
             calls[d] # None /\ calls[d].op = "fetch" /\ calls[d].at = "ok"
               => calls[d].info = [nickname |-> text]
      BY <1>2 DEF Inv, SavedIsWritten, Free
  <2>2. ASSUME calls'[c] # None, calls'[c].op = "fetch", calls'[c].at = "ok"
        PROVE  calls'[c].info = [nickname |-> text]
    <3>1. PICK i \in Ids : users[i] # None /\ info = [nickname |-> users[i].nickname]
        BY <1>2, <2>2
    <3>2. users[i].nickname = text
        BY <2>1, <3>1 DEF AllHave
    <3> QED
        BY <1>2, <2>2, <3>1, <3>2
  <2> QED
      BY <1>2, <1>3, <2>1, <2>2
<1>9. SavedNicknameShows'
    BY <1>2 DEF Inv, SavedNicknameShows
<1> QED
    BY <1>2, <1>3, <1>5, <1>6, <1>7, <1>8, <1>9 DEF Inv

\* So does beginning to serve an edit.
LEMMA ServingKeepsInv ==
    ASSUME Inv, NEW c \in Calls, NEW i \in Ids, UNCHANGED app,
           ServeNickname(c, i) \/ ServePassword(c, i)
    PROVE  Inv'
<1>1. /\ calls[c] # None /\ calls[c].at = "sent" /\ pc[c] = "idle"
    BY DEF ServeNickname, ServePassword, Arrived, Free
<1>2. AppInv' /\ UNCHANGED <<gate, page, calls, saved, confirmed>>
    BY SameApp DEF Inv, app, edits
<1>3. IsSound(calls[c])
    BY <1>1, SoundCalls DEF Inv
<1>4. P!Inv /\ P!Inv'
  <2>1. CASE ServeNickname(c, i)
    <3>1. Provider!UpdateUserInfo(c, i, calls[c].text) /\ calls[c].text \in Nicks
        BY <1>3, <2>1 DEF ServeNickname, Arrived, IsSound
    <3> QED
        BY <3>1, ProviderSteps DEF Inv
  <2>2. CASE ServePassword(c, i)
    <3>1. /\ Provider!ChangePassword(c, i, calls[c].before, calls[c].text)
          /\ calls[c].before \in Passwords /\ calls[c].text \in Passwords
        BY <1>3, <2>2 DEF ServePassword, Arrived, IsSound
    <3> QED
        BY <3>1, ProviderSteps DEF Inv
  <2> QED
      BY <2>1, <2>2
<1> DEFINE u == IF calls[c].op = "nickname"
                THEN [users[i] EXCEPT !.nickname = calls[c].text]
                ELSE [users[i] EXCEPT !.hash = P!Hashed(calls[c].text)]
           next == IF calls[c].op = "nickname" THEN "profileWrite" ELSE "write"
<1>5. /\ Provider!Holds(c, i, u, next) /\ Provider!OnlyReads
      /\ calls[c].op \in Edits /\ i \in Provider!Existing
    BY DEF ServeNickname, ServePassword, Arrived, Provider!UpdateUserInfo,
           Provider!ChangePassword, Provider!Rehashed, Provider!Hashed, P!Hashed, Edits
<1>6. users[i] \in P!User /\ users[i] # None
    BY <1>4, <1>5 DEF P!Inv, P!TypeOK, Provider!Existing, Provider!Rows
<1>7. /\ calls[c].op = "nickname" =>
           u.nickname = calls[c].text /\ u.hash = users[i].hash
      /\ calls[c].op = "password" =>
           u.hash = P!Hashed(calls[c].text) /\ u.nickname = users[i].nickname
    BY <1>6 DEF P!User
<1>8. next \in {"write", "profileWrite"}
    OBVIOUS
<1> HIDE DEF u
<1>9. /\ users' = users /\ born' = born /\ pc'[c] = next /\ copy'[c] = u
      /\ \A d \in Calls \ {c} : pc'[d] = pc[d] /\ copy'[d] = copy[d]
      /\ \A field, value : AllHave(field, value) /\ u[field] = value
                            => AllHave(field, value)'
    BY <1>4, <1>5, HoldsACopy
<1>10. OnlyAdministrator'
    BY <1>9 DEF Inv, OnlyAdministrator, IsTheAccount
<1>11. ServedIsAsked'
  <2> SUFFICES ASSUME NEW d \in Calls
               PROVE  /\ pc'[d] \in {"idle", "write", "profileWrite"}
                      /\ pc'[d] # "idle" => calls[d] # None /\ calls[d].at = "sent"
                      /\ pc'[d] = "write" =>
                           calls[d].op = "password" /\ copy'[d].hash = P!Hashed(calls[d].text)
                      /\ pc'[d] = "profileWrite" =>
                           calls[d].op = "nickname" /\ copy'[d].nickname = calls[d].text
      BY <1>2 DEF ServedIsAsked, Free
  <2>1. CASE d = c
      BY <1>1, <1>5, <1>7, <1>9, <2>1 DEF Edits
  <2>2. CASE d # c
      BY <1>9, <2>2 DEF Inv, ServedIsAsked, Free
  <2> QED
      BY <2>1, <2>2
<1>12. ASSUME NEW value, AllHave("hash", value), calls[c].op = "nickname"
       PROVE  AllHave("hash", value)'
  <2>1. u.hash = value
      BY <1>6, <1>7, <1>12 DEF AllHave
  <2> QED
      BY <1>9, <1>12, <2>1
<1>13. ASSUME NEW value, AllHave("nickname", value), calls[c].op = "password"
       PROVE  AllHave("nickname", value)'
  <2>1. u.nickname = value
      BY <1>6, <1>7, <1>13 DEF AllHave
  <2> QED
      BY <1>9, <1>13, <2>1
<1>14. EditsAreDone'
  <2> SUFFICES ASSUME NEW d \in Calls, calls[d] # None, calls[d].at = "ok", calls[d].alone,
                      NEW text, text = calls[d].text, calls[d].op \in Edits
               PROVE  /\ calls[d].op = "password" => AllHave("hash", P!Hashed(text))'
                      /\ calls[d].op = "nickname" => AllHave("nickname", text)'
      BY <1>2 DEF EditsAreDone, Free, AllHave, Edits
  <2>1. d # c
      BY <1>1
  <2>2. Free(c) \/ calls[c].op = "fetch"
      BY <2>1, AnnouncedIsWritten
  <2> QED
      BY <1>1, <1>5, <2>2 DEF Free, Edits
<1>15. ConfirmedIsWritten'
  <2> SUFFICES ASSUME NEW text, text = confirmed, text # None
               PROVE  NoCall("password")' /\ AllHave("hash", P!Hashed(text))'
      BY <1>2 DEF ConfirmedIsWritten, AllHave
  <2>1. NoCall("password") /\ AllHave("hash", P!Hashed(text))
      BY DEF Inv, ConfirmedIsWritten
  <2>2. calls[c].op = "nickname"
      BY <1>1, <1>5, <2>1 DEF NoCall, Free, Edits
  <2> QED
      BY <1>2, <1>12, <2>1, <2>2 DEF NoCall, Free
<1>16. SavedIsWritten'
  <2> SUFFICES ASSUME NEW text, text = saved, text # None
               PROVE  /\ NoCall("nickname") /\ AllHave("nickname", text)'
                      /\ \A d \in Calls :
                           calls[d] # None /\ calls[d].op = "fetch" /\ calls[d].at = "ok"
                             => calls[d].info = [nickname |-> text]
      BY <1>2 DEF SavedIsWritten, AllHave, Free, NoCall
  <2>1. /\ NoCall("nickname") /\ AllHave("nickname", text)
        /\ \A d \in Calls :
             calls[d] # None /\ calls[d].op = "fetch" /\ calls[d].at = "ok"
               => calls[d].info = [nickname |-> text]
      BY DEF Inv, SavedIsWritten, Free
  <2>2. calls[c].op = "password"
      BY <1>1, <1>5, <2>1 DEF NoCall, Free, Edits
  <2> QED
      BY <1>13, <2>1, <2>2
<1>17. SavedNicknameShows'
    BY <1>2 DEF Inv, SavedNicknameShows
<1> QED
    BY <1>2, <1>4, <1>10, <1>11, <1>14, <1>15, <1>16, <1>17 DEF Inv

\* So does the end of an edit: its write, or its being given up, with the answer.
LEMMA EndingKeepsInv ==
    ASSUME Inv, NEW c \in Calls, NEW at \in {"ok", "failed"}, Answers(c, at, None),
           \/ Provider!ProfileWrite(c) \/ Provider!WriteBack(c)
           \/ Provider!Abandon(c) /\ at = "failed"
    PROVE  Inv'
<1>1. pc[c] # "idle"
    BY DEF Provider!ProfileWrite, Provider!WriteBack, Provider!WritesBack, Provider!Abandon
<1>2. /\ pc[c] \in {"write", "profileWrite"} /\ calls[c] # None /\ calls[c].at = "sent"
      /\ pc[c] = "write" => calls[c].op = "password" /\ copy[c].hash = P!Hashed(calls[c].text)
      /\ pc[c] = "profileWrite" =>
           calls[c].op = "nickname" /\ copy[c].nickname = calls[c].text
    BY <1>1 DEF Inv, ServedIsAsked, Free
<1>3. /\ AppInv'
      /\ \A d \in Calls \ {c} : calls'[d] = calls[d]
      /\ calls'[c] # None =>
           /\ calls'[c].op = calls[c].op /\ calls'[c].text = calls[c].text
           /\ calls'[c].at = at /\ calls'[c].info = None
           /\ calls'[c].alone = calls[c].alone
      /\ \A op : NoCall(op) => NoCall(op)'
      /\ UNCHANGED <<gate, page, saved, confirmed>>
    BY <1>2, AnswersKeepsAppInv DEF Inv
<1>4. P!Inv /\ P!Inv'
    BY ProviderSteps DEF Inv
<1>5. PICK a \in Ids : IsTheAccount(a)
    BY DEF Inv, OnlyAdministrator
<1>6. /\ pc'[c] = "idle"
      /\ \A d \in Calls \ {c} : pc'[d] = pc[d] /\ copy'[d] = copy[d]
      /\ OnlyAdministrator'
  <2>1. CASE Provider!Abandon(c)
      BY <1>4, <1>5, <2>1, AbandonKeepsAllHave DEF OnlyAdministrator, IsTheAccount
  <2>2. CASE Provider!ProfileWrite(c) \/ Provider!WriteBack(c)
      BY <1>4, <1>5, <2>2, WritesTheAccount DEF OnlyAdministrator
  <2> QED
      BY <2>1, <2>2
<1>7. ASSUME NEW field, NEW value, AllHave(field, value)
      PROVE  AllHave(field, value)'
  <2>1. CASE Provider!Abandon(c)
      BY <1>4, <1>7, <2>1, AbandonKeepsAllHave
  <2>2. CASE Provider!ProfileWrite(c) \/ Provider!WriteBack(c)
      BY <1>4, <1>7, <2>2, WriteKeepsAllHave DEF Inv
  <2> QED
      BY <2>1, <2>2
<1>8. ServedIsAsked'
  <2> SUFFICES ASSUME NEW d \in Calls
               PROVE  /\ pc'[d] \in {"idle", "write", "profileWrite"}
                      /\ pc'[d] # "idle" => calls'[d] # None /\ calls'[d].at = "sent"
                      /\ pc'[d] = "write" =>
                           calls'[d].op = "password" /\ copy'[d].hash = P!Hashed(calls'[d].text)
                      /\ pc'[d] = "profileWrite" =>
                           calls'[d].op = "nickname" /\ copy'[d].nickname = calls'[d].text
      BY DEF ServedIsAsked, Free
  <2>1. CASE d = c
      BY <1>6, <2>1
  <2>2. CASE d # c
      BY <1>3, <1>6, <2>2 DEF Inv, ServedIsAsked, Free
  <2> QED
      BY <2>1, <2>2
<1>9. EditsAreDone'
  <2> SUFFICES ASSUME NEW d \in Calls, calls'[d] # None, calls'[d].at = "ok", calls'[d].alone,
                      NEW text, text = calls'[d].text, calls'[d].op \in Edits
               PROVE  /\ calls'[d].op = "password" => AllHave("hash", P!Hashed(text))'
                      /\ calls'[d].op = "nickname" => AllHave("nickname", text)'
      BY DEF EditsAreDone, Free, AllHave, Edits
  <2>1. CASE d # c
    <3>1. calls'[d] = calls[d]
        BY <1>3, <2>1
    <3>2. /\ calls[d].op = "password" => AllHave("hash", P!Hashed(text))
          /\ calls[d].op = "nickname" => AllHave("nickname", text)
        BY <3>1 DEF Inv, EditsAreDone, Free
    <3> QED
        BY <1>7, <3>1, <3>2
  <2>2. CASE d = c
    <3>1. /\ at = "ok" /\ calls[c].alone /\ calls[c].text = text
          /\ calls'[c].op = calls[c].op /\ calls[c].op \in Edits
        BY <1>3, <2>2
    <3>2. Provider!ProfileWrite(c) \/ Provider!WriteBack(c)
        BY <3>1
    <3>3. \A e \in Calls \ {c} : Free(e) \/ calls[e].op = "fetch"
        BY <1>2, <3>1 DEF Inv, AppInv, AloneIsAlone, Free
    <3>4. \A e \in Calls \ {c} : pc[e] = "idle"
        BY <3>3 DEF Inv, ServedIsAsked
    <3>5. ASSUME calls[c].op = "password"
          PROVE  AllHave("hash", P!Hashed(text))'
      <4>1. copy[c]["hash"] = P!Hashed(text)
          BY <1>2, <3>1, <3>5
      <4> QED
          BY <1>4, <3>2, <3>4, <4>1, WriteKeepsAllHave DEF Inv
    <3>6. ASSUME calls[c].op = "nickname"
          PROVE  AllHave("nickname", text)'
      <4>1. copy[c]["nickname"] = text
          BY <1>2, <3>1, <3>6
      <4> QED
          BY <1>4, <3>2, <3>4, <4>1, WriteKeepsAllHave DEF Inv
    <3> QED
        BY <2>2, <3>1, <3>5, <3>6
  <2> QED
      BY <2>1, <2>2
<1>10. ConfirmedIsWritten'
  <2> SUFFICES ASSUME NEW text, text = confirmed', text # None
               PROVE  NoCall("password")' /\ AllHave("hash", P!Hashed(text))'
      BY DEF ConfirmedIsWritten, AllHave
  <2>1. NoCall("password") /\ AllHave("hash", P!Hashed(text))
      BY <1>3 DEF Inv, ConfirmedIsWritten
  <2> QED
      BY <1>3, <1>7, <2>1
<1>11. SavedIsWritten'
  <2> SUFFICES ASSUME NEW text, text = saved', text # None
               PROVE  /\ NoCall("nickname")' /\ AllHave("nickname", text)'
                      /\ \A d \in Calls :
                           calls'[d] # None /\ calls'[d].op = "fetch" /\ calls'[d].at = "ok"
                             => calls'[d].info = [nickname |-> text]
      BY DEF SavedIsWritten, AllHave, Free
  <2>1. /\ NoCall("nickname") /\ AllHave("nickname", text)
        /\ \A d \in Calls :
             calls[d] # None /\ calls[d].op = "fetch" /\ calls[d].at = "ok"
               => calls[d].info = [nickname |-> text]
      BY <1>3 DEF Inv, SavedIsWritten, Free
  <2>2. calls'[c] # None => calls'[c].op # "fetch"
      BY <1>2, <1>3
  <2> QED
      BY <1>3, <1>7, <2>1, <2>2
<1>12. SavedNicknameShows'
    BY <1>3 DEF Inv, SavedNicknameShows
<1> QED
    BY <1>3, <1>4, <1>6, <1>8, <1>9, <1>10, <1>11, <1>12 DEF Inv

\* Every step of the provider keeps the invariant.
LEMMA ServeKeepsInv ==
    ASSUME Inv, NEW c \in Calls, Serve(c)
    PROVE  Inv'
<1>1. CASE ServeLogin(c)
  <2>1. /\ calls[c] # None /\ calls[c].op = "login" /\ calls[c].at = "sent" /\ pc[c] = "idle"
        /\ UNCHANGED server
      BY <1>1 DEF ServeLogin, Arrived, Free
  <2>2. PICK at \in {"ok", "failed"} : Answers(c, at, None)
      BY <1>1 DEF ServeLogin
  <2> QED
      BY <2>1, <2>2, AnswerKeepsInv
<1>2. ASSUME NEW i \in Ids, ServeFetch(c, i)
      PROVE  Inv'
  <2> DEFINE info == [nickname |-> users[i].nickname]
  <2>1. /\ calls[c] # None /\ calls[c].op = "fetch" /\ calls[c].at = "sent" /\ pc[c] = "idle"
        /\ UNCHANGED server /\ users[i] # None /\ Answers(c, "ok", info)
      BY <1>2 DEF ServeFetch, Arrived, Free, Provider!Has
  <2>2. users[i] \in P!User
      BY <2>1 DEF Inv, P!Inv, P!TypeOK
  <2>3. info \in Info
      BY <2>2 DEF P!User, Info
  <2>4. info # None
      BY <2>3, NoneIsNoCall
  <2>5. \E j \in Ids : users[j] # None /\ info = [nickname |-> users[j].nickname]
      BY <2>1
  <2> HIDE DEF info
  <2> QED
      BY <2>1, <2>3, <2>4, <2>5, AnswerKeepsInv
<1>3. ASSUME NEW i \in Ids, ServeNickname(c, i) \/ ServePassword(c, i)
      PROVE  Inv'
    BY <1>3, ServingKeepsInv DEF ServeNickname, ServePassword
<1>4. ASSUME NEW i \in Ids, WrongPassword(c, i)
      PROVE  Inv'
  <2>1. /\ calls[c] # None /\ calls[c].at = "sent" /\ pc[c] = "idle"
        /\ UNCHANGED server /\ Answers(c, "failed", None)
      BY <1>4 DEF WrongPassword, Arrived, Free
  <2> QED
      BY <2>1, AnswerKeepsInv
<1>5. CASE NicknameSaved(c) \/ PasswordSaved(c)
    BY <1>5, EndingKeepsInv DEF NicknameSaved, PasswordSaved
<1>6. CASE ServeFails(c)
  <2>1. calls[c] # None /\ calls[c].at = "sent" /\ Answers(c, "failed", None)
      BY <1>6 DEF ServeFails, Free
  <2>2. CASE pc[c] = "idle" /\ UNCHANGED server
      BY <2>1, <2>2, AnswerKeepsInv
  <2>3. CASE Provider!Abandon(c) \/ Provider!ProfileWrite(c) \/ Provider!WriteBack(c)
      BY <2>1, <2>3, EndingKeepsInv
  <2> QED
      BY <1>6, <2>2, <2>3 DEF ServeFails
<1> QED
    BY <1>1, <1>2, <1>3, <1>4, <1>5, <1>6 DEF Serve

\* The invariant holds initially.
LEMMA InitInv == Init => Inv
<1> SUFFICES ASSUME Init
             PROVE  Inv
    OBVIOUS
<1>1. AppInit /\ Provider!Init
    BY DEF Init
<1>2. P!Init
    BY <1>1 DEF Provider!Init, Provider!Idle, Provider!Empty, Provider!Created,
       Provider!Administrator, Provider!NewUser, Provider!IdentityOf,
       P!Init, P!Idle, P!Empty, P!Created, P!Administrator, P!NewUser, P!IdentityOf
<1>3. P!Inv
    BY <1>2, ProviderAssumptions, P!InitInv
<1>4. AppInv
    BY <1>1, AppInitInv
<1>5. /\ \A c \in Calls : Free(c) /\ pc[c] = "idle"
      /\ saved = None /\ confirmed = None
    BY <1>1 DEF AppInit, Free, Provider!Init, Provider!Idle
<1>6. OnlyAdministrator
  <2>1. PICK i \in Ids, hash \in [scheme : {"argon2id"}, of : Passwords] :
          /\ users = P!Created(P!Empty, i, P!Administrator(hash))
          /\ born = P!Created(P!Empty, i, P!IdentityOf(P!Administrator(hash)))
      BY <1>2 DEF P!Init
  <2> DEFINE u == P!Administrator(hash)
             id == P!IdentityOf(u)
  <2>2. u \in P!User
    <3>1. clock \in Nat /\ hash \in P!Hash
        BY <1>3 DEF P!Inv, P!TypeOK, P!Hash
    <3> QED
        BY <3>1 DEF P!Administrator, P!NewUser, P!User, P!Texts
  <2>3. u # None /\ id # None
      BY <2>2, ProviderAssumptions, P!UserFields
  <2>4. id.username = AdminName
      BY DEF P!Administrator, P!NewUser, P!IdentityOf
  <2>5. /\ users = [[j \in Ids |-> None] EXCEPT ![i] = u]
        /\ born = [[j \in Ids |-> None] EXCEPT ![i] = id]
      BY <2>1 DEF P!Created, P!Empty
  <2> HIDE DEF u, id
  <2>6. /\ users[i] = u /\ born[i] = id
        /\ \A j \in Ids \ {i} : users[j] = None /\ born[j] = None
      BY <2>5
  <2>7. IsTheAccount(i)
      BY <2>3, <2>4, <2>6 DEF IsTheAccount
  <2> QED
      BY <2>7 DEF OnlyAdministrator
<1>7. ServedIsAsked /\ EditsAreDone
    BY <1>5 DEF ServedIsAsked, EditsAreDone
<1>8. ConfirmedIsWritten /\ SavedIsWritten /\ SavedNicknameShows
    BY <1>5 DEF ConfirmedIsWritten, SavedIsWritten, SavedNicknameShows
<1> QED
    BY <1>3, <1>4, <1>6, <1>7, <1>8 DEF Inv

-------------------------------------------------------------------------------
(* The theorems. *)

\* The invariant holds in every behaviour.
THEOREM Invariance == Spec => []Inv
<1>1. Inv /\ [Next]_vars => Inv'
  <2> SUFFICES ASSUME Inv, [Next]_vars
               PROVE  Inv'
      OBVIOUS
  <2>1. CASE Client
      BY <2>1, ClientKeepsInv
  <2>2. ASSUME NEW c \in Calls, Serve(c)
        PROVE  Inv'
      BY <2>2, ServeKeepsInv
  <2>3. CASE UNCHANGED vars
    <3>1. UNCHANGED app /\ UNCHANGED server
        BY <2>3 DEF vars
    <3>2. UNCHANGED <<gate, page, calls, saved, confirmed, users, pc, copy>>
        BY <3>1 DEF app, server, edits
    <3>3. AppInv'
        BY <3>1, SameApp DEF Inv
    <3>4. P!Inv' /\ OnlyAdministrator'
        BY <3>1, SameServer
    <3>5. /\ ServedIsAsked' /\ EditsAreDone' /\ ConfirmedIsWritten' /\ SavedIsWritten'
          /\ SavedNicknameShows'
        BY <3>2 DEF Inv, ServedIsAsked, EditsAreDone, ConfirmedIsWritten, SavedIsWritten,
           SavedNicknameShows, NoCall, AllHave, Free
    <3> QED
        BY <3>3, <3>4, <3>5 DEF Inv
  <2> QED
      BY <2>1, <2>2, <2>3 DEF Next
<1> QED
    BY <1>1, InitInv, PTL DEF Spec

\* Every variable of the app and of the provider has its type.
THEOREM TypeCorrect == Spec => []TypeOK
<1>1. Inv => TypeOK
    BY DEF Inv, AppInv, TypeOK, P!Inv, P!TypeOK, P!User, P!Hash, P!Identity, P!Texts,
       Provider!TypeOK, Provider!User, Provider!Hash, Provider!Identity, Provider!Texts
<1> QED
    BY <1>1, Invariance, PTL

\* However logins, logouts, failing writes and restarts overlap, the account page is
\* shown if and only if the device keeps a token (main.dart).
THEOREM GateTellsTheTruth == Spec => []GateFollowsStore
<1>1. Inv => GateFollowsStore
    BY DEF Inv, AppInv
<1> QED
    BY <1>1, Invariance, PTL

\* Nothing that comes late brings the account page back after a logout that is done.
THEOREM LogoutLasts == Spec => []LogoutHolds
<1>1. Inv => LogoutHolds
    BY DEF Inv, AppInv, OutEverywhere, LogoutHolds
<1> QED
    BY <1>1, Invariance, PTL

\* The "_info!" of the account page's build never fails, however loads overlap.
THEOREM PageNeverLacksInfo == Spec => []PageHasInfo
<1>1. Inv => PageHasInfo
    BY DEF Inv, AppInv
<1> QED
    BY <1>1, Invariance, PTL

\* A nickname that was announced is what the page shows.
THEOREM NicknameLasts == Spec => []SavedNicknameShows
<1>1. Inv => SavedNicknameShows
    BY DEF Inv
<1> QED
    BY <1>1, Invariance, PTL

\* A password that was announced signs in, and no other does.
THEOREM PasswordLasts == Spec => []ConfirmedPasswordHolds
<1>1. Inv => ConfirmedPasswordHolds
  <2> SUFFICES ASSUME Inv, confirmed # None, NEW password \in Passwords
               PROVE  (\E i \in Ids : Provider!SignsIn(AdminName, password, i))
                        <=> password = confirmed
      BY DEF ConfirmedPasswordHolds
  <2>1. PICK a \in Ids : IsTheAccount(a)
      BY DEF Inv, OnlyAdministrator
  <2>2. users[a] # None /\ users[a].hash = P!Hashed(confirmed)
      BY <2>1 DEF Inv, ConfirmedIsWritten, AllHave, IsTheAccount
  <2>3. users[a].username = AdminName
    <3>1. a \in P!Existing
        BY <2>2 DEF P!Existing, P!Rows
    <3>2. P!IdentityOf(users[a]) = born[a]
        BY <3>1 DEF Inv, P!Inv, P!AccountsStayThemselves
    <3> QED
        BY <2>1, <3>2 DEF IsTheAccount, P!IdentityOf
  <2>4. AdminName # None
      BY ProviderParameters
  <2>5. Provider!ByLogin(AdminName) = {a}
      BY <2>1, <2>2, <2>3, <2>4
         DEF Provider!ByLogin, Provider!Existing, Provider!Rows, Provider!Logins, IsTheAccount
  <2>6. \A i \in Ids : Provider!First(i, Provider!ByLogin(AdminName)) <=> i = a
      BY <2>5 DEF Provider!First, Provider!IsFirst
  <2>7. P!Hashed(confirmed) = Provider!Hashed(password) <=> password = confirmed
      BY DEF P!Hashed, Provider!Hashed
  <2> QED
      BY <2>1, <2>2, <2>6, <2>7 DEF Provider!SignsIn, Provider!Verified
<1> QED
    BY <1>1, Invariance, PTL

===============================================================================
