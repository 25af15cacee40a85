---------------------------- MODULE ConnectFlow ----------------------------
(***************************************************************************)
(* The connect flow.  An app of the node (demo/src/main.rs) sends the user *)
(* to whoiam with a challenge; whoiam (ConnectView in ui/src/views.rs)     *)
(* signs a proof with the persona the user picks (common/src/connect.rs)   *)
(* and sends the user back; the app checks the proof and shows the persona *)
(* as its contract has it.  What passes between the two are URLs: they stay*)
(* in the browser's history and can be opened again, late, or at another   *)
(* app.                                                                    *)
(***************************************************************************)
EXTENDS IdentityState

CONSTANTS
    Apps,          \* the origin and path of the apps of the node
    Personas,      \* the keys of the personas listed in whoiam
    MaxProofAge,   \* PROOF_MAX_AGE_MS
    MaxTime,       \* bound on the clock
    MaxChallenges, \* bound on the challenges drawn
    MaxAnswers,    \* bound on the clicks on a persona and on the callbacks
    Foreign,       \* malformed connect URLs from elsewhere
    Writings,      \* the updates the owners publish
    MaxStates      \* bound on the states of one contract

ASSUME FlowAssumption ==
    /\ MaxProofAge \in Nat /\ MaxTime \in Nat /\ MaxChallenges \in Nat
    /\ Personas \subseteq Keys /\ Writings \subseteq IdentityStateV1
    /\ \A r \in Foreign : r.challenge = 0 \/ ~ r.plain

VARIABLES
    now,        \* the clock of the browser and of the hosts
    published,  \* published[k]: the states the contract of key k went through
    requests,   \* connect URLs that exist
    callbacks,  \* callback URLs that exist
    picker,     \* whoiam: the request it shows, whether it was answered
    approved,   \* every click on a persona
    page        \* the page of the app

contracts == <<now, published>>
vars == <<contracts, requests, callbacks, picker, approved, page>>

-----------------------------------------------------------------------------
(* The proof.                                                              *)

ConnectMessage(pk, base, challenge, time) ==
    [domain |-> "whoiam-connect-v1", pk |-> pk, base |-> base,
     challenge |-> challenge, time |-> time]

SignConnect(sk, base, challenge, time) ==
    Sign(sk, ConnectMessage(sk, base, challenge, time))

\* Mutation: the proof is checked for the app it names itself.
CheckConnectAnyApp(pk, base, challenge, time, sig) ==
    \E b \in Apps : Verify(pk, ConnectMessage(pk, b, challenge, time), sig)

CheckConnect(pk, base, challenge, time, sig) ==
    Verify(pk, ConnectMessage(pk, base, challenge, time), sig)

\* Challenges are drawn at random: no two are the same.  0 is one whoiam does
\* not accept.
Challenges == 0..MaxChallenges

\* Mutation: any challenge will do.
ValidChallengeAny(c) == TRUE

ValidChallenge(c) == c # 0

\* A connect URL names the app to return to.
Requests == [return : Apps, plain : BOOLEAN, challenge : Challenges]

DeniedUrl(app) == [at |-> app, whoiam |-> "denied"]

OkUrl(app, pk, challenge, time) ==
    [at |-> app, whoiam |-> "ok", pk |-> pk, challenge |-> challenge, ts |-> time,
     sig |-> SignConnect(pk, app, challenge, time)]

-----------------------------------------------------------------------------
(* Types.                                                                  *)

Approvals == [pk : Personas, app : Apps, challenge : Challenges, time : 0..MaxTime]

Callbacks ==
    {DeniedUrl(app) : app \in Apps}
    \cup {OkUrl(a.app, a.pk, a.challenge, a.time) : a \in Approvals}

\* state and failed: PROFILE and FETCH_ERROR.  boot and url: when and with
\* what the page was loaded.
Blank == [mode |-> "landing", at |-> None, pk |-> None, url |-> None, boot |-> 0,
          socket |-> "off", state |-> None, failed |-> FALSE]

Page ==
    [mode : {"landing", "denied", "failed", "verified"}, at : Apps \cup {None},
     pk : Personas \cup {None}, url : Callbacks \cup {None}, boot : 0..MaxTime,
     socket : {"off", "opening", "open", "ended"},
     state : IdentityStateV1 \cup {None}, failed : BOOLEAN]

TypeOK ==
    /\ now \in 0..MaxTime
    /\ \A k \in Keys : published[k] \subseteq IdentityStateV1
    /\ requests \subseteq Requests
    /\ callbacks \subseteq Callbacks
    /\ picker \in [request : Requests \cup {None}, sent : BOOLEAN]
    /\ approved \subseteq Approvals
    /\ page \in Page

Init ==
    /\ now = 0
    /\ published = [k \in Keys |-> {EmptyState}]
    /\ requests = {} /\ callbacks = {} /\ approved = {}
    /\ picker = [request |-> None, sent |-> FALSE]
    /\ page = Blank

-----------------------------------------------------------------------------
(* The app: the way out.                                                   *)

\* decide_mode without a callback in the URL.
OpenApp(app) ==
    /\ page' = [Blank EXCEPT !.at = app]
    /\ UNCHANGED <<contracts, requests, callbacks, picker, approved>>

\* start_connect, with a fresh challenge; the page is left or stays behind.
StartConnect ==
    /\ page.mode = "landing" /\ page.at # None
    /\ \E c \in Challenges \ {0} :
          /\ c = Cardinality(requests) + 1
          /\ requests' = requests \cup {[return |-> page.at, plain |-> TRUE,
                                          challenge |-> c]}
    /\ UNCHANGED <<contracts, callbacks, picker, approved, page>>

-----------------------------------------------------------------------------
(* whoiam.                                                                 *)

\* connect_request_from_location: whoiam is loaded with a connect URL.  It
\* ignores a malformed one: a challenge that is refused, or a return URL that is
\* no plain http one.
OpenWhoiam(r) ==
    /\ picker' = [request |-> IF ValidChallenge(r.challenge) /\ r.plain
                              THEN r ELSE None,
                  sent |-> FALSE]
    /\ UNCHANGED <<contracts, requests, callbacks, approved, page>>

\* Leaving fails when a popup is blocked: there is no URL, and the picker stays.
LeaveTo(url) ==
    \/ Cardinality(callbacks) < MaxAnswers
       /\ callbacks' = callbacks \cup {url} /\ picker' = [picker EXCEPT !.sent = TRUE]
    \/ UNCHANGED <<callbacks, picker>>

Asking == picker.request # None /\ ~ picker.sent

\* connect_ok_url: the click is the consent, and is dated.
Approve(pk) ==
    /\ Asking /\ Cardinality(approved) < MaxAnswers
    /\ LET r == picker.request
       IN  /\ LeaveTo(OkUrl(r.return, pk, r.challenge, now))
           /\ approved' = approved \cup {[pk |-> pk, app |-> r.return,
                                          challenge |-> r.challenge, time |-> now]}
    /\ UNCHANGED <<contracts, requests, page>>

Deny ==
    /\ Asking
    /\ LeaveTo(DeniedUrl(picker.request.return))
    /\ UNCHANGED <<contracts, requests, approved, page>>

\* Back to whoiam, after an answer or when there is no persona to share.
ClosePicker ==
    /\ picker.request # None /\ (picker.sent \/ Personas = {})
    /\ picker' = [request |-> None, sent |-> FALSE]
    /\ UNCHANGED <<contracts, requests, callbacks, approved, page>>

-----------------------------------------------------------------------------
(* The app: the way back.                                                  *)

\* Mutation: the age is measured the wrong way round.
FreshHoweverLate(ts) == ts <= now + MaxProofAge

Fresh(ts) == now <= ts + MaxProofAge /\ ts <= now + MaxProofAge

\* verify_callback, at the app that was loaded.
VerifyCallback(app, url) ==
    Fresh(url.ts) /\ CheckConnect(url.pk, app, url.challenge, url.ts, url.sig)

\* decide_mode, once at boot.  A verified proof starts fetch_profile.
Load(app, url) ==
    /\ page' = CASE url.whoiam = "denied" ->
                      [Blank EXCEPT !.mode = "denied", !.at = app]
                 [] url.whoiam = "ok" /\ VerifyCallback(app, url) ->
                      [Blank EXCEPT !.mode = "verified", !.at = app, !.pk = url.pk,
                                    !.url = url, !.boot = now, !.socket = "opening"]
                 [] OTHER -> [Blank EXCEPT !.mode = "failed", !.at = app]
    /\ UNCHANGED <<contracts, requests, callbacks, picker, approved>>

\* The home button: the screen is the landing again, the connection stays.
GoHome ==
    /\ page.mode # "landing"
    /\ page' = [page EXCEPT !.mode = "landing", !.state = None, !.failed = FALSE]
    /\ UNCHANGED <<contracts, requests, callbacks, picker, approved>>

-----------------------------------------------------------------------------
(* fetch_profile.                                                          *)

\* The socket opens and the Get goes out; or it is refused, or the Get cannot
\* be sent.
SocketOpens ==
    /\ page.socket = "opening"
    /\ \/ page' = [page EXCEPT !.socket = "open"]
       \/ page' = [page EXCEPT !.socket = "off", !.failed = TRUE]
    /\ UNCHANGED <<contracts, requests, callbacks, picker, approved>>

\* Mutation: the watchdog only looks whether an error is there already.
WatchdogOnError ==
    /\ page.socket = "open"
    /\ page' = [page EXCEPT !.socket = "ended"]
    /\ UNCHANGED <<contracts, requests, callbacks, picker, approved>>

\* Thirty seconds after the Get.  Answers are still taken after it.
Watchdog ==
    /\ page.socket = "open"
    /\ page' = [page EXCEPT !.socket = "ended", !.failed = @ \/ page.state = None]
    /\ UNCHANGED <<contracts, requests, callbacks, picker, approved>>

\* The contract of key pk, as anyone who knows the key checks it.
Of(pk) == INSTANCE IdentityState WITH Owner <- pk

Shown == IF page.state = None THEN EmptyState ELSE page.state

\* Mutation: what comes replaces what is shown.
ApplyContractReplacing(update) ==
    IF Of(page.pk)!MergeAccepts(EmptyState, update, now) THEN update ELSE page.state

\* Mutation: what comes is merged without being checked.
ApplyContractUnchecked(update) == Of(page.pk)!MergeResult(Shown, update)

\* apply_contract: only what merges is shown.
ApplyContract(update) ==
    IF Of(page.pk)!MergeAccepts(Shown, update, now)
    THEN Of(page.pk)!MergeResult(Shown, update) ELSE page.state

\* A state some contract went through, or one slot of it.
Updates ==
    LET states == UNION {published[k] : k \in Keys}
    IN  states \cup UNION {{SlotState(n, st.slots[n]) : n \in Held(st)} : st \in states}

\* The answer to the Get or a notification, under the key that was asked for.
Arrive(update) ==
    /\ page.socket \in {"open", "ended"}
    /\ page' = [page EXCEPT !.state = ApplyContract(update)]
    /\ UNCHANGED <<contracts, requests, callbacks, picker, approved>>

\* VerifiedView.
View ==
    IF page.mode # "verified" THEN page.mode
    ELSE IF page.state # None
         THEN IF Destroyed(page.state) THEN "destroyed" ELSE "profile"
         ELSE IF page.failed THEN "error" ELSE "loading"

-----------------------------------------------------------------------------
(* The surroundings.                                                       *)

\* The contract of key k takes an update (see IdentityContract).
Publish(k, update) ==
    /\ Cardinality(published[k]) < MaxStates
    /\ \E st \in published[k] :
          /\ \A older \in published[k] : AtLeast(st, older)
          /\ Of(k)!MergeAccepts(st, update, now)
          /\ published' = [published EXCEPT ![k] = @ \cup {Of(k)!MergeResult(st, update)}]
    /\ UNCHANGED <<now, requests, callbacks, picker, approved, page>>

Tick ==
    /\ now < MaxTime
    /\ now' = now + 1
    /\ UNCHANGED <<published, requests, callbacks, picker, approved, page>>

User ==
    \/ \E app \in Apps : OpenApp(app)
    \/ StartConnect
    \/ \E r \in requests \cup Foreign : OpenWhoiam(r)
    \/ \E pk \in Personas : Approve(pk)
    \/ Deny
    \/ ClosePicker
    \/ \E app \in Apps, url \in callbacks : Load(app, url)
    \/ GoHome

Session ==
    \/ SocketOpens
    \/ Watchdog
    \/ \E update \in Updates : Arrive(update)

World ==
    \/ \E k \in Personas, update \in Writings : Publish(k, update)
    \/ Tick

Next == User \/ Session \/ World

Fairness == WF_vars(Watchdog)

-----------------------------------------------------------------------------
(* Properties.                                                             *)

\* Consent: an app that shows a persona as verified was loaded within the
\* freshness window of a click by which its owner agreed to be known to this
\* very app, on a well-formed request, for the challenge in the URL; whichever
\* callback was opened where, again, or late.
Consent ==
    page.mode = "verified" =>
       \E a \in approved, r \in requests :
          /\ a.pk = page.pk /\ a.app = page.at /\ r.return = page.at
          /\ a.challenge = page.url.challenge /\ r.challenge = a.challenge
          /\ r.plain /\ r.challenge # 0
          /\ page.boot - a.time \in 0..MaxProofAge

\* merge_state with the proven key: whatever the node sends under the key, the
\* page shows only what the owner of the proven key has published.
ShownIsPublished ==
    page.state # None =>
       \A n \in Names : page.state.slots[n] # None =>
          \E st \in published[page.pk] : st.slots[n] = page.state.slots[n]

\* Late and repeated notifications: what the page shows of a persona does not
\* go back to something older, and a destroyed persona stays destroyed.
ShownClimbs ==
    [][page'.url = page.url /\ page'.boot = page.boot
          /\ page.state # None /\ page'.state # None => AtLeast(page'.state, page.state)]_vars

\* The watchdog: once the connection is up, a page that is neither left nor
\* loaded again comes to show a profile or an error.
ProfileSettles ==
    page.socket = "open" ~> View # "loading" \/ page.socket = "opening"
=============================================================================
