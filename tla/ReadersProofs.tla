--------------------------- MODULE ReadersProofs ---------------------------
(***************************************************************************)
(* Proofs about Readers for every set of apps, personas, names, contents   *)
(* and every bound: the types, and that a verified persona has consented.  *)
(***************************************************************************)
EXTENDS Readers, IdentityStateProofs, TLAPS

\* What a callback stands for: a click on a persona, in answer to a
\* well-formed request.
Answers(url, a, r) ==
    /\ url.pk = a.pk /\ url.challenge = a.challenge /\ url.ts = a.time
    /\ url.sig = SignConnect(a.pk, a.app, a.challenge, a.time)
    /\ r.return = a.app /\ r.challenge = a.challenge /\ r.plain /\ r.challenge # 0

PickerInv ==
    picker.request # None =>
       picker.request \in requests /\ picker.request.plain /\ picker.request.challenge # 0

UrlsAreConsents ==
    \A url \in callbacks : url.whoiam = "ok" =>
       \E a \in approved, r \in requests : Answers(url, a, r) /\ a.time <= now

\* TypeOK without what the contracts and the page hold of states.
FlowTypeOK ==
    /\ now \in 0..MaxTime
    /\ requests \subseteq Requests
    /\ callbacks \subseteq Callbacks
    /\ picker \in [request : Requests \cup {None}, sent : BOOLEAN]
    /\ approved \subseteq Approvals
    /\ DOMAIN page = DOMAIN Blank /\ page.at \in Apps \cup {None}

ConsentInv == FlowTypeOK /\ PickerInv /\ UrlsAreConsents /\ Consent

\* The fetch and the contracts do not touch what consent is about.
LEMMA ConsentStutters ==
    ASSUME ConsentInv, UNCHANGED <<now, requests, callbacks, picker, approved, page>>
    PROVE  ConsentInv'
BY DEF ConsentInv, FlowTypeOK, PickerInv, UrlsAreConsents, Consent

LEMMA ConsentInit == InitReaders => ConsentInv
BY FlowAssumption
DEF InitReaders, Init, ConsentInv, FlowTypeOK, PickerInv, UrlsAreConsents, Consent, Blank

\* A proof that checks at an app was made for that app.
LEMMA ProofNamesApp ==
    ASSUME NEW url, NEW app, NEW a, NEW r,
           Answers(url, a, r), VerifyCallback(app, url)
    PROVE  app = a.app /\ now <= a.time + MaxProofAge
<1>1. ConnectMessage(a.pk, a.app, a.challenge, a.time)
         = ConnectMessage(a.pk, app, a.challenge, a.time)
  BY DEF Answers, VerifyCallback, CheckConnect, Verify, SignConnect, Sign
<1>2. app = a.app
  BY <1>1 DEF ConnectMessage
<1> QED
  BY <1>2 DEF Answers, VerifyCallback, Fresh

\* Every step of the flow keeps the consent invariant.
LEMMA ConsentNext == ConsentInv /\ [Next]_vars => ConsentInv'
<1> SUFFICES ASSUME ConsentInv, [Next]_vars PROVE ConsentInv'
  OBVIOUS
<1> USE FlowAssumption
<1>1. ASSUME NEW app \in Apps, OpenApp(app) PROVE ConsentInv'
  BY <1>1 DEF OpenApp, contracts, ConsentInv, FlowTypeOK, PickerInv, UrlsAreConsents,
              Consent, Blank
<1>2. CASE StartConnect
  <2>1. FlowTypeOK'
    <3>1. PICK c \in Challenges \ {0} :
             requests' = requests \cup {[return |-> page.at, plain |-> TRUE,
                                         challenge |-> c]}
      BY <1>2 DEF StartConnect
    <3>2. [return |-> page.at, plain |-> TRUE, challenge |-> c] \in Requests
      BY <1>2 DEF StartConnect, ConsentInv, FlowTypeOK, Requests
    <3> QED
      BY <1>2, <3>1, <3>2 DEF StartConnect, contracts, ConsentInv, FlowTypeOK
  <2>2. PickerInv' /\ UrlsAreConsents' /\ Consent'
    BY <1>2 DEF StartConnect, contracts, ConsentInv, PickerInv, UrlsAreConsents, Consent
  <2> QED
    BY <2>1, <2>2 DEF ConsentInv
<1>3. ASSUME NEW r \in requests \cup Foreign, OpenWhoiam(r) PROVE ConsentInv'
  <2>1. ValidChallenge(r.challenge) /\ r.plain =>
           r \in requests /\ r \in Requests /\ r.challenge # 0
    BY DEF ConsentInv, FlowTypeOK, ValidChallenge
  <2>2. FlowTypeOK' /\ PickerInv'
    BY <1>3, <2>1 DEF OpenWhoiam, contracts, ConsentInv, FlowTypeOK, PickerInv
  <2>3. UrlsAreConsents' /\ Consent'
    BY <1>3 DEF OpenWhoiam, contracts, ConsentInv, UrlsAreConsents, Consent
  <2> QED
    BY <2>2, <2>3 DEF ConsentInv
<1>4. ASSUME NEW pk \in Personas, Approve(pk) PROVE ConsentInv'
  <2> DEFINE r == picker.request
             a == [pk |-> pk, app |-> r.return, challenge |-> r.challenge, time |-> now]
             url == OkUrl(r.return, pk, r.challenge, now)
  <2>1. /\ r \in requests /\ r.plain /\ r.challenge # 0 /\ r \in Requests
    BY <1>4 DEF Approve, Asking, ConsentInv, PickerInv, FlowTypeOK
  <2>2. a \in Approvals
    BY <2>1 DEF Approvals, Requests, ConsentInv, FlowTypeOK
  <2>3. Answers(url, a, r)
    BY <2>1 DEF Answers, OkUrl
  <2>4. url \in Callbacks
    BY <2>2 DEF Callbacks
  <2>5. /\ callbacks' \in {callbacks, callbacks \cup {url}}
        /\ approved' = approved \cup {a}
        /\ picker' \in {picker, [picker EXCEPT !.sent = TRUE]}
        /\ UNCHANGED <<now, requests, page>>
    BY <1>4 DEF Approve, LeaveTo, contracts
  <2> HIDE DEF a, url
  <2>6. FlowTypeOK' /\ PickerInv'
    BY <2>2, <2>4, <2>5 DEF ConsentInv, FlowTypeOK, PickerInv
  <2>7. UrlsAreConsents'
    <3> SUFFICES ASSUME NEW u \in callbacks', u.whoiam = "ok"
                 PROVE  \E b \in approved', q \in requests' :
                           Answers(u, b, q) /\ b.time <= now
      BY <2>5 DEF UrlsAreConsents
    <3>1. CASE u \in callbacks
      BY <2>5, <3>1 DEF ConsentInv, UrlsAreConsents
    <3>2. CASE u = url
      BY <2>1, <2>3, <2>5, <3>2 DEF a, ConsentInv, FlowTypeOK
    <3> QED
      BY <2>5, <3>1, <3>2
  <2>8. Consent'
    BY <2>5 DEF ConsentInv, Consent
  <2> QED
    BY <2>6, <2>7, <2>8 DEF ConsentInv
<1>5. CASE Deny
  <2>1. picker.request \in Requests
    BY <1>5 DEF Deny, Asking, ConsentInv, FlowTypeOK
  <2> DEFINE url == DeniedUrl(picker.request.return)
  <2>2. url \in Callbacks /\ url.whoiam # "ok"
    BY <2>1 DEF Callbacks, DeniedUrl, Requests
  <2>3. /\ callbacks' \in {callbacks, callbacks \cup {url}}
        /\ picker' \in {picker, [picker EXCEPT !.sent = TRUE]}
        /\ UNCHANGED <<now, requests, approved, page>>
    BY <1>5 DEF Deny, LeaveTo, contracts
  <2> HIDE DEF url
  <2> QED
    BY <2>2, <2>3 DEF ConsentInv, FlowTypeOK, PickerInv, UrlsAreConsents, Consent
<1>6. CASE ClosePicker
  BY <1>6 DEF ClosePicker, contracts, ConsentInv, FlowTypeOK, PickerInv,
              UrlsAreConsents, Consent
<1>7. ASSUME NEW app \in Apps, NEW url \in callbacks, Load(app, url) PROVE ConsentInv'
  <2>1. FlowTypeOK' /\ PickerInv' /\ UrlsAreConsents'
    BY <1>7 DEF Load, contracts, ConsentInv, FlowTypeOK, PickerInv, UrlsAreConsents, Blank
  <2>2. CASE url.whoiam = "ok" /\ VerifyCallback(app, url)
    <3>1. PICK a \in approved, r \in requests : Answers(url, a, r) /\ a.time <= now
      BY <2>2 DEF ConsentInv, UrlsAreConsents
    <3>2. app = a.app /\ now <= a.time + MaxProofAge
      BY <2>2, <3>1, ProofNamesApp
    <3>3. now - a.time \in 0..MaxProofAge
      BY <3>1, <3>2 DEF ConsentInv, FlowTypeOK, Approvals
    <3>4. page'.pk = url.pk /\ page'.at = app /\ page'.url = url /\ page'.boot = now
      BY <1>7, <2>2 DEF Load, Blank
    <3>5. UNCHANGED <<approved, requests>>
      BY <1>7 DEF Load
    <3> QED
      BY <2>1, <3>1, <3>2, <3>3, <3>4, <3>5 DEF ConsentInv, Consent, Answers
  <2>3. CASE ~ (url.whoiam = "ok" /\ VerifyCallback(app, url))
    BY <1>7, <2>1, <2>3 DEF Load, Blank, ConsentInv, Consent
  <2> QED
    BY <2>2, <2>3
<1>8. CASE GoHome \/ SocketOpens \/ Watchdog \/ \E update \in Updates : Arrive(update)
  <2>1. /\ UNCHANGED <<now, requests, callbacks, picker, approved>>
        /\ DOMAIN page' = DOMAIN page
        /\ UNCHANGED <<page.pk, page.at, page.url, page.boot>>
        /\ page'.mode \in {"landing", page.mode}
    BY <1>8 DEF GoHome, SocketOpens, Watchdog, Arrive, contracts, ConsentInv, FlowTypeOK, Blank
  <2> QED
    BY <2>1 DEF ConsentInv, FlowTypeOK, PickerInv, UrlsAreConsents, Consent
<1>9. ASSUME NEW k, NEW update, Publish(k, update) PROVE ConsentInv'
  BY <1>9, ConsentStutters DEF Publish
<1>10. CASE Tick
  BY <1>10 DEF Tick, ConsentInv, FlowTypeOK, PickerInv, UrlsAreConsents, Consent, Approvals
<1>11. CASE UNCHANGED vars
  BY <1>11, ConsentStutters DEF vars, contracts
<1> QED
  BY <1>1, <1>2, <1>3, <1>4, <1>5, <1>6, <1>7, <1>8, <1>9, <1>10, <1>11
  DEF Next, User, Session, World

\* The toolkit's fetch is no step of the flow.
LEMMA ConsentStep == ConsentInv /\ [NextReaders]_all => ConsentInv'
<1> SUFFICES ASSUME ConsentInv, [NextReaders]_all PROVE ConsentInv'
  OBVIOUS
<1>1. CASE Next
  BY <1>1, ConsentNext
<1>2. CASE Lookup
  BY <1>2, ConsentStutters DEF Lookup, Client!Next
<1>3. CASE UNCHANGED all
  BY <1>3, ConsentStutters DEF all, vars, contracts
<1> QED
  BY <1>1, <1>2, <1>3 DEF NextReaders

\* verify_callback, the picker and the proof together: for any number of apps,
\* personas, requests and callbacks, wherever and whenever a callback is
\* opened, a persona shown as verified has consented to this app, on a request
\* of it, within the freshness window.
THEOREM Consents == Spec => []Consent
<1>1. InitReaders => ConsentInv
  BY ConsentInit
<1>2. ConsentInv /\ [NextReaders]_all => ConsentInv'
  BY ConsentStep
<1>3. ConsentInv => Consent
  BY DEF ConsentInv
<1> QED
  BY <1>1, <1>2, <1>3, PTL DEF Spec
=============================================================================
