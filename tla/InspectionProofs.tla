---------------------------- MODULE InspectionProofs ----------------------------
(***************************************************************************)
(* Proofs about two parts of the account inspection, AutoActions and       *)
(* InspectionPage, which share no state; they share a module only for      *)
(* being read together: what a run does to an account, and what the page   *)
(* shows of a run.                                                         *)
(*                                                                         *)
(* About AutoActions for any accounts, providers, answers, settings and    *)
(* number of confirmations: automatic actions never undo each other under  *)
(* the same answer, follow the state and the settings, wait for their      *)
(* confirmations, and delete a file at most once per run.                  *)
(*                                                                         *)
(* About InspectionPage for any results, settings and events: at rest the  *)
(* page shows the state of the run, the server stores what was typed, and  *)
(* a dialog saved untouched leaves the schedule of the server as it is.    *)
(***************************************************************************)
EXTENDS AutoActions, InspectionPage, WellFoundedInduction, TLAPS

(***************************************************************************)
(* What the results, the workers and the history know of each other.       *)
(***************************************************************************)

\* An account that is looked at or acted on has the result of its answer,
\* and nobody acts on an account that is still to be looked at.
ResultInv ==
  \A a \in Accounts :
    /\ a \in todo => acting[a] = "none"
    /\ a \in todo \/ acting[a] # "none" => Fits(a, given[a])
    /\ a \in todo \/ acting[a] # "none" =>
         result[a] = Inspect(provider[a], given[a], settings.deep, result[a].disabled)
    /\ acting[a] # "none" => acting[a] = AutoActionFor(result[a], settings)

\* An automatic action in the history was called for by its answer.
HistoryInv ==
  \A a \in Accounts :
    lastAuto[a].action # "none" =>
      \E listed \in BOOLEAN :
        lastAuto[a].action
          = AutoActionFor(Inspect(provider[a], lastAuto[a].under, settings.deep, listed), settings)

\* A count is never ahead of the inspections that called for an action.
CountInv ==
  \A a \in Accounts :
    /\ \A k \in AutoAction \X Category : counts[a][k] <= since[a]
    /\ acting[a] # "none" => since[a] >= settings.confirmations

\* The mark of a file comes before its deletion.
MarkInv == \A f \in Files : deletions[f] = (IF f \in deleted THEN 1 ELSE 0)

-----------------------------------------------------------------------------
(* Decisions. r is the result of an account that was listed enabled, q the  *)
(* result under the same answer of one that was listed disabled.            *)

Twins(r, q) ==
  /\ r \in Result /\ r.disabled = FALSE /\ r.action \in {"keep", "disable", "delete"}
  /\ q \in Result /\ q.disabled = TRUE /\ q.action \in {"keep", "enable", "delete"}
  /\ r.quota = q.quota /\ r.error = q.error /\ r.status = q.status
  /\ q.action = "enable" => r.action = "keep" /\ ~q.error

\* The least and the greatest of some positions of a sequence.
LEMMA LeastExists ==
  ASSUME NEW S \in SUBSET Nat, S # {}
  PROVE  \E m \in S : \A x \in S : m <= x
<1> DEFINE R == OpToRel(<, Nat)
<1>1. IsWellFoundedOn(R, Nat)
  BY NatLessThanWellFounded
<1>2. \A x, y \in Nat : x < y => <<x, y>> \in R
  BY DEF OpToRel
<1> HIDE DEF R
<1>3. PICK m \in S : \A x \in S : ~(<<x, m>> \in R)
  BY <1>1, WFMin
<1>4. ASSUME NEW x \in S PROVE m <= x
  <2>1. x \in Nat /\ m \in Nat
    OBVIOUS
  <2>2. ~(x < m)
    BY <1>2, <1>3, <2>1, Zenon
  <2>. QED  BY <2>1, <2>2
<1>. QED  BY <1>4

LEMMA GreatestExists ==
  ASSUME NEW n \in Nat, NEW S \in SUBSET (1..n), S # {}
  PROVE  \E m \in S : \A x \in S : m >= x
<1> DEFINE T == {n - x : x \in S}
<1>1. T \in SUBSET Nat /\ T # {}
  <2>1. \A x \in S : n - x \in Nat
    OBVIOUS
  <2>. QED  BY <2>1
<1>2. PICK t \in T : \A u \in T : t <= u
  BY <1>1, LeastExists
<1>3. PICK m \in S : t = n - m
  BY <1>2
<1>4. \A x \in S : n - m <= n - x
  BY <1>2, <1>3
<1>5. \A x \in S : m >= x
  BY <1>4
<1>. QED  BY <1>5

LEMMA FailedTwins ==
  ASSUME NEW status \in Nat
  PROVE  Twins(Failed(status, FALSE), Failed(status, TRUE))
BY DEF Twins, Failed, Result, Action

LEMMA AuthTwins ==
  ASSUME NEW status \in Nat
  PROVE  Twins(AuthErrorDecision(status, FALSE), AuthErrorDecision(status, TRUE))
BY DEF Twins, AuthErrorDecision, Decided, Result, Action

LEMMA QuotaTwins ==
  ASSUME NEW used, NEW hasData, NEW status \in Nat
  PROVE  /\ Twins(QuotaDecision(used, hasData, status, FALSE), QuotaDecision(used, hasData, status, TRUE))
         /\ QuotaDecision(used, hasData, status, TRUE).error = FALSE
BY DEF Twins, QuotaDecision, Decided, Result, Action

LEMMA ResponseIs ==
  ASSUME NEW r \in Response
  PROVE  /\ r.status \in Nat
         /\ Classify(r) \in {"success", "auth", "quota", "transient"}
BY DEF Response, Classify, IsSuccess, IsAccountErrorStatus

LEMMA DecidedTwins ==
  ASSUME NEW status \in Nat
  PROVE  /\ Twins(Decided("delete", FALSE, status, FALSE), Decided("delete", FALSE, status, TRUE))
         /\ Twins(Decided("disable", TRUE, status, FALSE), Decided("keep", TRUE, status, TRUE))
         /\ Twins(Decided("keep", FALSE, status, FALSE), Decided("enable", FALSE, status, TRUE))
         /\ Twins(Decided("keep", FALSE, status, FALSE), Decided("keep", FALSE, status, TRUE))
BY DEF Twins, Decided, Result, Action

LEMMA PlainTwins ==
  ASSUME NEW r \in Response
  PROVE  Twins(InspectPlain(r, FALSE), InspectPlain(r, TRUE))
<1>1. r.status \in Nat /\ 0 \in Nat
  BY ResponseIs
<1>2. CASE r.status = 0
  BY <1>1, <1>2, FailedTwins DEF InspectPlain
<1>3. CASE r.status # 0 /\ ~IsSuccess(r.status)
  BY <1>1, <1>3, FailedTwins, AuthTwins DEF InspectPlain
<1>4. CASE r.status # 0 /\ IsSuccess(r.status)
  BY <1>1, <1>4, FailedTwins, QuotaTwins DEF InspectPlain
<1>. QED  BY <1>2, <1>3, <1>4

LEMMA CodexTwins ==
  ASSUME NEW r \in Response
  PROVE  Twins(InspectCodex(r, FALSE), InspectCodex(r, TRUE))
<1> DEFINE isQuota == r.status = 402 \/ r.body = "exhausted" \/ Used(r.body) = "over"
           full == isQuota \/ Used(r.body) = "over"
<1>1. r.status \in Nat /\ 0 \in Nat
  BY ResponseIs
<1>2. CASE r.status = 0
  BY <1>1, <1>2, FailedTwins DEF InspectCodex
<1>3. CASE r.status = 401
  <2>1. /\ InspectCodex(r, FALSE) = Decided("delete", FALSE, r.status, FALSE)
        /\ InspectCodex(r, TRUE) = Decided("delete", FALSE, r.status, TRUE)
    BY <1>1, <1>3 DEF InspectCodex, CodexDecision
  <2>. QED  BY <1>1, <2>1, DecidedTwins
<1>4. CASE r.status # 401 /\ IsAccountErrorStatus(r.status)
  <2>1. \A listed : InspectCodex(r, listed) = AuthErrorDecision(r.status, listed)
    BY <1>1, <1>4 DEF InspectCodex, CodexDecision, IsAccountErrorStatus
  <2>. QED  BY <1>1, <2>1, AuthTwins
<1>5. CASE r.status \notin {0, 401} /\ ~IsAccountErrorStatus(r.status)
  <2>1. /\ InspectCodex(r, FALSE)
             = IF full THEN Decided("disable", TRUE, r.status, FALSE)
               ELSE Decided("keep", FALSE, r.status, FALSE)
        /\ InspectCodex(r, TRUE)
             = IF full THEN Decided("keep", TRUE, r.status, TRUE)
               ELSE Decided(IF r.status = 200 THEN "enable" ELSE "keep", FALSE, r.status, TRUE)
    BY <1>1, <1>5 DEF InspectCodex, CodexDecision
  <2> HIDE DEF full
  <2>. QED  BY <1>1, <2>1, DecidedTwins
<1>. QED  BY <1>2, <1>3, <1>4, <1>5

\* Changing the status of twins, and turning them into errors.
WithStatus(d, status) == [d EXCEPT !.status = status]
AsError(d, status) == [d EXCEPT !.action = "keep", !.error = TRUE, !.status = status]

LEMMA StatusTwins ==
  ASSUME NEW d, NEW e, Twins(d, e), NEW status \in Nat
  PROVE  Twins(WithStatus(d, status), WithStatus(e, status))
BY DEF Twins, Result, WithStatus

LEMMA ErrorTwins ==
  ASSUME NEW d, NEW e, Twins(d, e), NEW status \in Nat
  PROVE  Twins(AsError(d, status), AsError(e, status))
BY DEF Twins, Result, Action, AsError

LEMMA DeepTwins ==
  ASSUME NEW d, NEW e, Twins(d, e), NEW deep \in Seq(Response)
  PROVE  Twins(DeepProbe(d, deep, FALSE), DeepProbe(e, deep, TRUE))
<1> DEFINE settled  == {i \in DOMAIN deep : Classify(deep[i]) # "transient"}
           answered == {i \in DOMAIN deep : deep[i].status # 0}
           first == CHOOSE i \in settled : \A j \in settled : i <= j
           last  == CHOOSE i \in answered : \A j \in answered : i >= j
<1>1. DOMAIN deep = 1..Len(deep) /\ Len(deep) \in Nat /\ \A i \in DOMAIN deep : deep[i] \in Response
  OBVIOUS
<1>2. CASE deep = << >>
  BY <1>2 DEF DeepProbe
<1>3. CASE deep # << >> /\ settled # {}
  <2>1. first \in settled
    <3>1. settled \in SUBSET Nat
      BY <1>1
    <3> HIDE DEF settled
    <3>2. \E i \in settled : \A j \in settled : i <= j
      BY <1>3, <3>1, LeastExists
    <3>. QED  BY <3>2
  <2> DEFINE r == deep[first]
  <2>2. /\ DeepProbe(d, deep, FALSE)
             = CASE Classify(r) = "success" -> [d EXCEPT !.status = r.status]
                 [] Classify(r) = "auth"    -> AuthErrorDecision(r.status, FALSE)
                 [] Classify(r) = "quota"   -> Decided("disable", TRUE, r.status, FALSE)
        /\ DeepProbe(e, deep, TRUE)
             = CASE Classify(r) = "success" -> [e EXCEPT !.status = r.status]
                 [] Classify(r) = "auth"    -> AuthErrorDecision(r.status, TRUE)
                 [] Classify(r) = "quota"   -> Decided("keep", TRUE, r.status, TRUE)
    BY <1>3 DEF DeepProbe, First
  <2>3. r \in Response /\ Classify(r) # "transient"
    BY <1>1, <2>1
  <2> HIDE DEF first
  <2>4. r.status \in Nat /\ Classify(r) \in {"success", "auth", "quota"}
    BY <2>3, ResponseIs
  <2> HIDE DEF r
  <2>5. CASE Classify(r) = "success"
    <3>1. /\ DeepProbe(d, deep, FALSE) = WithStatus(d, r.status)
          /\ DeepProbe(e, deep, TRUE) = WithStatus(e, r.status)
      BY <2>2, <2>5 DEF WithStatus
    <3>. QED  BY <2>4, <3>1, StatusTwins
  <2>6. CASE Classify(r) = "auth"
    BY <2>2, <2>4, <2>6, AuthTwins
  <2>7. CASE Classify(r) = "quota"
    <3>1. /\ DeepProbe(d, deep, FALSE) = Decided("disable", TRUE, r.status, FALSE)
          /\ DeepProbe(e, deep, TRUE) = Decided("keep", TRUE, r.status, TRUE)
      BY <2>2, <2>7
    <3>. QED  BY <2>4, <3>1, DecidedTwins
  <2>. QED  BY <2>4, <2>5, <2>6, <2>7
<1>4. CASE deep # << >> /\ settled = {}
  <2> DEFINE status == IF answered # {} THEN deep[last].status ELSE d.status
  <2>1. /\ DeepProbe(d, deep, FALSE) = AsError(d, status)
        /\ DeepProbe(e, deep, TRUE) = AsError(e, status)
    <3>1. d \in Result /\ e \in Result /\ d.status = e.status
      BY DEF Twins
    <3>2. CASE answered = {}
      BY <1>4, <3>1, <3>2 DEF DeepProbe, Result, AsError
    <3>3. CASE answered # {}
      <4> DEFINE some == \E i \in DOMAIN deep : deep[i].status # 0
      <4>1. some
        BY <3>3
      <4>2. /\ DeepProbe(d, deep, FALSE)
                 = [d EXCEPT !.action = "keep", !.error = TRUE,
                             !.status = IF some THEN deep[last].status ELSE @]
            /\ DeepProbe(e, deep, TRUE)
                 = [e EXCEPT !.action = "keep", !.error = TRUE,
                             !.status = IF some THEN deep[last].status ELSE @]
        BY <1>4 DEF DeepProbe, LastWhere
      <4> HIDE DEF some, last, answered
      <4>3. status = deep[last].status
        BY <3>3
      <4>. QED  BY <4>1, <4>2, <4>3 DEF AsError
    <3>. QED  BY <3>2, <3>3
  <2>2. status \in Nat
    <3>1. CASE answered = {}
      BY <3>1 DEF Twins, Result
    <3>2. CASE answered # {}
      <4>1. answered \in SUBSET (1..Len(deep))
        BY <1>1
      <4>2. \E i \in answered : \A j \in answered : i >= j
        <5> HIDE DEF answered
        <5>. QED  BY <1>1, <3>2, <4>1, GreatestExists
      <4>3. last \in answered
        <5> HIDE DEF answered
        <5>. QED  BY <4>2
      <4>4. deep[last] \in Response
        BY <1>1, <4>3
      <4> HIDE DEF last
      <4>. QED  BY <3>2, <4>4, ResponseIs
    <3>. QED  BY <3>1, <3>2
  <2> HIDE DEF status
  <2>. QED  BY <2>1, <2>2, ErrorTwins
<1>. QED  BY <1>2, <1>3, <1>4

LEMMA AntigravityTwins ==
  ASSUME NEW answer \in Answer, NEW deepEnabled
  PROVE  Twins(InspectAntigravity(answer, deepEnabled, FALSE),
               InspectAntigravity(answer, deepEnabled, TRUE))
<1> DEFINE urls   == answer.quota
           good   == {i \in DOMAIN urls : IsSuccess(urls[i].status) /\ Parses(urls[i].body)}
           denied == {i \in DOMAIN urls : IsAccountErrorStatus(urls[i].status)}
           first  == CHOOSE i \in good : \A j \in good : i <= j
           last   == CHOOSE i \in denied : \A j \in denied : i >= j
<1>1. urls \in Seq(Response) /\ answer.deep \in Seq(Response)
  BY DEF Answer
<1>2. DOMAIN urls = 1..Len(urls) /\ Len(urls) \in Nat /\ \A i \in DOMAIN urls : urls[i] \in Response
  BY <1>1
<1>3. CASE good # {}
  <2>1. first \in good
    <3>1. good \in SUBSET Nat
      BY <1>2
    <3> HIDE DEF good
    <3>2. \E i \in good : \A j \in good : i <= j
      BY <1>3, <3>1, LeastExists
    <3>. QED  BY <3>2
  <2> DEFINE r == urls[first]
             d == QuotaDecision(Used(r.body), Used(r.body) # "none", r.status, FALSE)
             e == QuotaDecision(Used(r.body), Used(r.body) # "none", r.status, TRUE)
  <2>2. /\ InspectAntigravity(answer, deepEnabled, FALSE)
             = IF deepEnabled /\ Used(r.body) # "none" /\ ~d.quota
               THEN DeepProbe(d, answer.deep, FALSE) ELSE d
        /\ InspectAntigravity(answer, deepEnabled, TRUE)
             = IF deepEnabled /\ Used(r.body) # "none" /\ ~e.quota
               THEN DeepProbe(e, answer.deep, TRUE) ELSE e
    BY <1>3 DEF InspectAntigravity, First
  <2>3. r.status \in Nat
    BY <1>2, <2>1, ResponseIs
  <2> HIDE DEF first, r
  <2>4. Twins(d, e)
    BY <2>3, QuotaTwins
  <2> HIDE DEF d, e
  <2>5. d.quota = e.quota
    BY <2>4 DEF Twins
  <2>6. Twins(DeepProbe(d, answer.deep, FALSE), DeepProbe(e, answer.deep, TRUE))
    BY <1>1, <2>4, DeepTwins
  <2>. QED  BY <2>2, <2>4, <2>5, <2>6
<1>4. CASE good = {} /\ denied # {}
  <2>1. denied \in SUBSET (1..Len(urls))
    BY <1>2
  <2>2. last \in denied
    <3> HIDE DEF denied
    <3>1. \E i \in denied : \A j \in denied : i >= j
      BY <1>2, <1>4, <2>1, GreatestExists
    <3>. QED  BY <3>1
  <2>3. /\ InspectAntigravity(answer, deepEnabled, FALSE) = AuthErrorDecision(urls[last].status, FALSE)
        /\ InspectAntigravity(answer, deepEnabled, TRUE) = AuthErrorDecision(urls[last].status, TRUE)
    BY <1>4 DEF InspectAntigravity, LastWhere
  <2>4. urls[last].status \in Nat
    BY <1>2, <2>2, ResponseIs
  <2> HIDE DEF last, urls
  <2>. QED  BY <2>3, <2>4, AuthTwins
<1>5. CASE good = {} /\ denied = {}
  <2>1. /\ InspectAntigravity(answer, deepEnabled, FALSE) = Failed(0, FALSE)
        /\ InspectAntigravity(answer, deepEnabled, TRUE) = Failed(0, TRUE)
    BY <1>5 DEF InspectAntigravity
  <2>. QED  BY <2>1, FailedTwins
<1>. QED  BY <1>3, <1>4, <1>5

LEMMA InspectTwins ==
  ASSUME NEW p, NEW x \in Answer, x.quota # << >>, NEW deepEnabled
  PROVE  Twins(Inspect(p, x, deepEnabled, FALSE), Inspect(p, x, deepEnabled, TRUE))
<1>1. Head(x.quota) \in Response
  BY DEF Answer
<1>2. Twins(Failed(0, FALSE), Failed(0, TRUE))
  BY FailedTwins
<1>3. Twins(InspectPlain(Head(x.quota), FALSE), InspectPlain(Head(x.quota), TRUE))
  BY <1>1, PlainTwins
<1>4. Twins(InspectCodex(Head(x.quota), FALSE), InspectCodex(Head(x.quota), TRUE))
  BY <1>1, CodexTwins
<1>5. Twins(InspectAntigravity(x, deepEnabled, FALSE), InspectAntigravity(x, deepEnabled, TRUE))
  BY AntigravityTwins
<1>6. CASE x.refreshFails
  BY <1>2, <1>6 DEF Inspect
<1>7. CASE ~x.refreshFails /\ p = "antigravity"
  BY <1>5, <1>7 DEF Inspect
<1>8. CASE ~x.refreshFails /\ p \in {"claude", "kimi", "xai"}
  BY <1>3, <1>8 DEF Inspect, InspectClaude, InspectKimi, InspectXAI
<1>9. CASE ~x.refreshFails /\ p = "codex"
  BY <1>4, <1>9 DEF Inspect
<1>10. CASE ~x.refreshFails /\ p \notin {"antigravity", "claude", "kimi", "xai", "codex"}
  BY <1>2, <1>10 DEF Inspect
<1>. QED  BY <1>6, <1>7, <1>8, <1>9, <1>10

\* What a result calls for follows the state the account was listed with.
LEMMA ActionIs ==
  ASSUME NEW r \in Result, NEW s \in Settings
  PROVE  AutoActionFor(r, s) \in AutoAction \cup {"none"}
BY DEF AutoActionFor, ActionForError, AutoAction, Settings

LEMMA TwinsNeverUndo ==
  ASSUME NEW r, NEW q, Twins(r, q), NEW s \in Settings
  PROVE  /\ AutoActionFor(r, s) # "enable" /\ AutoActionFor(q, s) # "disable"
         /\ AutoActionFor(r, s) = "disable" => AutoActionFor(q, s) # "enable"
         /\ AutoActionFor(q, s) = "enable" => s.recovery /\ ~q.error
<1>1. /\ r \in Result /\ r.disabled = FALSE /\ r.action \in {"keep", "disable", "delete"}
      /\ q \in Result /\ q.disabled = TRUE /\ q.action \in {"keep", "enable", "delete"}
      /\ r.quota = q.quota /\ r.error = q.error /\ r.status = q.status
      /\ q.action = "enable" => r.action = "keep" /\ ~q.error
  BY DEF Twins
<1>2. s.invalid \in {"none", "disable", "delete"} /\ s.requestError \in {"none", "disable", "delete"}
  BY DEF Settings
<1>3. (IsAccountInvalid(r) <=> IsAccountInvalid(q)) /\ (IsRequestError(r) <=> IsRequestError(q))
  BY <1>1 DEF IsAccountInvalid, IsRequestError
<1>4. CASE IsAccountInvalid(r) \/ IsRequestError(r)
  <2>1. ~(IsAccountInvalid(r) /\ IsRequestError(r)) /\ ~(IsAccountInvalid(q) /\ IsRequestError(q))
    BY DEF IsRequestError
  <2>. QED  BY <1>1, <1>2, <1>3, <1>4, <2>1 DEF AutoActionFor, ActionForError
<1>5. CASE ~IsAccountInvalid(r) /\ ~IsRequestError(r)
  BY <1>1, <1>3, <1>5 DEF AutoActionFor
<1>. QED  BY <1>4, <1>5

\* What the provider has said where a decision d on its answer says something.
Founded(d, p, x) ==
  /\ IsAccountInvalid(d) => Denies(x)
  /\ IsRequestError(d) => Fails(p, x)
  /\ d.quota => Exhausts(x)
  /\ d.action = "enable" => Recovers(x)

\* A deep probe leaves the decision, or gives it the verdict of one of its
\* responses, or was answered by none of them.
LEMMA DeepIs ==
  ASSUME NEW d \in Result, NEW deep \in Seq(Response), NEW listed
  PROVE  LET e == DeepProbe(d, deep, listed) IN
         \/ deep = << >> /\ e = d
         \/ \E i \in DOMAIN deep :
              \/ Classify(deep[i]) = "success" /\ e = WithStatus(d, deep[i].status)
              \/ Classify(deep[i]) = "auth" /\ e = AuthErrorDecision(deep[i].status, listed)
              \/ /\ Classify(deep[i]) = "quota"
                 /\ e = Decided(IF listed THEN "keep" ELSE "disable", TRUE, deep[i].status, listed)
         \/ /\ deep # << >> /\ \A i \in DOMAIN deep : Classify(deep[i]) = "transient"
            /\ \E status : /\ e = AsError(d, status)
                           /\ status = d.status \/ \E i \in DOMAIN deep : status = deep[i].status
<1> DEFINE settled  == {i \in DOMAIN deep : Classify(deep[i]) # "transient"}
           answered == {i \in DOMAIN deep : deep[i].status # 0}
           first == CHOOSE i \in settled : \A j \in settled : i <= j
           last  == CHOOSE i \in answered : \A j \in answered : i >= j
<1>1. DOMAIN deep = 1..Len(deep) /\ Len(deep) \in Nat /\ \A i \in DOMAIN deep : deep[i] \in Response
  OBVIOUS
<1>2. CASE deep = << >>
  BY <1>2 DEF DeepProbe
<1>3. CASE deep # << >> /\ settled # {}
  <2>1. first \in settled
    <3>1. settled \in SUBSET Nat
      BY <1>1
    <3> HIDE DEF settled
    <3>2. \E i \in settled : \A j \in settled : i <= j
      BY <1>3, <3>1, LeastExists
    <3>. QED  BY <3>2
  <2> DEFINE r == deep[first]
  <2>2. DeepProbe(d, deep, listed)
             = CASE Classify(r) = "success" -> [d EXCEPT !.status = r.status]
                 [] Classify(r) = "auth"    -> AuthErrorDecision(r.status, listed)
                 [] Classify(r) = "quota"   -> Decided(IF listed THEN "keep" ELSE "disable", TRUE,
                                                       r.status, listed)
    BY <1>3 DEF DeepProbe, First
  <2>3. first \in DOMAIN deep /\ Classify(r) # "transient" /\ r \in Response
    BY <1>1, <2>1
  <2>4. Classify(r) \in {"success", "auth", "quota"}
    <3> HIDE DEF r
    <3>. QED  BY <2>3, ResponseIs
  <2> HIDE DEF first
  <2>5. \/ Classify(r) = "success" /\ DeepProbe(d, deep, listed) = WithStatus(d, r.status)
        \/ Classify(r) = "auth" /\ DeepProbe(d, deep, listed) = AuthErrorDecision(r.status, listed)
        \/ /\ Classify(r) = "quota"
           /\ DeepProbe(d, deep, listed) = Decided(IF listed THEN "keep" ELSE "disable", TRUE,
                                                   r.status, listed)
    <3> HIDE DEF r
    <3>. QED  BY <2>2, <2>4 DEF WithStatus
  <2>. QED  BY <2>3, <2>5
<1>4. CASE deep # << >> /\ settled = {}
  <2> DEFINE some == \E i \in DOMAIN deep : deep[i].status # 0
  <2>1. DeepProbe(d, deep, listed)
             = [d EXCEPT !.action = "keep", !.error = TRUE,
                         !.status = IF some THEN deep[last].status ELSE @]
    BY <1>4 DEF DeepProbe, LastWhere
  <2>2. CASE ~some
    <3>1. DeepProbe(d, deep, listed) = AsError(d, d.status)
      BY <2>1, <2>2 DEF AsError, Result
    <3>. QED  BY <1>4, <3>1
  <2>3. CASE some
    <3>1. answered \in SUBSET (1..Len(deep)) /\ answered # {}
      BY <1>1, <2>3
    <3>2. \E i \in answered : \A j \in answered : i >= j
      <4> HIDE DEF answered
      <4>. QED  BY <1>1, <3>1, GreatestExists
    <3>3. last \in DOMAIN deep
      BY <3>2
    <3>4. DeepProbe(d, deep, listed) = AsError(d, deep[last].status)
      <4> HIDE DEF some, last
      <4>. QED  BY <2>1, <2>3 DEF AsError
    <3> HIDE DEF last
    <3>. QED  BY <1>4, <3>3, <3>4
  <2>. QED  BY <2>2, <2>3
<1>. QED  BY <1>2, <1>3, <1>4

\* Status codes of one class are of no other.
LEMMA Classes ==
  ASSUME NEW r \in Response
  PROVE  /\ IsSuccess(r.status) => ~IsAccountErrorStatus(r.status) /\ r.status \notin {0, 402}
         /\ IsAccountErrorStatus(r.status) => r.status \notin {0, 402}
         /\ Classify(r) = "success" => IsSuccess(r.status)
         /\ Classify(r) = "auth" => IsAccountErrorStatus(r.status)
         /\ Classify(r) = "quota" => IsExhausted(r)
         /\ Classify(r) = "transient" => ~IsAccountErrorStatus(r.status)
BY DEF Response, Classify, IsSuccess, IsAccountErrorStatus, IsExhausted

\* The decision on one response, of a provider that has one quota URL.
LEMMA SingleFounded ==
  ASSUME NEW x \in Answer, ~x.refreshFails, Len(x.quota) = 1, x.deep = << >>, NEW listed \in BOOLEAN,
         NEW p
  PROVE  /\ Founded(InspectPlain(Head(x.quota), listed), p, x)
         /\ Founded(InspectCodex(Head(x.quota), listed), p, x)
<1> DEFINE r == Head(x.quota)
<1>1. /\ r \in Response /\ r = x.quota[1] /\ DOMAIN x.quota = {1}
      /\ r.status \in Nat /\ r.body \in {"low", "over", "blank", "empty", "content", "exhausted", "garbled"}
  <2>1. x.quota \in Seq(Response) /\ Len(x.quota) = 1
    BY DEF Answer
  <2>2. x.quota[1] \in Response /\ DOMAIN x.quota = {1} /\ r = x.quota[1]
    BY <2>1
  <2>. QED  BY <2>2 DEF Response
<1>2. Deep(x) = << >> /\ (Heard(x) <=> IsSuccess(r.status) /\ Parses(r.body))
  BY <1>1 DEF Deep, Heard
<1>3. /\ IsAccountErrorStatus(r.status) /\ ~IsSuccess(r.status) => Denies(x)
      /\ ~(IsSuccess(r.status) /\ Parses(r.body)) /\ ~IsAccountErrorStatus(r.status) => Fails(p, x)
      /\ IsExhausted(r) => Exhausts(x)
      /\ IsSuccess(r.status) /\ ~IsExhausted(r) => Recovers(x)
  BY <1>1, <1>2 DEF Denies, Fails, Exhausts, Recovers, IsDenied
<1>4. /\ IsSuccess(r.status) => ~IsAccountErrorStatus(r.status) /\ r.status \notin {0, 402}
      /\ IsAccountErrorStatus(r.status) => r.status \notin {0, 402}
  BY <1>1, Classes
<1>5. ~IsAccountErrorStatus(0) /\ ~IsSuccess(0)
  BY DEF IsAccountErrorStatus, IsSuccess
<1> HIDE DEF r
<1>6. ASSUME NEW status \in Nat, ~IsAccountErrorStatus(status), Fails(p, x)
      PROVE  Founded(Failed(status, listed), p, x)
  BY <1>6 DEF Founded, Failed, IsAccountInvalid
<1>7. ASSUME IsAccountErrorStatus(r.status), ~IsSuccess(r.status)
      PROVE  Founded(AuthErrorDecision(r.status, listed), p, x)
  BY <1>3, <1>7 DEF Founded, AuthErrorDecision, Decided, IsRequestError
<1>8. Founded(InspectPlain(r, listed), p, x)
  <2>1. CASE r.status = 0
    BY <1>3, <1>5, <1>6, <2>1 DEF InspectPlain
  <2>2. CASE r.status # 0 /\ ~IsSuccess(r.status)
    BY <1>1, <1>3, <1>6, <1>7, <2>2 DEF InspectPlain
  <2>3. CASE IsSuccess(r.status) /\ ~Parses(r.body)
    <3>1. InspectPlain(r, listed) = Failed(r.status, listed)
      BY <1>4, <2>3 DEF InspectPlain
    <3>. QED  BY <1>1, <1>3, <1>4, <1>6, <2>3, <3>1
  <2>4. CASE IsSuccess(r.status) /\ Parses(r.body)
    <3>1. InspectPlain(r, listed) = QuotaDecision(Used(r.body), HasData(r.body), r.status, listed)
      BY <1>4, <2>4 DEF InspectPlain
    <3>2. Used(r.body) = "over" <=> r.body = "over"
      BY DEF Used
    <3> DEFINE d == QuotaDecision(Used(r.body), HasData(r.body), r.status, listed)
    <3>3. /\ d.status = r.status /\ ~d.error /\ (d.quota <=> r.body = "over")
          /\ d.action = "enable" => ~d.quota
      BY <3>2 DEF QuotaDecision, Decided
    <3> HIDE DEF d
    <3>4. ~IsAccountInvalid(d) /\ ~IsRequestError(d)
      BY <1>4, <2>4, <3>3 DEF IsAccountInvalid, IsRequestError
    <3>5. (r.body = "over" => IsExhausted(r)) /\ (r.body # "over" => ~IsExhausted(r))
      BY <1>4, <2>4 DEF IsExhausted, Parses
    <3>. QED  BY <1>3, <2>4, <3>1, <3>3, <3>4, <3>5 DEF Founded, d
  <2>. QED  BY <2>1, <2>2, <2>3, <2>4
<1>9. Founded(InspectCodex(r, listed), p, x)
  <2>1. CASE r.status = 0
    BY <1>3, <1>5, <1>6, <2>1 DEF InspectCodex
  <2>2. CASE r.status = 401
    <3>1. InspectCodex(r, listed) = Decided("delete", FALSE, r.status, listed)
      BY <2>2 DEF InspectCodex, CodexDecision
    <3>2. IsAccountErrorStatus(r.status)
      BY <2>2 DEF IsAccountErrorStatus
    <3>. QED  BY <1>3, <1>4, <3>1, <3>2 DEF Founded, Decided, IsRequestError
  <2>3. CASE r.status # 401 /\ IsAccountErrorStatus(r.status)
    <3>1. InspectCodex(r, listed) = AuthErrorDecision(r.status, listed)
      BY <1>4, <2>3 DEF InspectCodex, CodexDecision
    <3>. QED  BY <1>4, <1>7, <2>3, <3>1
  <2>4. CASE r.status \notin {0, 401} /\ ~IsAccountErrorStatus(r.status)
    <3> DEFINE full == IsExhausted(r)
    <3>1. Used(r.body) = "over" <=> r.body = "over"
      BY DEF Used
    <3>2. InspectCodex(r, listed)
             = IF full THEN Decided(IF listed THEN "keep" ELSE "disable", TRUE, r.status, listed)
               ELSE Decided(IF r.status = 200 /\ listed THEN "enable" ELSE "keep", FALSE, r.status, listed)
      <4>1. full <=> r.status = 402 \/ r.body = "exhausted" \/ Used(r.body) = "over"
        BY <3>1 DEF IsExhausted
      <4> HIDE DEF full
      <4>. QED  BY <2>4, <4>1 DEF InspectCodex, CodexDecision
    <3>3. r.status = 200 => IsSuccess(r.status)
      BY DEF IsSuccess
    <3> HIDE DEF full
    <3>4. CASE full
      BY <1>3, <3>2, <3>4 DEF Founded, Decided, IsAccountInvalid, IsRequestError, full
    <3>5. CASE ~full
      BY <1>3, <2>4, <3>2, <3>3, <3>5 DEF Founded, Decided, IsAccountInvalid, IsRequestError, full
    <3>. QED  BY <3>4, <3>5
  <2>. QED  BY <2>1, <2>2, <2>3, <2>4
<1>. QED  BY <1>8, <1>9 DEF r

\* The decision on the quota URLs of an antigravity account and on its deep probe.
LEMMA AntigravityFounded ==
  ASSUME NEW x \in Answer, ~x.refreshFails, NEW listed \in BOOLEAN, settings.deep \in BOOLEAN
  PROVE  Founded(InspectAntigravity(x, settings.deep, listed), "antigravity", x)
<1> DEFINE urls   == x.quota
           good   == {i \in DOMAIN urls : IsSuccess(urls[i].status) /\ Parses(urls[i].body)}
           denied == {i \in DOMAIN urls : IsAccountErrorStatus(urls[i].status)}
           first  == CHOOSE i \in good : \A j \in good : i <= j
           last   == CHOOSE i \in denied : \A j \in denied : i >= j
           e      == InspectAntigravity(x, settings.deep, listed)
<1>1. urls \in Seq(Response) /\ x.deep \in Seq(Response)
  BY DEF Answer
<1>2. DOMAIN urls = 1..Len(urls) /\ Len(urls) \in Nat /\ \A i \in DOMAIN urls : urls[i] \in Response
  BY <1>1
<1>3. CASE good # {}
  <2>1. first \in good
    <3>1. good \in SUBSET Nat
      BY <1>2
    <3> HIDE DEF good
    <3>2. \E i \in good : \A j \in good : i <= j
      BY <1>3, <3>1, LeastExists
    <3>. QED  BY <3>2
  <2> DEFINE r == urls[first]
             d == QuotaDecision(Used(r.body), Used(r.body) # "none", r.status, listed)
  <2>2. e = IF settings.deep /\ Used(r.body) # "none" /\ ~d.quota
            THEN DeepProbe(d, x.deep, listed) ELSE d
    BY <1>3 DEF InspectAntigravity, First
  <2>3. /\ first \in DOMAIN urls /\ r \in Response /\ IsSuccess(r.status) /\ Parses(r.body)
        /\ r.status \in Nat /\ Heard(x)
    BY <1>2, <2>1, ResponseIs DEF Heard
  <2> HIDE DEF first, r
  <2>4. ~IsAccountErrorStatus(r.status) /\ r.status \notin {0, 402}
    BY <2>3, Classes
  <2>5. (Used(r.body) = "over" <=> r.body = "over") /\ r.body # "exhausted"
    BY <2>3 DEF Used, Parses
  <2>6. /\ d \in Result /\ d.status = r.status /\ ~d.error
        /\ d.quota <=> r.body = "over"
        /\ d.action = "enable" => ~d.quota /\ Used(r.body) # "none"
    BY <2>3, <2>5 DEF QuotaDecision, Decided, Result, Action
  <2>7. /\ d.quota => Exhausts(x)
        /\ ~d.quota => \E i \in DOMAIN x.quota : IsSuccess(x.quota[i].status) /\ ~IsExhausted(x.quota[i])
    BY <2>3, <2>4, <2>5, <2>6 DEF Exhausts, IsExhausted, r
  <2> HIDE DEF d, urls
  <2>8. ~IsAccountInvalid(d) /\ ~IsRequestError(d)
    BY <2>4, <2>6 DEF IsAccountInvalid, IsRequestError
  <2>9. CASE settings.deep /\ Used(r.body) # "none" /\ ~d.quota
    <3>1. Deep(x) = x.deep /\ e = DeepProbe(d, x.deep, listed)
      BY <2>2, <2>9 DEF Deep
    <3>2. ASSUME x.deep = << >>, e = d PROVE Founded(e, "antigravity", x)
      BY <2>7, <2>8, <2>9, <3>1, <3>2 DEF Founded, Recovers
    <3>3. ASSUME NEW i \in DOMAIN x.deep, Classify(x.deep[i]) = "success",
                 e = WithStatus(d, x.deep[i].status)
          PROVE  Founded(e, "antigravity", x)
      <4>1. x.deep[i] \in Response
        BY <1>1
      <4>2. ~IsAccountErrorStatus(x.deep[i].status)
        BY <3>3, <4>1, Classes
      <4>3. /\ e.status = x.deep[i].status /\ e.quota = d.quota /\ e.error = d.error
        BY <2>6, <3>3 DEF WithStatus, Result
      <4>4. ~IsAccountInvalid(e) /\ ~IsRequestError(e) /\ ~e.quota
        BY <2>6, <2>9, <4>2, <4>3 DEF IsAccountInvalid, IsRequestError
      <4>5. Recovers(x)
        BY <2>7, <2>9, <3>1, <3>3 DEF Recovers
      <4>. QED  BY <4>4, <4>5 DEF Founded
    <3>4. ASSUME NEW i \in DOMAIN x.deep, Classify(x.deep[i]) = "auth",
                 e = AuthErrorDecision(x.deep[i].status, listed)
          PROVE  Founded(e, "antigravity", x)
      <4>1. x.deep[i] \in Response
        BY <1>1
      <4>2. IsAccountErrorStatus(x.deep[i].status)
        BY <3>4, <4>1, Classes
      <4>3. Denies(x)
        BY <2>3, <3>1, <4>2 DEF Denies, IsDenied
      <4>4. e.error = FALSE /\ e.quota = FALSE /\ e.action # "enable"
        BY <3>4 DEF AuthErrorDecision, Decided
      <4>. QED  BY <4>3, <4>4 DEF Founded, IsRequestError
    <3>5. ASSUME NEW i \in DOMAIN x.deep, Classify(x.deep[i]) = "quota",
                 e = Decided(IF listed THEN "keep" ELSE "disable", TRUE, x.deep[i].status, listed)
          PROVE  Founded(e, "antigravity", x)
      <4>1. x.deep[i] \in Response
        BY <1>1
      <4>2. Exhausts(x)
        BY <3>1, <3>5, <4>1, Classes DEF Exhausts
      <4>3. e.quota = TRUE /\ e.action # "enable"
        BY <3>5 DEF Decided
      <4>. QED  BY <4>2, <4>3 DEF Founded, IsAccountInvalid, IsRequestError
    <3>6. ASSUME NEW status, x.deep # << >>,
                 \A i \in DOMAIN x.deep : Classify(x.deep[i]) = "transient",
                 e = AsError(d, status),
                 status = d.status \/ \E i \in DOMAIN x.deep : status = x.deep[i].status
          PROVE  Founded(e, "antigravity", x)
      <4>1. \A i \in DOMAIN x.deep : ~IsAccountErrorStatus(x.deep[i].status)
        BY <1>1, <3>6, Classes
      <4>2. ~IsAccountErrorStatus(status)
        BY <2>4, <2>6, <3>6, <4>1
      <4>3. e.status = status /\ e.quota = d.quota /\ e.action = "keep"
        BY <2>6, <3>6 DEF AsError, Result
      <4>4. Fails("antigravity", x)
        BY <2>3, <3>1, <3>6 DEF Fails
      <4>. QED  BY <2>9, <4>2, <4>3, <4>4 DEF Founded, IsAccountInvalid
    <3> HIDE DEF e
    <3>7. \/ x.deep = << >> /\ e = d
          \/ \E i \in DOMAIN x.deep :
               \/ Classify(x.deep[i]) = "success" /\ e = WithStatus(d, x.deep[i].status)
               \/ Classify(x.deep[i]) = "auth" /\ e = AuthErrorDecision(x.deep[i].status, listed)
               \/ /\ Classify(x.deep[i]) = "quota"
                  /\ e = Decided(IF listed THEN "keep" ELSE "disable", TRUE, x.deep[i].status, listed)
          \/ /\ x.deep # << >> /\ \A i \in DOMAIN x.deep : Classify(x.deep[i]) = "transient"
             /\ \E status : /\ e = AsError(d, status)
                            /\ status = d.status \/ \E i \in DOMAIN x.deep : status = x.deep[i].status
      <4>1. d \in Result /\ x.deep \in Seq(Response)
        BY <1>1, <2>6
      <4> DEFINE f == DeepProbe(d, x.deep, listed)
      <4>2. \/ x.deep = << >> /\ f = d
            \/ \E i \in DOMAIN x.deep :
                 \/ Classify(x.deep[i]) = "success" /\ f = WithStatus(d, x.deep[i].status)
                 \/ Classify(x.deep[i]) = "auth" /\ f = AuthErrorDecision(x.deep[i].status, listed)
                 \/ /\ Classify(x.deep[i]) = "quota"
                    /\ f = Decided(IF listed THEN "keep" ELSE "disable", TRUE, x.deep[i].status, listed)
            \/ /\ x.deep # << >> /\ \A i \in DOMAIN x.deep : Classify(x.deep[i]) = "transient"
               /\ \E status : /\ f = AsError(d, status)
                              /\ status = d.status \/ \E i \in DOMAIN x.deep : status = x.deep[i].status
        BY <4>1, DeepIs
      <4>3. e = f
        BY <3>1
      <4> HIDE DEF f
      <4>. QED  BY <4>2, <4>3
    <3>8. Founded(e, "antigravity", x)
      BY <3>2, <3>3, <3>4, <3>5, <3>6, <3>7
    <3>. QED  BY <3>8 DEF e
  <2>10. CASE ~(settings.deep /\ Used(r.body) # "none" /\ ~d.quota)
    <3>1. e = d
      BY <2>2, <2>10
    <3>2. d.action = "enable" => Deep(x) = << >> /\ ~d.quota
      BY <2>6, <2>10 DEF Deep
    <3>3. d.action = "enable" => Recovers(x)
      BY <2>7, <3>2 DEF Recovers
    <3>. QED  BY <2>7, <2>8, <3>1, <3>3 DEF Founded
  <2>. QED  BY <2>9, <2>10
<1>4. CASE good = {} /\ denied # {}
  <2>1. denied \in SUBSET (1..Len(urls))
    BY <1>2
  <2>2. last \in denied
    <3> HIDE DEF denied
    <3>1. \E i \in denied : \A j \in denied : i >= j
      BY <1>2, <1>4, <2>1, GreatestExists
    <3>. QED  BY <3>1
  <2>3. e = AuthErrorDecision(urls[last].status, listed)
    BY <1>4 DEF InspectAntigravity, LastWhere
  <2>4. e.error = FALSE /\ e.quota = FALSE /\ e.action # "enable"
    <3> HIDE DEF last
    <3>. QED  BY <2>3 DEF AuthErrorDecision, Decided
  <2>5. Denies(x)
    BY <1>4, <2>2 DEF Denies, Heard, IsDenied
  <2> HIDE DEF e
  <2>. QED  BY <2>4, <2>5 DEF Founded, IsRequestError, e
<1>5. CASE good = {} /\ denied = {}
  <2>1. e = Failed(0, listed)
    BY <1>5 DEF InspectAntigravity
  <2>2. Fails("antigravity", x)
    BY <1>5 DEF Fails, Heard, IsDenied
  <2>3. ~IsAccountErrorStatus(0)
    BY DEF IsAccountErrorStatus
  <2>. QED  BY <2>1, <2>2, <2>3 DEF Founded, Failed, IsAccountInvalid
<1>. QED  BY <1>3, <1>4, <1>5

\* Whatever the provider and the answer, a decision is founded on what was said.
LEMMA InspectFounded ==
  ASSUME NEW p, NEW x \in Answer, p = "antigravity" \/ (Len(x.quota) = 1 /\ x.deep = << >>),
         NEW listed \in BOOLEAN, settings.deep \in BOOLEAN
  PROVE  Founded(Inspect(p, x, settings.deep, listed), p, x)
<1>1. ASSUME Inspect(p, x, settings.deep, listed) = Failed(0, listed), Fails(p, x)
      PROVE  Founded(Inspect(p, x, settings.deep, listed), p, x)
  BY <1>1 DEF Founded, Failed, IsAccountInvalid, IsAccountErrorStatus
<1>2. CASE x.refreshFails
  BY <1>1, <1>2 DEF Inspect, Fails
<1>3. CASE ~x.refreshFails /\ p = "antigravity"
  <2>1. Inspect(p, x, settings.deep, listed) = InspectAntigravity(x, settings.deep, listed)
    BY <1>3 DEF Inspect
  <2>. QED  BY <1>3, <2>1, AntigravityFounded
<1>4. CASE ~x.refreshFails /\ p \in {"claude", "kimi", "xai"}
  <2>1. Inspect(p, x, settings.deep, listed) = InspectPlain(Head(x.quota), listed)
    BY <1>4 DEF Inspect, InspectClaude, InspectKimi, InspectXAI
  <2>. QED  BY <1>4, <2>1, SingleFounded
<1>5. CASE ~x.refreshFails /\ p = "codex"
  <2>1. Inspect(p, x, settings.deep, listed) = InspectCodex(Head(x.quota), listed)
    BY <1>5 DEF Inspect
  <2>. QED  BY <1>5, <2>1, SingleFounded
<1>6. CASE ~x.refreshFails /\ p \notin {"antigravity", "claude", "kimi", "xai", "codex"}
  BY <1>1, <1>6 DEF Inspect, Fails
<1>. QED  BY <1>2, <1>3, <1>4, <1>5, <1>6

\* The case and the setting behind an automatic action.
LEMMA ActionForIs ==
  ASSUME NEW r \in Result, NEW s \in Settings
  PROVE  LET asked(action) == \/ IsAccountInvalid(r) /\ s.invalid = action
                              \/ IsRequestError(r) /\ s.requestError = action
         IN  /\ AutoActionFor(r, s) = "disable" => IF r.quota THEN s.quotaDisable ELSE asked("disable")
             /\ AutoActionFor(r, s) = "delete" => ~r.quota /\ asked("delete")
             /\ AutoActionFor(r, s) = "enable" => r.action = "enable" /\ s.recovery
<1>1. s.invalid \in {"none", "disable", "delete"} /\ s.requestError \in {"none", "disable", "delete"}
  BY DEF Settings
<1>2. \A wanted : /\ ActionForError(r, wanted) \in {"none", wanted}
                  /\ ActionForError(r, wanted) # "none" => wanted \in {"delete", "disable"}
  BY DEF ActionForError
<1>3. CASE IsAccountInvalid(r)
  <2>1. AutoActionFor(r, s) = ActionForError(r, s.invalid) /\ ~r.quota
    BY <1>3 DEF AutoActionFor, IsAccountInvalid, IsRequestError
  <2>. QED  BY <1>1, <1>2, <1>3, <2>1
<1>4. CASE IsRequestError(r)
  <2>1. AutoActionFor(r, s) = ActionForError(r, s.requestError) /\ ~r.quota
    BY <1>4 DEF AutoActionFor, IsAccountInvalid, IsRequestError
  <2>. QED  BY <1>1, <1>2, <1>4, <2>1
<1>5. CASE ~IsAccountInvalid(r) /\ ~IsRequestError(r)
  BY <1>5 DEF AutoActionFor
<1>. QED  BY <1>3, <1>4, <1>5

-----------------------------------------------------------------------------
(* Typing.                                                                  *)

LEMMA AnswersAre ==
  ASSUME NEW a \in Accounts
  PROVE  /\ AnswersTo[a] \subseteq Answers
         /\ \A x \in AnswersTo[a] : x \in Answer /\ x.quota # << >>
         /\ NoAnswer \in Answers
<1>1. AnswersTo[a] # {} /\ AnswersTo[a] \subseteq {x \in Answer : x.quota # << >>}
  BY AccountAssumption
<1>2. AnswersTo[a] \subseteq Answers
  BY DEF Answers
<1>3. \E x \in Answers : TRUE
  BY <1>1, <1>2
<1>. QED  BY <1>1, <1>2, <1>3 DEF NoAnswer

LEMMA KnownAnswers == \A x \in Answers : x \in Answer /\ x.quota # << >>
BY AccountAssumption DEF Answers

LEMMA NormalizeTyped ==
  ASSUME NEW raw \in RawSettings
  PROVE  Normalize(raw) \in Settings
<1>1. MaxConfirmations \in Nat \ {0}
  BY AccountAssumption
<1> DEFINE invalid == NormalizeAutoAction(raw.invalid)
           request == NormalizeAutoAction(raw.requestError)
           times   == NormalizeConfirmations(raw.confirmations)
<1>2. invalid \in {"none", "disable", "delete"} /\ request \in {"none", "disable", "delete"}
  BY DEF NormalizeAutoAction
<1>3. times \in 1..MaxConfirmations
  BY <1>1 DEF RawSettings, NormalizeConfirmations
<1>4. Normalize(raw) = [raw EXCEPT !.invalid = invalid, !.requestError = request, !.confirmations = times]
  BY DEF Normalize, RawSettings
<1> HIDE DEF invalid, request, times
<1>. QED  BY <1>2, <1>3, <1>4 DEF RawSettings, Settings

LEMMA KeptResult == ASSUME NEW b \in BOOLEAN PROVE Decided("keep", FALSE, 0, b) \in Result
BY DEF Decided, Result, Action

LEMMA InspectTyped ==
  ASSUME NEW p, NEW x \in Answers, NEW deepEnabled, NEW b, b \in BOOLEAN
  PROVE  Inspect(p, x, deepEnabled, b) \in Result /\ Inspect(p, x, deepEnabled, b).disabled = b
<1>1. Twins(Inspect(p, x, deepEnabled, FALSE), Inspect(p, x, deepEnabled, TRUE))
  BY KnownAnswers, InspectTwins
<1>2. CASE b = FALSE
  BY <1>1, <1>2 DEF Twins
<1>3. CASE b = TRUE
  BY <1>1, <1>3 DEF Twins
<1>. QED  BY <1>2, <1>3

LEMMA CountsTyped ==
  /\ NoCounts \in [AutoAction \X Category -> 0..MaxConfirmations]
  /\ MaxConfirmations \in Nat \ {0} /\ 0 \in 0..MaxConfirmations /\ 1 \in 0..MaxConfirmations
  /\ \A n \in 0..MaxConfirmations : /\ Min2(n + 1, MaxConfirmations) \in 0..MaxConfirmations
                                    /\ Min2(n + 1, MaxConfirmations) >= 1
                                    /\ Min2(n + 1, MaxConfirmations) >= n
BY AccountAssumption DEF NoCounts, Min2

\* What a worker's part before an execution does, case by case.
LEMMA DecideIs ==
  ASSUME TypeOK, NEW a \in Accounts, Decide(a)
  PROVE  LET wanted == AutoActionFor(result[a], settings)
         IN  /\ a \in todo /\ todo' = todo \ {a}
             /\ wanted \in AutoAction \cup {"none"}
             /\ \/ acting' = acting
                \/ wanted # "none" /\ acting' = [acting EXCEPT ![a] = wanted]
             /\ \/ UNCHANGED <<deleted, deletions>>
                \/ /\ FileOf[a] \notin deleted
                   /\ deleted' = deleted \cup {FileOf[a]}
                   /\ deletions' = [deletions EXCEPT ![FileOf[a]] = @ + 1]
<1> DEFINE wanted == AutoActionFor(result[a], settings)
<1>1. wanted \in AutoAction \cup {"none"}
  BY ActionIs DEF TypeOK
<1>2. a \in todo /\ todo' = todo \ {a}
  BY DEF Decide
<1>3. CASE wanted = "none"
  BY <1>1, <1>2, <1>3 DEF Decide
<1>4. CASE wanted # "none"
  <2>1. PICK yes \in BOOLEAN :
            IF ~yes THEN UNCHANGED <<acting, deleted, deletions>>
            ELSE IF wanted = "delete" THEN MarkDeleted(a)
            ELSE acting' = [acting EXCEPT ![a] = wanted] /\ UNCHANGED <<deleted, deletions>>
    BY <1>4 DEF Decide
  <2> HIDE DEF wanted
  <2>5. /\ \/ acting' = acting
           \/ wanted # "none" /\ acting' = [acting EXCEPT ![a] = wanted]
        /\ \/ UNCHANGED <<deleted, deletions>>
           \/ /\ FileOf[a] \notin deleted
              /\ deleted' = deleted \cup {FileOf[a]}
              /\ deletions' = [deletions EXCEPT ![FileOf[a]] = @ + 1]
    BY <1>4, <2>1 DEF MarkDeleted
  <2>. QED  BY <1>1, <1>2, <2>5 DEF wanted
<1>. QED  BY <1>3, <1>4

\* The counts of a worker's step: cleared, or one of them raised as far as the
\* inspections that called for an action are; an action is begun only with
\* enough of them.
LEMMA CountIs ==
  ASSUME TypeOK, CountInv, NEW a \in Accounts, Decide(a)
  PROVE  /\ counts' \in [Accounts -> [AutoAction \X Category -> 0..MaxConfirmations]]
         /\ since' \in [Accounts -> 0..MaxConfirmations]
         /\ \A b \in Accounts \ {a} : counts'[b] = counts[b] /\ since'[b] = since[b]
         /\ \A k \in AutoAction \X Category : counts'[a][k] <= since'[a]
         /\ acting' # acting => since'[a] >= settings.confirmations
<1> DEFINE wanted == AutoActionFor(result[a], settings)
           key    == <<wanted, CategoryOf(result[a], wanted)>>
           count  == Min2(counts[a][key] + 1, MaxConfirmations)
           tally  == Min2(since[a] + 1, MaxConfirmations)
<1>0. /\ counts \in [Accounts -> [AutoAction \X Category -> 0..MaxConfirmations]]
      /\ since \in [Accounts -> 0..MaxConfirmations]
      /\ settings.confirmations \in 1..MaxConfirmations
  BY DEF TypeOK, Settings
<1>1. wanted \in AutoAction \cup {"none"}
  BY ActionIs DEF TypeOK
<1>2. since' = [since EXCEPT ![a] = IF wanted = "none" THEN 0 ELSE tally]
  BY DEF Decide
<1>3. CASE wanted = "none"
  <2>1. counts' = [counts EXCEPT ![a] = NoCounts] /\ acting' = acting
    BY <1>3 DEF Decide
  <2>2. since' = [since EXCEPT ![a] = 0]
    BY <1>2, <1>3
  <2>3. counts'[a] = NoCounts /\ since'[a] = 0
    BY <1>0, <2>1, <2>2
  <2>4. \A k \in AutoAction \X Category : counts'[a][k] <= since'[a]
    BY <2>3 DEF NoCounts
  <2>. QED  BY <1>0, <2>1, <2>2, <2>4, CountsTyped
<1>4. CASE wanted # "none"
  <2>1. PICK yes \in BOOLEAN : Confirm(a, wanted, yes) /\ (~yes => acting' = acting)
    BY <1>4 DEF Decide
  <2>2. key \in AutoAction \X Category
    BY <1>1, <1>4 DEF CategoryOf, Category
  <2>3. IF settings.confirmations <= 1
        THEN yes /\ UNCHANGED counts
        ELSE counts' = [counts EXCEPT ![a][key] = count] /\ yes = (count >= settings.confirmations)
    BY <2>1 DEF Confirm
  <2> HIDE DEF wanted, key
  <2>4. /\ counts[a] \in [AutoAction \X Category -> 0..MaxConfirmations]
        /\ counts[a][key] \in 0..MaxConfirmations /\ since[a] \in 0..MaxConfirmations
        /\ counts[a][key] <= since[a]
    BY <1>0, <2>2 DEF CountInv
  <2>5. count \in 0..MaxConfirmations /\ tally \in 0..MaxConfirmations /\ count <= tally
        /\ tally >= since[a] /\ tally >= 1
    BY <2>4, CountsTyped DEF Min2
  <2> HIDE DEF count, tally
  <2>6. since' = [since EXCEPT ![a] = tally] /\ since'[a] = tally
    BY <1>0, <1>2, <1>4
  <2>7. CASE settings.confirmations <= 1
    <3>1. counts' = counts
      BY <2>3, <2>7
    <3>2. \A k \in AutoAction \X Category : counts'[a][k] <= since'[a]
      <4>1. \A k \in AutoAction \X Category : counts[a][k] <= since[a] /\ counts[a][k] \in 0..MaxConfirmations
        BY <2>4 DEF CountInv
      <4>. QED  BY <2>4, <2>5, <2>6, <3>1, <4>1, CountsTyped
    <3>3. since'[a] >= settings.confirmations
      BY <1>0, <2>5, <2>6, <2>7, CountsTyped
    <3>. QED  BY <1>0, <2>5, <2>6, <3>1, <3>2, <3>3
  <2>8. CASE ~(settings.confirmations <= 1)
    <3>1. counts' = [counts EXCEPT ![a][key] = count] /\ yes = (count >= settings.confirmations)
      BY <2>3, <2>8
    <3> DEFINE own == [counts[a] EXCEPT ![key] = count]
    <3>2. counts' = [counts EXCEPT ![a] = own]
      BY <1>0, <3>1
    <3>3. own \in [AutoAction \X Category -> 0..MaxConfirmations]
      BY <2>2, <2>4, <2>5
    <3>4. \A k \in AutoAction \X Category : own[k] <= tally
      <4>1. \A k \in AutoAction \X Category : counts[a][k] <= since[a] /\ counts[a][k] \in 0..MaxConfirmations
        BY <2>4 DEF CountInv
      <4>. QED  BY <2>2, <2>4, <2>5, <4>1, CountsTyped
    <3> HIDE DEF own
    <3>5. counts' \in [Accounts -> [AutoAction \X Category -> 0..MaxConfirmations]] /\ counts'[a] = own
      BY <1>0, <3>2, <3>3
    <3>6. acting' # acting => since'[a] >= settings.confirmations
      <4>1. acting' # acting => count >= settings.confirmations
        BY <2>1, <3>1
      <4>. QED  BY <1>0, <2>5, <2>6, <4>1, CountsTyped
    <3>. QED  BY <1>0, <2>5, <2>6, <3>2, <3>4, <3>5, <3>6
  <2>. QED  BY <2>7, <2>8
<1>. QED  BY <1>3, <1>4

\* What an execution leaves of the result.
LEMMA ExecutedResult ==
  ASSUME TypeOK, NEW a \in Accounts, Execute(a)
  PROVE  result' \in [Accounts -> Result] /\ \A b \in Accounts \ {a} : result'[b] = result[b]
<1> DEFINE off == IF acting[a] = "delete" THEN result[a].disabled ELSE acting[a] = "disable"
           told == [result[a] EXCEPT !.action = acting[a], !.disabled = off]
<1>1. result \in [Accounts -> Result] /\ result[a] \in Result /\ acting[a] \in Action
  <2>1. acting[a] \in AutoAction \cup {"none"} /\ acting[a] # "none"
    BY DEF TypeOK, Execute
  <2>. QED  BY <2>1 DEF TypeOK, AutoAction, Action
<1>2. off \in BOOLEAN
  BY <1>1 DEF Result
<1>3. result' = [result EXCEPT ![a] = told]
  BY <1>1 DEF Execute, Result
<1> HIDE DEF off
<1>4. told \in Result
  BY <1>1, <1>2 DEF Result
<1> HIDE DEF told
<1>. QED  BY <1>1, <1>3, <1>4

LEMMA InitTyped == Init => TypeOK
<1>1. SUFFICES ASSUME Init PROVE TypeOK
  OBVIOUS
<1>2. settings \in Settings /\ provider \in AnyProvider /\ present \subseteq Files
  <2>1. PICK start \in Starts :
          settings = Normalize(start.raw) /\ present = start.files /\ provider = start.provider
    BY <1>1 DEF Init
  <2>2. start.raw \in RawSettings /\ start.files \subseteq {FileOf[a] : a \in Accounts}
    BY AccountAssumption
  <2>3. settings \in Settings
    BY <2>1, <2>2, NormalizeTyped
  <2>. QED  BY <2>1, <2>2, <2>3 DEF AnyProvider, Files
<1>3. result \in [Accounts -> Result]
  BY <1>1, KeptResult DEF Init
<1>4. given \in [Accounts -> Answers]
  BY <1>1, AnswersAre DEF Init
<1>5. lastAuto \in [Accounts -> [action : AutoAction \cup {"none"}, under : Answers]]
  <2>1. \A a \in Accounts :
          [action |-> "none", under |-> NoAnswer] \in [action : AutoAction \cup {"none"}, under : Answers]
    BY AnswersAre
  <2>. QED  BY <1>1, <2>1 DEF Init
<1>6. counts \in [Accounts -> [AutoAction \X Category -> 0..MaxConfirmations]]
      /\ since \in [Accounts -> 0..MaxConfirmations]
  BY <1>1, CountsTyped DEF Init
<1>. QED  BY <1>1, <1>2, <1>3, <1>4, <1>5, <1>6 DEF Init, TypeOK

LEMMA TypeStep ==
  ASSUME TypeOK, CountInv, [Next]_vars
  PROVE  TypeOK'
<1>1. CASE UNCHANGED vars
  BY <1>1 DEF vars, TypeOK
<1>2. CASE ProbeSome
  <2>1. PICK sample \in SUBSET Existing :
          \E answer \in [sample -> UNION {AnswersTo[a] : a \in sample}] : Probe(sample, answer)
    BY <1>2 DEF ProbeSome
  <2>2. PICK answer \in [sample -> UNION {AnswersTo[a] : a \in sample}] : Probe(sample, answer)
    BY <2>1
  <2>3. sample \subseteq Accounts
    BY DEF Existing
  <2>4. \A a \in sample : answer[a] \in Answers
    BY <2>2, <2>3, AnswersAre DEF Probe, Fits
  <2>5. given' \in [Accounts -> Answers]
    BY <2>2, <2>4, AnswersAre DEF Probe
  <2>6. result' \in [Accounts -> Result]
    <3>1. ASSUME NEW a \in sample
          PROVE  Inspect(provider[a], answer[a], settings.deep, disabled[a]) \in Result
      BY <2>3, <2>4, InspectTyped DEF TypeOK
    <3>. QED  BY <2>2, <3>1, KeptResult DEF Probe
  <2>. QED  BY <2>2, <2>3, <2>5, <2>6 DEF Probe, TypeOK
<1>3. ASSUME NEW a \in Accounts, Decide(a) PROVE TypeOK'
  <2>1. /\ todo' = todo \ {a}
        /\ acting' = acting \/ acting' = [acting EXCEPT ![a] = AutoActionFor(result[a], settings)]
        /\ AutoActionFor(result[a], settings) \in AutoAction \cup {"none"}
        /\ \/ UNCHANGED <<deleted, deletions>>
           \/ /\ deleted' = deleted \cup {FileOf[a]}
              /\ deletions' = [deletions EXCEPT ![FileOf[a]] = @ + 1]
    BY <1>3, DecideIs
  <2>2. deleted' \subseteq Files /\ deletions' \in [Files -> Nat]
    <3>1. FileOf[a] \in Files
      BY DEF Files
    <3>. QED  BY <2>1, <3>1 DEF TypeOK
  <2>3. acting' \in [Accounts -> AutoAction \cup {"none"}]
    <3> DEFINE wanted == AutoActionFor(result[a], settings)
    <3> HIDE DEF wanted
    <3>1. wanted \in AutoAction \cup {"none"} /\ (acting' = acting \/ acting' = [acting EXCEPT ![a] = wanted])
      BY <2>1 DEF wanted
    <3>. QED  BY <3>1 DEF TypeOK
  <2>4. /\ counts' \in [Accounts -> [AutoAction \X Category -> 0..MaxConfirmations]]
        /\ since' \in [Accounts -> 0..MaxConfirmations]
    BY <1>3, CountIs
  <2>5. UNCHANGED <<settings, provider, present, disabled, result, executed, given, lastAuto>>
    BY <1>3 DEF Decide
  <2>. QED  BY <2>1, <2>2, <2>3, <2>4, <2>5 DEF TypeOK
<1>4. ASSUME NEW a \in Accounts, ExecuteFails(a) PROVE TypeOK'
  BY <1>4 DEF ExecuteFails, TypeOK
<1>5. ASSUME NEW a \in Accounts, Execute(a) PROVE TypeOK'
  <2>1. result' \in [Accounts -> Result]
    BY <1>5, ExecutedResult
  <2>2. /\ counts' \in [Accounts -> [AutoAction \X Category -> 0..MaxConfirmations]]
        /\ since' \in [Accounts -> 0..MaxConfirmations]
    BY <1>5, CountsTyped DEF Execute, TypeOK
  <2>3. lastAuto' \in [Accounts -> [action : AutoAction \cup {"none"}, under : Answers]]
    <3>1. [action |-> acting[a], under |-> given[a]] \in [action : AutoAction \cup {"none"}, under : Answers]
      BY DEF TypeOK
    <3>. QED  BY <1>5, <3>1 DEF Execute, TypeOK
  <2>4. acting' \in [Accounts -> AutoAction \cup {"none"}]
    BY <1>5 DEF Execute, TypeOK
  <2>5. disabled' \in [Accounts -> BOOLEAN] /\ present' \subseteq Files
    BY <1>5 DEF Execute, TypeOK
  <2>6. executed' \subseteq Accounts
        /\ UNCHANGED <<settings, provider, todo, deleted, given, deletions>>
    BY <1>5 DEF Execute, TypeOK
  <2>. QED  BY <2>1, <2>2, <2>3, <2>4, <2>5, <2>6 DEF TypeOK
<1>6. ASSUME NEW a \in Accounts, Toggle(a) PROVE TypeOK'
  <2>1. lastAuto' \in [Accounts -> [action : AutoAction \cup {"none"}, under : Answers]]
    <3>1. [action |-> "none", under |-> NoAnswer] \in [action : AutoAction \cup {"none"}, under : Answers]
      BY AnswersAre
    <3>. QED  BY <1>6, <3>1 DEF Toggle, TypeOK
  <2>2. disabled' \in [Accounts -> BOOLEAN]
    BY <1>6 DEF Toggle, TypeOK
  <2>. QED  BY <1>6, <2>1, <2>2 DEF Toggle, TypeOK, run
<1>7. CASE Restart
  <2>1. counts' \in [Accounts -> [AutoAction \X Category -> 0..MaxConfirmations]]
    BY <1>7, CountsTyped DEF Restart
  <2>2. result' \in [Accounts -> Result] /\ given' \in [Accounts -> Answers]
    BY <1>7, KeptResult, AnswersAre DEF Restart
  <2>. QED  BY <1>7, <2>1, <2>2 DEF Restart, TypeOK
<1>. QED  BY <1>1, <1>2, <1>3, <1>4, <1>5, <1>6, <1>7 DEF Next

-----------------------------------------------------------------------------
(* The invariants.                                                          *)

LEMMA ResultStep ==
  ASSUME TypeOK, ResultInv, [Next]_vars
  PROVE  ResultInv'
<1>1. CASE UNCHANGED vars
  BY <1>1 DEF vars, ResultInv, Fits
<1>2. CASE ProbeSome
  <2>1. PICK sample \in SUBSET Existing :
          \E answer \in [sample -> UNION {AnswersTo[a] : a \in sample}] : Probe(sample, answer)
    BY <1>2 DEF ProbeSome
  <2>2. PICK answer \in [sample -> UNION {AnswersTo[a] : a \in sample}] : Probe(sample, answer)
    BY <2>1
  <2>3. SUFFICES ASSUME NEW a \in Accounts
                 PROVE  /\ acting'[a] = "none"
                        /\ a \in todo' => /\ result'[a] = Inspect(provider'[a], given'[a], settings'.deep,
                                                                  result'[a].disabled)
                                          /\ Fits(a, given[a])'
    BY DEF ResultInv
  <2>4. acting'[a] = "none"
    BY <2>2 DEF Probe, Idle
  <2>5. ASSUME a \in sample
        PROVE  result'[a] = Inspect(provider[a], answer[a], settings.deep, disabled[a])
               /\ given'[a] = answer[a] /\ result'[a].disabled = disabled[a]
    <3>1. answer[a] \in Answers
      BY <2>2, <2>5, AnswersAre DEF Probe, Fits
    <3>2. result'[a] = Inspect(provider[a], answer[a], settings.deep, disabled[a])
          /\ given'[a] = answer[a]
      BY <2>2, <2>5 DEF Probe
    <3>3. disabled[a] \in BOOLEAN
      BY DEF TypeOK
    <3>. QED  BY <3>1, <3>2, <3>3, InspectTyped
  <2>6. UNCHANGED <<provider, settings>> /\ todo' = sample
    BY <2>2 DEF Probe
  <2>7. a \in sample => Fits(a, given[a])'
    BY <2>2, <2>5, <2>6 DEF Probe, Fits
  <2>. QED  BY <2>4, <2>5, <2>6, <2>7
<1>3. ASSUME NEW a \in Accounts, Decide(a) PROVE ResultInv'
  <2>1. /\ a \in todo /\ todo' = todo \ {a}
        /\ \/ acting' = acting
           \/ acting' = [acting EXCEPT ![a] = AutoActionFor(result[a], settings)]
    BY <1>3, DecideIs
  <2>2. UNCHANGED <<settings, provider, result, given>>
    BY <1>3 DEF Decide
  <2>3. SUFFICES ASSUME NEW b \in Accounts
                 PROVE  /\ b \in todo' => acting'[b] = "none"
                        /\ b \in todo' \/ acting'[b] # "none" =>
                             /\ result[b] = Inspect(provider[b], given[b], settings.deep, result[b].disabled)
                             /\ Fits(b, given[b])
                        /\ acting'[b] # "none" => acting'[b] = AutoActionFor(result[b], settings)
    BY <2>2 DEF ResultInv, Fits
  <2>4. acting \in [Accounts -> AutoAction \cup {"none"}]
    BY DEF TypeOK
  <2>5. CASE b = a
    <3>1. result[a] = Inspect(provider[a], given[a], settings.deep, result[a].disabled)
          /\ acting[a] = "none" /\ a \notin todo' /\ Fits(a, given[a])
      BY <2>1 DEF ResultInv
    <3>2. acting'[a] = acting[a] \/ acting'[a] = AutoActionFor(result[a], settings)
      BY <2>1, <2>4
    <3>. QED  BY <2>5, <3>1, <3>2
  <2>6. CASE b # a
    <3>1. acting'[b] = acting[b] /\ (b \in todo' <=> b \in todo)
      BY <2>1, <2>4, <2>6
    <3>. QED  BY <3>1 DEF ResultInv
  <2>. QED  BY <2>5, <2>6
<1>4. ASSUME NEW a \in Accounts, ExecuteFails(a) \/ Execute(a) PROVE ResultInv'
  <2>1. /\ acting[a] # "none" /\ acting' = [acting EXCEPT ![a] = "none"]
        /\ UNCHANGED <<settings, provider, todo, given>>
        /\ \A b \in Accounts \ {a} : result'[b] = result[b]
    BY <1>4, ExecutedResult DEF ExecuteFails, Execute
  <2>2. SUFFICES ASSUME NEW b \in Accounts
                 PROVE  /\ b \in todo => acting'[b] = "none"
                        /\ b \in todo \/ acting'[b] # "none" =>
                             /\ result'[b] = Inspect(provider[b], given[b], settings.deep, result'[b].disabled)
                             /\ Fits(b, given[b])
                        /\ acting'[b] # "none" => acting'[b] = AutoActionFor(result'[b], settings)
    BY <2>1 DEF ResultInv, Fits
  <2>3. acting \in [Accounts -> AutoAction \cup {"none"}]
    BY DEF TypeOK
  <2>4. CASE b = a
    <3>1. acting'[a] = "none" /\ a \notin todo
      BY <2>1, <2>3 DEF ResultInv
    <3>. QED  BY <2>4, <3>1
  <2>5. CASE b # a
    <3>1. acting'[b] = acting[b] /\ result'[b] = result[b]
      BY <2>1, <2>3, <2>5
    <3>. QED  BY <3>1 DEF ResultInv
  <2>. QED  BY <2>4, <2>5
<1>5. ASSUME NEW a \in Accounts, Toggle(a) PROVE ResultInv'
  BY <1>5 DEF Toggle, run, ResultInv, Fits
<1>6. CASE Restart
  BY <1>6 DEF Restart, ResultInv
<1>. QED  BY <1>1, <1>2, <1>3, <1>4, <1>5, <1>6 DEF Next

LEMMA HistoryStep ==
  ASSUME TypeOK, ResultInv, HistoryInv, [Next]_vars
  PROVE  HistoryInv'
<1>1. ASSUME UNCHANGED <<settings, provider, lastAuto>> PROVE HistoryInv'
  BY <1>1 DEF HistoryInv
<1>2. CASE UNCHANGED vars
  BY <1>1, <1>2 DEF vars
<1>3. CASE ProbeSome
  BY <1>1, <1>3 DEF ProbeSome, Probe
<1>4. ASSUME NEW a \in Accounts, Decide(a) \/ ExecuteFails(a) PROVE HistoryInv'
  BY <1>1, <1>4 DEF Decide, ExecuteFails
<1>5. CASE Restart
  BY <1>1, <1>5 DEF Restart
<1>6. ASSUME NEW a \in Accounts, Toggle(a) PROVE HistoryInv'
  <2>1. /\ UNCHANGED <<settings, provider>>
        /\ lastAuto' = [lastAuto EXCEPT ![a] = [action |-> "none", under |-> NoAnswer]]
    BY <1>6 DEF Toggle
  <2>2. lastAuto'[a].action = "none" /\ \A b \in Accounts \ {a} : lastAuto'[b] = lastAuto[b]
    BY <2>1 DEF TypeOK
  <2>. QED  BY <2>1, <2>2 DEF HistoryInv
<1>7. ASSUME NEW a \in Accounts, Execute(a) PROVE HistoryInv'
  <2>1. /\ UNCHANGED <<settings, provider>> /\ acting[a] # "none"
        /\ lastAuto' = [lastAuto EXCEPT ![a] = [action |-> acting[a], under |-> given[a]]]
    BY <1>7 DEF Execute
  <2>2. lastAuto'[a].action = acting[a] /\ lastAuto'[a].under = given[a]
        /\ \A b \in Accounts \ {a} : lastAuto'[b] = lastAuto[b]
    BY <2>1 DEF TypeOK
  <2>3. /\ acting[a] = AutoActionFor(result[a], settings)
        /\ result[a] = Inspect(provider[a], given[a], settings.deep, result[a].disabled)
    BY <2>1 DEF ResultInv
  <2>4. result[a].disabled \in BOOLEAN
    BY DEF TypeOK, Result
  <2>5. acting[a] = AutoActionFor(Inspect(provider[a], given[a], settings.deep, result[a].disabled), settings)
    BY <2>3
  <2>6. \E listed \in BOOLEAN :
          acting[a] = AutoActionFor(Inspect(provider[a], given[a], settings.deep, listed), settings)
    BY <2>4, <2>5
  <2>. QED  BY <2>1, <2>2, <2>6 DEF HistoryInv
<1>. QED  BY <1>2, <1>3, <1>4, <1>5, <1>6, <1>7 DEF Next

LEMMA CountStep ==
  ASSUME TypeOK, ResultInv, CountInv, [Next]_vars
  PROVE  CountInv'
<1>1. CASE UNCHANGED vars
  BY <1>1 DEF vars, CountInv
<1>2. CASE ProbeSome
  BY <1>2 DEF ProbeSome, Probe, CountInv
<1>3. ASSUME NEW a \in Accounts, Decide(a) PROVE CountInv'
  <2>1. /\ \A b \in Accounts \ {a} : counts'[b] = counts[b] /\ since'[b] = since[b]
        /\ \A k \in AutoAction \X Category : counts'[a][k] <= since'[a]
        /\ acting' # acting => since'[a] >= settings.confirmations
    BY <1>3, CountIs
  <2>2. settings' = settings
    BY <1>3 DEF Decide
  <2>3. acting[a] = "none" /\ \A b \in Accounts \ {a} : acting'[b] = acting[b]
    <3>1. a \in todo /\ (acting' = acting \/ acting' = [acting EXCEPT ![a] = AutoActionFor(result[a], settings)])
      BY <1>3, DecideIs
    <3>. QED  BY <3>1 DEF ResultInv, TypeOK
  <2>4. acting'[a] # "none" => since'[a] >= settings.confirmations
    BY <2>1, <2>3
  <2>. QED  BY <2>1, <2>2, <2>3, <2>4 DEF CountInv
<1>4. ASSUME NEW a \in Accounts, ExecuteFails(a) PROVE CountInv'
  BY <1>4 DEF ExecuteFails, CountInv, TypeOK
<1>5. ASSUME NEW a \in Accounts, Execute(a) PROVE CountInv'
  <2>1. /\ settings' = settings /\ counts' = [counts EXCEPT ![a] = NoCounts]
        /\ since' = [since EXCEPT ![a] = 0] /\ acting' = [acting EXCEPT ![a] = "none"]
    BY <1>5 DEF Execute
  <2>2. counts'[a] = NoCounts /\ since'[a] = 0 /\ acting'[a] = "none"
        /\ \A b \in Accounts \ {a} :
             counts'[b] = counts[b] /\ since'[b] = since[b] /\ acting'[b] = acting[b]
    BY <2>1 DEF TypeOK
  <2>3. \A k \in AutoAction \X Category : NoCounts[k] <= 0
    BY DEF NoCounts
  <2>. QED  BY <2>1, <2>2, <2>3 DEF CountInv
<1>6. ASSUME NEW a \in Accounts, Toggle(a) PROVE CountInv'
  BY <1>6 DEF Toggle, run, CountInv
<1>7. CASE Restart
  <2>1. \A a \in Accounts : since[a] \in Nat
    BY CountsTyped DEF TypeOK
  <2>2. \A a \in Accounts : \A k \in AutoAction \X Category : counts'[a][k] = 0
    BY <1>7 DEF Restart, NoCounts
  <2>3. \A a \in Accounts : acting'[a] = "none" /\ since'[a] = since[a]
    BY <1>7 DEF Restart
  <2>. QED  BY <2>1, <2>2, <2>3 DEF CountInv
<1>. QED  BY <1>1, <1>2, <1>3, <1>4, <1>5, <1>6, <1>7 DEF Next

LEMMA MarkStep ==
  ASSUME TypeOK, MarkInv, [Next]_vars
  PROVE  MarkInv'
<1>1. ASSUME UNCHANGED <<deleted, deletions>> PROVE MarkInv'
  BY <1>1 DEF MarkInv
<1>2. ASSUME deleted' = {}, deletions' = [f \in Files |-> 0] PROVE MarkInv'
  BY <1>2 DEF MarkInv
<1>3. CASE UNCHANGED vars
  BY <1>1, <1>3 DEF vars
<1>4. CASE ProbeSome \/ Restart
  BY <1>2, <1>4 DEF ProbeSome, Probe, Restart
<1>5. ASSUME NEW a \in Accounts, Decide(a) PROVE MarkInv'
  <2>1. \/ UNCHANGED <<deleted, deletions>>
        \/ /\ FileOf[a] \notin deleted
           /\ deleted' = deleted \cup {FileOf[a]}
           /\ deletions' = [deletions EXCEPT ![FileOf[a]] = @ + 1]
    BY <1>5, DecideIs
  <2>2. FileOf[a] \in Files /\ deletions \in [Files -> Nat]
    BY DEF Files, TypeOK
  <2>. QED  BY <1>1, <2>1, <2>2 DEF MarkInv
<1>6. ASSUME NEW a \in Accounts, ExecuteFails(a) \/ Execute(a) \/ Toggle(a) PROVE MarkInv'
  BY <1>1, <1>6 DEF ExecuteFails, Execute, Toggle, run
<1>. QED  BY <1>3, <1>4, <1>5, <1>6 DEF Next

-----------------------------------------------------------------------------
Inv == TypeOK /\ ResultInv /\ HistoryInv /\ CountInv /\ MarkInv

LEMMA Invariant == Spec => []Inv
<1>1. ASSUME Init PROVE Inv
  <2>1. /\ TypeOK /\ todo = {} /\ acting = [a \in Accounts |-> "none"] /\ deleted = {}
        /\ deletions = [f \in Files |-> 0] /\ counts = [a \in Accounts |-> NoCounts]
        /\ since = [a \in Accounts |-> 0]
        /\ lastAuto = [a \in Accounts |-> [action |-> "none", under |-> NoAnswer]]
    BY <1>1, InitTyped DEF Init
  <2>2. ResultInv /\ HistoryInv /\ MarkInv
    BY <2>1 DEF ResultInv, HistoryInv, MarkInv
  <2>3. CountInv
    BY <2>1 DEF CountInv, NoCounts
  <2>. QED  BY <2>1, <2>2, <2>3 DEF Inv
<1>2. Inv /\ [Next]_vars => Inv'
  BY TypeStep, ResultStep, HistoryStep, CountStep, MarkStep DEF Inv
<1>. QED  BY <1>1, <1>2, PTL DEF Spec

\* Whatever the answers, the settings a client sent are the normalized ones
\* and every result and action is one the rest of the code knows.
THEOREM TypeCorrect == Spec => []TypeOK
<1>1. Inv => TypeOK
  BY DEF Inv
<1>. QED  BY <1>1, Invariant, PTL

\* The decision of an account that is acted on, by what it was listed as.
LEMMA ActingIs ==
  ASSUME Inv, NEW a \in Accounts, acting[a] # "none"
  PROVE  LET r == Inspect(provider[a], given[a], settings.deep, FALSE)
             q == Inspect(provider[a], given[a], settings.deep, TRUE)
         IN  /\ Twins(r, q) /\ settings \in Settings
             /\ acting[a] = AutoActionFor(result[a], settings)
             /\ result[a] \in Result
             /\ result[a] = IF result[a].disabled THEN q ELSE r
<1>1. settings \in Settings /\ given[a] \in Answers /\ result[a] \in Result
  BY DEF Inv, TypeOK
<1>2. Twins(Inspect(provider[a], given[a], settings.deep, FALSE),
            Inspect(provider[a], given[a], settings.deep, TRUE))
  BY <1>1, KnownAnswers, InspectTwins
<1>3. /\ acting[a] = AutoActionFor(result[a], settings)
      /\ result[a] = Inspect(provider[a], given[a], settings.deep, result[a].disabled)
  BY DEF Inv, ResultInv
<1>4. result[a].disabled \in {TRUE, FALSE}
  BY <1>1 DEF Result
<1>5. CASE result[a].disabled = TRUE
  BY <1>1, <1>2, <1>3, <1>5
<1>6. CASE result[a].disabled = FALSE
  BY <1>1, <1>2, <1>3, <1>6
<1>. QED  BY <1>4, <1>5, <1>6

\* Automatic actions are what the settings ask for in answer to what the provider
\* said of an account listed in that state: for every provider, every answer of any
\* number of URLs and every setting (the inspectors and autoActionForResult).
THEOREM ActionsAreAsked == Spec => []ActionsFollowState
<1>1. ASSUME Inv, NEW a \in Accounts
      PROVE  LET listed == result[a].disabled
                 asked(action) == \/ settings.invalid = action /\ Denies(given[a])
                                  \/ settings.requestError = action /\ Fails(provider[a], given[a])
             IN  /\ acting[a] = "disable" => /\ ~listed
                                             /\ IF result[a].quota
                                                THEN settings.quotaDisable /\ Exhausts(given[a])
                                                ELSE asked("disable")
                 /\ acting[a] = "enable"  => listed /\ settings.recovery /\ Recovers(given[a])
                 /\ acting[a] = "delete"  => ~result[a].quota /\ asked("delete")
  <2>1. CASE acting[a] = "none"
    BY <2>1
  <2>2. CASE acting[a] # "none"
    <3> DEFINE r == Inspect(provider[a], given[a], settings.deep, FALSE)
               q == Inspect(provider[a], given[a], settings.deep, TRUE)
    <3>1. /\ Twins(r, q) /\ settings \in Settings
          /\ acting[a] = AutoActionFor(result[a], settings) /\ result[a] \in Result
          /\ result[a] = IF result[a].disabled THEN q ELSE r
      BY <1>1, <2>2, ActingIs
    <3>2. Founded(result[a], provider[a], given[a])
      <4>1. /\ result[a] = Inspect(provider[a], given[a], settings.deep, result[a].disabled)
            /\ Fits(a, given[a]) /\ given[a] \in Answers
        BY <1>1, <2>2 DEF Inv, ResultInv, TypeOK
      <4>2. /\ given[a] \in Answer
            /\ provider[a] = "antigravity" \/ (Len(given[a].quota) = 1 /\ given[a].deep = << >>)
        BY <4>1, KnownAnswers DEF Fits
      <4>3. result[a].disabled \in BOOLEAN /\ settings.deep \in BOOLEAN
        BY <3>1 DEF Result, Settings
      <4>. QED  BY <4>1, <4>2, <4>3, InspectFounded
    <3> HIDE DEF r, q
    <3>3. AutoActionFor(r, settings) # "enable" /\ AutoActionFor(q, settings) # "disable"
      BY <3>1, TwinsNeverUndo
    <3>4. /\ acting[a] = "disable" => ~result[a].disabled
          /\ acting[a] = "enable" => result[a].disabled
      BY <3>1, <3>3
    <3>5. /\ IsAccountInvalid(result[a]) => Denies(given[a])
          /\ IsRequestError(result[a]) => Fails(provider[a], given[a])
          /\ result[a].quota => Exhausts(given[a])
          /\ result[a].action = "enable" => Recovers(given[a])
      BY <3>2 DEF Founded
    <3>6. LET given_to(action) == \/ IsAccountInvalid(result[a]) /\ settings.invalid = action
                                  \/ IsRequestError(result[a]) /\ settings.requestError = action
          IN  /\ acting[a] = "disable" => IF result[a].quota THEN settings.quotaDisable
                                          ELSE given_to("disable")
              /\ acting[a] = "delete" => ~result[a].quota /\ given_to("delete")
              /\ acting[a] = "enable" => result[a].action = "enable" /\ settings.recovery
      BY <3>1, ActionForIs
    <3>. QED  BY <3>4, <3>5, <3>6
  <2>. QED  BY <2>1, <2>2
<1>2. Inv => ActionsFollowState
  BY <1>1 DEF ActionsFollowState
<1>. QED  BY <1>2, Invariant, PTL

\* Under one and the same answer an account is never disabled and enabled in
\* turns by automatic actions, whatever the provider and the settings.
THEOREM ActionsNeverUndo == Spec => []NoFlipFlop
<1>1. ASSUME Inv, NEW a \in Accounts,
             acting[a] \in {"disable", "enable"}, lastAuto[a].action \in {"disable", "enable"},
             given[a] = lastAuto[a].under
      PROVE  acting[a] = lastAuto[a].action
  <2> DEFINE r == Inspect(provider[a], given[a], settings.deep, FALSE)
             q == Inspect(provider[a], given[a], settings.deep, TRUE)
  <2>1. /\ Twins(r, q) /\ settings \in Settings
        /\ acting[a] = AutoActionFor(result[a], settings)
        /\ result[a] = IF result[a].disabled THEN q ELSE r
    BY <1>1, ActingIs
  <2>2. PICK listed \in BOOLEAN :
          lastAuto[a].action
            = AutoActionFor(Inspect(provider[a], given[a], settings.deep, listed), settings)
    BY <1>1 DEF Inv, HistoryInv
  <2>3. lastAuto[a].action \in {AutoActionFor(r, settings), AutoActionFor(q, settings)}
    <3>1. CASE listed = TRUE
      BY <2>2, <3>1
    <3>2. CASE listed = FALSE
      BY <2>2, <3>2
    <3>. QED  BY <3>1, <3>2
  <2> HIDE DEF r, q
  <2>4. acting[a] \in {AutoActionFor(r, settings), AutoActionFor(q, settings)}
    BY <2>1
  <2>5. /\ AutoActionFor(r, settings) # "enable" /\ AutoActionFor(q, settings) # "disable"
        /\ AutoActionFor(r, settings) = "disable" => AutoActionFor(q, settings) # "enable"
    BY <2>1, TwinsNeverUndo
  <2>. QED  BY <1>1, <2>3, <2>4, <2>5
<1>2. Inv => NoFlipFlop
  BY <1>1 DEF NoFlipFlop
<1>. QED  BY <1>2, Invariant, PTL

\* No two workers of a run delete the same auth file (deletedFiles).
THEOREM FilesDeletedOnce == Spec => []FileDeletedOnce
<1>1. Inv => FileDeletedOnce
  BY DEF Inv, MarkInv, FileDeletedOnce
<1>. QED  BY <1>1, Invariant, PTL

\* No action comes before the inspections in a row that the settings require,
\* whatever failed, was toggled or restarted in between (confirmAutoAction).
THEOREM ActionsAreConfirmed == Spec => []ConfirmedSinceClear
<1>1. Inv => ConfirmedSinceClear
  BY DEF Inv, CountInv, ConfirmedSinceClear
<1>. QED  BY <1>1, Invariant, PTL

-----------------------------------------------------------------------------
(* InspectionPage: what the page shows, and what it saves.                  *)

(***************************************************************************)
(* Some version of the server's state is the last that told of another     *)
(* state of the run. Whatever tells of that version or a later one tells   *)
(* the state the server is in, something that does is on its way or was    *)
(* seen or lost, and once the page has taken it in it shows that state.    *)
(***************************************************************************)
ServerFields == {"ver", "state", "run", "finished", "failed", "listed", "listedAt", "rows",
                 "manual", "enabled", "interval", "next", "arm", "settings"}
PageFields == {"settings", "draft", "plan", "next", "confirmations", "runStatus", "status",
               "started", "listed", "result", "refreshed", "filter", "pageNo", "loaded", "due",
               "live", "open"}
KnownFields == {"seq", "shown", "seen", "lost", "table", "newest", "foreign", "missed", "opts",
                "failed", "emptied", "local", "edited", "typed"}
RequestFields == {"seq", "kind", "pc", "own", "details", "body", "answer"}

Versions ==
  /\ srv.ver \in Nat \ {0} /\ known.shown \in Nat /\ known.seen \in Nat /\ known.lost \in Nat

Shape ==
  /\ DOMAIN srv = ServerFields /\ DOMAIN page = PageFields /\ DOMAIN known = KnownFields
  /\ DOMAIN stream = {"open", "queue", "unsent"}
  /\ \A r \in reqs : DOMAIN r = RequestFields /\ r.own \in Nat
  /\ stream.queue \in Seq(Range(stream.queue))
  /\ stream.open # "on" => stream.queue = << >> /\ stream.unsent = {}
  /\ stream.open \in {"no", "on", "closed"}

\* What tells of the server's state
Answering(rs) == {r.answer[1] : r \in {q \in rs : q.pc = "answered"}}
Messages(st) == st.unsent \cup Range(st.queue)

Same(m, s) == m.state = s.state /\ m.failed = s.failed /\ m.finished = s.finished

TellsOK(m, s, t) == m.ver \in Nat /\ m.ver <= s.ver /\ (m.ver >= t => Same(m, s))

ToldInv(t) == \A m \in Messages(stream) \cup Answering(reqs) : TellsOK(m, srv, t)

ComingInv(t) ==
  \/ stream.open = "no" \/ srv.state = "running" \/ known.lost >= t \/ known.seen >= t
  \/ \E m \in Messages(stream) : m.ver >= t

Shows(p, s) ==
  /\ p.runStatus = RunStatus(s)
  /\ s.state \notin Active /\ s.finished > 0 => p.refreshed = s.finished

ShownInv(t) ==
  /\ known.shown <= srv.ver
  /\ known.shown >= t /\ ~known.failed /\ ~Under("run") => Shows(page, srv)

StatusInv ==
  /\ Versions /\ Shape
  /\ \E t \in 1..srv.ver : ToldInv(t) /\ ComingInv(t) /\ ShownInv(t)

-----------------------------------------------------------------------------
(* The operators of the page. *)

LEMMA MaxOfTwo ==
  ASSUME NEW a \in Int, NEW b \in Int
  PROVE  Max({a, b}) \in {a, b} /\ Max({a, b}) >= a /\ Max({a, b}) >= b
<1>1. \E x \in {a, b} : \A y \in {a, b} : x >= y
  OBVIOUS
<1>2. Max({a, b}) \in {a, b} /\ \A y \in {a, b} : Max({a, b}) >= y
  BY <1>1 DEF Max
<1>. QED  BY <1>2

LEMMA RangeOfQueue ==
  ASSUME NEW q, q \in Seq(Range(q)), NEW m
  PROVE  /\ Append(q, m) \in Seq(Range(Append(q, m))) /\ Range(Append(q, m)) = Range(q) \cup {m}
         /\ q # << >> => /\ Tail(q) \in Seq(Range(Tail(q))) /\ Range(q) = Range(Tail(q)) \cup {Head(q)}
<1> DEFINE S == Range(q) \cup {m}
           a == Append(q, m)
<1>1. q \in Seq(S) /\ Len(q) \in Nat /\ DOMAIN q = 1..Len(q) /\ m \in S
  OBVIOUS
<1>2. a \in Seq(S) /\ Len(a) = Len(q) + 1 /\ DOMAIN a = 1..Len(a) /\ a[Len(q) + 1] = m
      /\ \A i \in 1..Len(q) : a[i] = q[i]
  BY <1>1
<1> HIDE DEF a, S
<1>3. Range(a) = Range(q) \cup {m}
  BY <1>1, <1>2 DEF Range
<1>4. a \in Seq(Range(a))
  BY <1>2, <1>3 DEF S
<1>5. ASSUME q # << >>
      PROVE  Tail(q) \in Seq(Range(Tail(q))) /\ Range(q) = Range(Tail(q)) \cup {Head(q)}
  <2> DEFINE u == Tail(q)
  <2>1. Len(q) > 0 /\ Head(q) = q[1]
    BY <1>1, <1>5
  <2>2. u \in Seq(S) /\ Len(u) = Len(q) - 1 /\ DOMAIN u = 1..Len(u)
        /\ \A i \in 1..Len(q) - 1 : u[i] = q[i + 1]
    BY <1>1, <1>5
  <2> HIDE DEF u
  <2>3. Range(q) = Range(u) \cup {q[1]}
    <3>1. \A i \in 1..Len(q) : i = 1 \/ q[i] \in Range(u)
      <4>1. ASSUME NEW i \in 1..Len(q), i # 1 PROVE q[i] \in Range(u)
        <5>1. i - 1 \in 1..Len(q) - 1 /\ u[i - 1] = q[i]
          BY <1>1, <2>1, <2>2, <4>1
        <5>. QED  BY <1>1, <2>2, <5>1 DEF Range
      <4>. QED  BY <4>1
    <3>2. \A i \in 1..Len(u) : u[i] = q[i + 1] /\ i + 1 \in 1..Len(q)
      BY <1>1, <2>1, <2>2
    <3>3. 1 \in 1..Len(q)
      BY <1>1, <2>1
    <3>4. Range(q) \subseteq Range(u) \cup {q[1]}
      <4>1. ASSUME NEW x \in Range(q) PROVE x \in Range(u) \cup {q[1]}
        <5>1. PICK i \in 1..Len(q) : x = q[i]
          BY <1>1, <4>1 DEF Range
        <5>. QED  BY <3>1, <5>1
      <4>. QED  BY <4>1
    <3>5. Range(u) \subseteq Range(q)
      <4>1. ASSUME NEW x \in Range(u) PROVE x \in Range(q)
        <5>1. PICK i \in 1..Len(u) : x = u[i]
          BY <2>2, <4>1 DEF Range
        <5>. QED  BY <1>1, <3>2, <5>1 DEF Range
      <4>. QED  BY <4>1
    <3>6. q[1] \in Range(q)
      BY <1>1, <3>3 DEF Range
    <3>. QED  BY <3>4, <3>5, <3>6
  <2>4. u \in Seq(Range(u))
    <3>1. \A i \in 1..Len(u) : u[i] \in Range(u)
      BY <2>2 DEF Range
    <3>. QED  BY <2>2, <3>1
  <2>. QED  BY <2>1, <2>3, <2>4 DEF u
<1>. QED  BY <1>3, <1>4, <1>5 DEF a

\* An effect touches the fetch of the details and the confirmations of a save.
LEMMA RenderedIs ==
  ASSUME NEW old, NEW new, DOMAIN new = PageFields, NEW p, p = Rendered(old, new)
  PROVE  /\ DOMAIN p = PageFields
         /\ p.runStatus = new.runStatus /\ p.refreshed = new.refreshed /\ p.open = new.open
         /\ p.settings = new.settings /\ p.draft = new.draft /\ p.plan = new.plan
         /\ p.confirmations = new.confirmations \/ p.confirmations = new.settings.confirmations
         /\ p.next = new.next /\ p.loaded = new.loaded
         /\ p.status = new.status /\ p.started = new.started /\ p.listed = new.listed
         /\ p.filter = new.filter /\ p.pageNo = new.pageNo
         /\ IF Fetching(old) # Fetching(new)
            THEN p.live = 0 /\ p.due = (~Held(new) /\ Key(new) # new.loaded)
            ELSE p.live = new.live /\ p.due = new.due
<1> DEFINE fetched == [new EXCEPT !.live = 0, !.due = ~Held(new) /\ Key(new) # new.loaded]
<1>1. /\ DOMAIN fetched = PageFields
      /\ fetched.runStatus = new.runStatus /\ fetched.refreshed = new.refreshed
      /\ fetched.open = new.open /\ fetched.settings = new.settings /\ fetched.draft = new.draft
      /\ fetched.plan = new.plan /\ fetched.confirmations = new.confirmations
      /\ fetched.next = new.next /\ fetched.loaded = new.loaded
      /\ fetched.status = new.status /\ fetched.started = new.started
      /\ fetched.listed = new.listed /\ fetched.filter = new.filter /\ fetched.pageNo = new.pageNo
      /\ fetched.live = 0 /\ fetched.due = (~Held(new) /\ Key(new) # new.loaded)
  BY DEF PageFields
<1> DEFINE f == IF Fetching(old) # Fetching(new) THEN fetched ELSE new
<1>2. p = f \/ p = [f EXCEPT !.confirmations = new.settings.confirmations]
  BY DEF Rendered
<1> HIDE DEF fetched
<1>3. f = IF Fetching(old) # Fetching(new) THEN fetched ELSE new
  OBVIOUS
<1> HIDE DEF f
<1>4. DOMAIN f = PageFields
  BY <1>1, <1>3
<1>5. /\ DOMAIN p = PageFields
      /\ p.runStatus = f.runStatus /\ p.refreshed = f.refreshed /\ p.open = f.open
      /\ p.settings = f.settings /\ p.draft = f.draft /\ p.plan = f.plan
      /\ p.confirmations = f.confirmations \/ p.confirmations = new.settings.confirmations
      /\ p.next = f.next /\ p.loaded = f.loaded /\ p.live = f.live /\ p.due = f.due
      /\ p.status = f.status /\ p.started = f.started /\ p.listed = f.listed
      /\ p.filter = f.filter /\ p.pageNo = f.pageNo
  BY <1>2, <1>4 DEF PageFields
<1>. QED  BY <1>1, <1>3, <1>5

LEMMA AppliedIs ==
  ASSUME NEW p, DOMAIN p = PageFields, NEW m, NEW a, a = Applied(p, m)
  PROVE  /\ DOMAIN a = PageFields
         /\ Shows(a, m)
         /\ a.open = p.open /\ a.confirmations = p.confirmations
         /\ a.settings = NormalizeConfigurableSettings(m.settings)
         /\ a.draft = DraftOf(a.settings)
<1> DEFINE taken == NormalizeConfigurableSettings(m.settings)
           refreshed == IF m.state \notin Active /\ m.finished > 0 THEN m.finished ELSE p.refreshed
           shown == IF m.details = None THEN p.result ELSE RunResult(m)
<1>1. a = [p EXCEPT !.settings = taken, !.draft = DraftOf(taken),
                    !.plan = [enabled |-> m.enabled, interval |-> m.interval],
                    !.next = Set(m.next), !.status = ProgressStatus(m), !.runStatus = RunStatus(m),
                    !.started = m.run, !.listed = m.listed, !.result = shown,
                    !.refreshed = refreshed]
  BY DEF Applied
<1> HIDE DEF taken, shown, refreshed
<1>2. /\ DOMAIN a = PageFields /\ a.runStatus = RunStatus(m) /\ a.refreshed = refreshed
      /\ a.open = p.open /\ a.confirmations = p.confirmations /\ a.settings = taken
      /\ a.draft = DraftOf(taken)
  BY <1>1 DEF PageFields
<1>. QED  BY <1>2 DEF Shows, refreshed, taken

LEMMA SeenIs ==
  ASSUME NEW p, NEW m, m.ver \in Nat, DOMAIN known = KnownFields, known.seen \in Nat, NEW k, k = Seen(p, m)
  PROVE  /\ DOMAIN k = KnownFields
         /\ k.shown = m.ver /\ k.failed = FALSE /\ k.lost = known.lost
         /\ k.seen \in Nat /\ k.seen >= m.ver /\ k.seen >= known.seen
         /\ k.typed = IF p.open /\ Typed(Applied(p, m)) # Typed(p) THEN None ELSE known.typed
<1> DEFINE seen == Max({known.seen, m.ver})
           typed == IF p.open /\ Typed(Applied(p, m)) # Typed(p) THEN None ELSE known.typed
<1>1. k = [known EXCEPT !.shown = m.ver, !.seen = seen, !.local = FALSE, !.failed = FALSE,
                !.typed = typed, !.edited = FALSE,
                !.emptied = known.emptied /\ m.details = None,
                !.table = IF m.details = None THEN @ ELSE m.ver,
                !.newest = IF m.details = None THEN @ ELSE Max({@, m.ver}),
                !.opts = IF m.details = None THEN @ ELSE m.details[1].opts]
  BY DEF Seen
<1>2. seen \in Nat /\ seen >= m.ver /\ seen >= known.seen
  <2>1. known.seen \in Int /\ m.ver \in Int
    OBVIOUS
  <2> DEFINE x == known.seen
             y == m.ver
  <2>2. x \in Int /\ y \in Int /\ seen = Max({x, y})
    BY <2>1
  <2> HIDE DEF x, y, seen
  <2>3. seen \in {x, y} /\ seen >= x /\ seen >= y
    BY <2>2, MaxOfTwo
  <2>. QED  BY <2>3 DEF x, y
<1> HIDE DEF seen, typed
<1>. QED  BY <1>1, <1>2 DEF KnownFields, typed

LEMMA SnapshotIs ==
  ASSUME NEW s, NEW d
  PROVE  /\ Snapshot(s, d).ver = s.ver /\ Same(Snapshot(s, d), s)
         /\ Snapshot(s, d).settings = s.settings
BY DEF Snapshot, Same

LEMMA StartRunIs ==
  ASSUME NEW s, DOMAIN s = ServerFields, s.ver \in Nat, NEW manual, NEW n, n = StartRun(s, manual)
  PROVE  /\ DOMAIN n = ServerFields /\ n.ver = s.ver + 1 /\ n.state = "running"
         /\ n.settings = s.settings
BY DEF StartRun, Changed, ServerFields

LEMMA ControlIs ==
  ASSUME NEW s, DOMAIN s = ServerFields, s.ver \in Nat, NEW kind, NEW n, n = Control(s, kind)
  PROVE  /\ DOMAIN n = ServerFields /\ n.ver \in Nat /\ n.settings = s.settings
         /\ n = s \/ n.ver = s.ver + 1
<1>1. n = s \/ \E state : n = Changed([s EXCEPT !.state = state])
  BY DEF Control
<1>2. ASSUME NEW state, n = Changed([s EXCEPT !.state = state])
      PROVE  DOMAIN n = ServerFields /\ n.ver = s.ver + 1 /\ n.settings = s.settings
  BY <1>2 DEF Changed, ServerFields
<1>3. CASE n = s
  BY <1>3
<1>4. CASE n # s
  <2>1. DOMAIN n = ServerFields /\ n.ver = s.ver + 1 /\ n.settings = s.settings
    BY <1>1, <1>2, <1>4
  <2>2. n.ver \in Nat
    BY <2>1
  <2>. QED  BY <2>1, <2>2
<1>. QED  BY <1>3, <1>4

LEMMA ActedIs ==
  ASSUME NEW s, DOMAIN s = ServerFields, s.ver \in Nat, NEW item, NEW action, NEW succeeds,
         NEW n, n = Acted(s, item, action, succeeds)
  PROVE  /\ DOMAIN n = ServerFields /\ n.ver = s.ver + 1 /\ Same(n, s) /\ n.settings = s.settings
<1>1. \E rows : n = Changed([s EXCEPT !.rows = rows])
  BY DEF Acted
<1>. QED  BY <1>1 DEF Changed, ServerFields, Same

LEMMA UpdatedIs ==
  ASSUME NEW s, DOMAIN s = ServerFields, s.ver \in Nat, NEW b, NEW n, n = Updated(s, b)
  PROVE  /\ DOMAIN n = ServerFields /\ n.ver = s.ver + 1 /\ Same(n, s)
         /\ n.enabled = b.enabled /\ n.interval = b.interval
         /\ n.settings = ServerNormalized(b.settings)
<1> DEFINE taken == ServerNormalized(b.settings)
<1>1. \E next, arm : n = Changed([s EXCEPT !.enabled = b.enabled, !.interval = b.interval,
                                           !.next = next, !.arm = arm, !.settings = taken])
  BY DEF Updated
<1> HIDE DEF taken
<1>2. /\ DOMAIN n = ServerFields /\ n.ver = s.ver + 1 /\ Same(n, s)
      /\ n.enabled = b.enabled /\ n.interval = b.interval /\ n.settings = taken
  BY <1>1 DEF Changed, ServerFields, Same
<1>. QED  BY <1>2 DEF taken

-----------------------------------------------------------------------------
(* The two kinds of steps. *)

Telling == Messages(stream) \cup Answering(reqs)

\* What is told after a step was told before it, or is as the server is now.
Told ==
  \A m \in Telling' :
    \/ m \in Telling
    \/ m.ver \in srv.ver..srv'.ver /\ Same(m, srv') /\ m.settings = srv'.settings

\* A message stays, or the page has seen it, or it counts as lost.
Delivered ==
  /\ known'.lost >= known.lost \/ known'.lost >= srv.ver
  /\ known'.seen >= known.seen
  /\ \A m \in Messages(stream) :
       \/ m \in Messages(stream') \/ known'.lost >= m.ver \/ known'.lost >= srv.ver
       \/ known'.seen >= m.ver
  /\ stream.open = "no" =>
       \/ stream'.open = "no" \/ known'.lost >= srv.ver
       \/ \E m \in Messages(stream') : m.ver >= srv.ver

\* The page shows what it did, or what it is told, or that it asks for a run.
Looks ==
  \/ /\ known'.shown = known.shown
     /\ \/ known'.failed \/ Under("run")'
        \/ /\ ~known.failed /\ ~Under("run")
           /\ page'.runStatus = page.runStatus /\ page'.refreshed = page.refreshed
        \/ known.failed /\ known'.failed
  \/ \E m \in Telling : known'.shown = m.ver /\ Shows(page', m)

\* A step that leaves the state of the run as it is
Quiet ==
  /\ srv'.ver >= srv.ver /\ Same(srv', srv)
  /\ Told /\ Delivered /\ Looks

\* A step that changes it, and tells so unless a run begins
News ==
  /\ srv'.ver > srv.ver
  /\ Told /\ known'.shown = known.shown
  /\ \/ srv'.state = "running" \/ stream'.open = "no" \/ known'.lost > srv.ver
     \/ \E m \in Messages(stream') : m.ver > srv.ver

LEMMA QuietKeeps ==
  ASSUME StatusInv, Versions', Shape', Quiet
  PROVE  StatusInv'
<1>1. PICK t \in 1..srv.ver : ToldInv(t) /\ ComingInv(t) /\ ShownInv(t)
  BY DEF StatusInv
<1>2. t \in Nat /\ t >= 1 /\ srv.ver \in Nat /\ srv'.ver \in Nat /\ t \in 1..srv'.ver
      /\ known.lost \in Nat /\ known.seen \in Nat /\ known'.lost \in Nat /\ known'.seen \in Nat
  BY DEF StatusInv, Versions, Quiet
<1>3. ToldInv(t)'
  BY <1>1, <1>2 DEF Quiet, Told, Telling, ToldInv, TellsOK, Same
<1>4. \A m \in Messages(stream) : m.ver \in Nat
  BY <1>1 DEF ToldInv, TellsOK
<1>5. ComingInv(t)'
  <2>1. CASE stream.open = "no"
    BY <1>1, <1>2, <1>3, <2>1 DEF Quiet, Delivered, ComingInv, ToldInv, TellsOK
  <2>2. CASE srv.state = "running"
    BY <2>2 DEF Quiet, Same, ComingInv
  <2>3. CASE known.lost >= t \/ known.seen >= t
    BY <1>2, <2>3 DEF Quiet, Delivered, ComingInv
  <2>4. ASSUME NEW m \in Messages(stream), m.ver >= t PROVE ComingInv(t)'
    BY <1>2, <1>4, <2>4 DEF Quiet, Delivered, ComingInv
  <2>. QED  BY <1>1, <2>1, <2>2, <2>3, <2>4 DEF ComingInv
<1>6. \A m \in Telling : Shows(page', m) /\ m.ver >= t => Shows(page', srv')
  <2>1. ASSUME NEW m \in Telling, Shows(page', m), m.ver >= t PROVE Shows(page', srv')
    <3>1. Same(m, srv) /\ Same(srv', srv)
      BY <1>1, <2>1 DEF Telling, ToldInv, TellsOK, Quiet
    <3>. QED  BY <2>1, <3>1 DEF Same, Shows, RunStatus
  <2>. QED  BY <2>1
<1>7. Shows(page, srv) /\ page'.runStatus = page.runStatus /\ page'.refreshed = page.refreshed
      => Shows(page', srv')
  BY DEF Quiet, Same, Shows, RunStatus
<1>8. known'.shown <= srv'.ver
  BY <1>1, <1>2 DEF Quiet, Looks, ShownInv, Telling, ToldInv, TellsOK, StatusInv, Versions
<1>9. ShownInv(t)'
  <2>1. SUFFICES ASSUME known'.shown >= t, ~known'.failed, ~Under("run")'
                 PROVE  Shows(page', srv')
    BY <1>8 DEF ShownInv
  <2>. QED  BY <1>1, <1>6, <1>7, <2>1 DEF Quiet, Looks, ShownInv
<1>. QED  BY <1>2, <1>3, <1>5, <1>9 DEF StatusInv

LEMMA NewsKeeps ==
  ASSUME StatusInv, Versions', Shape', News
  PROVE  StatusInv'
<1>1. PICK t0 \in 1..srv.ver : ToldInv(t0) /\ ComingInv(t0) /\ ShownInv(t0)
  BY DEF StatusInv
<1>0. PICK t : t = srv.ver + 1
  OBVIOUS
<1>2. srv.ver \in Nat /\ srv'.ver \in Nat /\ t \in 1..srv'.ver /\ known'.lost \in Nat
      /\ known.shown \in Nat
  BY <1>0 DEF StatusInv, Versions, News
<1>3. \A m \in Telling' : TellsOK(m, srv', t)
  <2>1. ASSUME NEW m \in Telling' PROVE TellsOK(m, srv', t)
    <3>1. CASE m \in Telling
      BY <1>0, <1>1, <1>2, <3>1 DEF News, Telling, ToldInv, TellsOK
    <3>2. CASE m.ver \in srv.ver..srv'.ver /\ Same(m, srv')
      BY <1>0, <1>2, <3>2 DEF TellsOK
    <3>. QED  BY <2>1, <3>1, <3>2 DEF News, Told
  <2>. QED  BY <2>1
<1>4. ComingInv(t)'
  <2>1. \A m \in Messages(stream') : m.ver \in Nat
    BY <1>3 DEF TellsOK, Telling
  <2>. QED  BY <1>0, <1>2, <2>1 DEF News, ComingInv
<1>5. known'.shown <= srv.ver /\ ~(known'.shown >= t)
  BY <1>0, <1>1, <1>2 DEF News, ShownInv
<1>6. ShownInv(t)'
  BY <1>2, <1>5 DEF ShownInv, News
<1>7. ToldInv(t)'
  BY <1>3 DEF ToldInv, Telling
<1>. QED  BY <1>2, <1>4, <1>6, <1>7 DEF StatusInv

-----------------------------------------------------------------------------
(* Requests and the stream *)

RequestsOK(rs) == \A r \in rs : DOMAIN r = RequestFields /\ r.own \in Nat
StreamOK(st) ==
  /\ DOMAIN st = {"open", "queue", "unsent"}
  /\ st.queue \in Seq(Range(st.queue))
  /\ st.open # "on" => st.queue = << >> /\ st.unsent = {}
  /\ st.open \in {"no", "on", "closed"}

\* Requests that tell nothing new, and among which a run is still asked for
Fewer == RequestsOK(reqs') /\ Answering(reqs') \subseteq Answering(reqs)
StillAsked == Under("run") => Under("run")'

LEMMA ShapeIs ==
  Shape <=> /\ DOMAIN srv = ServerFields /\ DOMAIN page = PageFields /\ DOMAIN known = KnownFields
            /\ RequestsOK(reqs) /\ StreamOK(stream)
BY DEF Shape, RequestsOK, StreamOK

LEMMA AskIs ==
  ASSUME Shape, NEW kind, NEW details, NEW body, Ask(kind, details, body)
  PROVE  /\ Fewer /\ StillAsked
         /\ kind = "run" => Under("run")'
         /\ \A r \in reqs' : r \in reqs \/ (r.kind = kind /\ r.body = body)
<1> DEFINE q == Request(kind, details, body)
<1>1. DOMAIN q = RequestFields /\ q.own = 0 /\ q.kind = kind /\ q.pc # "answered" /\ q.body = body
  BY DEF Request, RequestFields
<1>2. reqs' = reqs \cup {q}
  BY DEF Ask
<1> HIDE DEF q
<1>3. Answering(reqs') \subseteq Answering(reqs)
  BY <1>1, <1>2 DEF Answering
<1>4. RequestsOK(reqs')
  BY <1>1, <1>2 DEF Shape, RequestsOK
<1>5. StillAsked /\ (kind = "run" => Under("run")')
  BY <1>1, <1>2 DEF StillAsked, Under
<1>. QED  BY <1>1, <1>2, <1>3, <1>4, <1>5 DEF Fewer

LEMMA LeaveIs ==
  ASSUME Shape, NEW r \in reqs, reqs' = reqs \ {r}
  PROVE  Fewer /\ (r.kind # "run" => StillAsked)
<1>1. Fewer
  BY DEF Shape, Fewer, Answering, RequestsOK
<1>2. r.kind # "run" => StillAsked
  BY DEF StillAsked, Under
<1>. QED  BY <1>1, <1>2

LEMMA ReplaceIs ==
  ASSUME Shape, NEW r \in reqs, NEW n, reqs' = Replace(r, n),
         DOMAIN n = RequestFields, n.own \in Nat, n.kind = r.kind
  PROVE  /\ RequestsOK(reqs') /\ StillAsked
         /\ n.pc # "answered" => Fewer
         /\ Answering(reqs') \subseteq Answering(reqs) \cup {n.answer[1]}
<1>1. RequestsOK(reqs')
  BY DEF Shape, Replace, RequestsOK
<1>2. StillAsked
  BY DEF Replace, StillAsked, Under
<1>3. Answering(reqs') \subseteq Answering(reqs) \cup {n.answer[1]}
  BY DEF Replace, Answering
<1>4. n.pc # "answered" => Answering(reqs') \subseteq Answering(reqs)
  BY DEF Replace, Answering
<1>. QED  BY <1>1, <1>2, <1>3, <1>4 DEF Fewer

LEMMA SendingIs ==
  ASSUME StreamOK(stream), NEW s, NEW st, st = Sending(s)
  PROVE  /\ StreamOK(st) /\ st.open = stream.open
         /\ Messages(stream) \subseteq Messages(st)
         /\ Messages(st) \subseteq Messages(stream) \cup {Snapshot(s, None)}
         /\ stream.open = "on" => Snapshot(s, None) \in Messages(st)
<1> DEFINE m == Snapshot(s, None)
<1>1. CASE stream.open = "on"
  <2>1. st = [stream EXCEPT !.unsent = @ \cup {m}]
    BY <1>1 DEF Sending
  <2>2. DOMAIN stream = {"open", "queue", "unsent"}
    BY DEF StreamOK
  <2> HIDE DEF m
  <2>3. /\ DOMAIN st = DOMAIN stream /\ st.open = stream.open /\ st.queue = stream.queue
        /\ st.unsent = stream.unsent \cup {m}
    BY <2>1, <2>2
  <2>4. StreamOK(st)
    BY <1>1, <2>3 DEF StreamOK
  <2>5. Messages(st) = Messages(stream) \cup {m}
    BY <2>3 DEF Messages
  <2>. QED  BY <2>3, <2>4, <2>5 DEF m
<1>2. CASE stream.open # "on"
  BY <1>2 DEF Sending
<1>. QED  BY <1>1, <1>2

-----------------------------------------------------------------------------
(* A step is in order if it keeps the shape and is of one of the two kinds. *)
Goes == Shape' /\ Versions' /\ (Quiet \/ News)

LEMMA GoesKeeps == StatusInv /\ Goes => StatusInv'
BY QuietKeeps, NewsKeeps DEF Goes

\* The page, as far as the state of the run goes, is as it was.
PageStays ==
  /\ DOMAIN page' = PageFields /\ page'.runStatus = page.runStatus /\ page'.refreshed = page.refreshed
KnownStays ==
  /\ DOMAIN known' = KnownFields /\ known'.shown = known.shown /\ known'.seen = known.seen
  /\ known'.failed = known.failed

LEMMA StaysLooks == PageStays /\ KnownStays /\ StillAsked => Looks
BY DEF PageStays, KnownStays, StillAsked, Looks

\* A step that broadcasts the state it leaves, but for the time of the timer
LEMMA BroadcastGoes ==
  ASSUME StatusInv, NEW s, s.ver = srv.ver + 1, s.settings = srv.settings,
         DOMAIN srv' = ServerFields, srv'.ver \in Nat, srv'.ver >= s.ver, Same(s, srv'),
         srv'.settings = s.settings, stream' = Sending(s), known'.lost = PassedBy(s),
         PageStays, KnownStays, Fewer
  PROVE  Goes
<1>1. Shape /\ Versions /\ StreamOK(stream)
  BY ShapeIs DEF StatusInv
<1>2. /\ StreamOK(stream') /\ stream'.open = stream.open
      /\ Messages(stream) \subseteq Messages(stream')
      /\ Messages(stream') \subseteq Messages(stream) \cup {Snapshot(s, None)}
      /\ stream.open = "on" => Snapshot(s, None) \in Messages(stream')
  BY <1>1, SendingIs
<1>3. Shape'
  BY <1>2 DEF PageStays, KnownStays, Fewer, Shape, RequestsOK, StreamOK
<1>4. Snapshot(s, None).ver = s.ver /\ Same(Snapshot(s, None), s) /\ Snapshot(s, None).settings = s.settings
  BY SnapshotIs
<1>5. srv.ver \in Nat \ {0} /\ known.lost \in Nat /\ known.shown \in Nat /\ known.seen \in Nat
  BY <1>1 DEF Versions
<1>6. known'.lost = IF stream.open = "closed" THEN s.ver ELSE known.lost
  BY DEF PassedBy
<1>7. Versions'
  BY <1>5, <1>6 DEF Versions, KnownStays
<1>8. Told
  BY <1>2, <1>4, <1>5 DEF Told, Telling, Fewer, Same
<1>9. stream'.open = "no" \/ known'.lost > srv.ver \/ \E m \in Messages(stream') : m.ver > srv.ver
  BY <1>1, <1>2, <1>4, <1>5, <1>6 DEF StreamOK
<1>10. News
  BY <1>5, <1>8, <1>9 DEF News, KnownStays
<1>. QED  BY <1>3, <1>7, <1>10 DEF Goes

\* A step of the user, or of an effect of the page
LEMMA UserGoes ==
  ASSUME StatusInv, srv' = srv, stream' = stream, PageStays, KnownStays,
         known'.lost = known.lost, Fewer, StillAsked
  PROVE  Goes
<1>1. Shape /\ Versions /\ StreamOK(stream)
  BY ShapeIs DEF StatusInv
<1>2. Shape'
  BY <1>1 DEF PageStays, KnownStays, Fewer, Shape, RequestsOK
<1>3. Versions'
  BY <1>1 DEF Versions, KnownStays
<1>4. Told
  BY DEF Told, Telling, Fewer
<1>5. Delivered
  BY <1>1 DEF Delivered, KnownStays, Versions
<1>6. Looks
  BY StaysLooks
<1>. QED  BY <1>1, <1>2, <1>3, <1>4, <1>5, <1>6 DEF Goes, Quiet, Same, Versions

\* The page takes in an answer, or the message at the head of the queue.
LEMMA SeesGoes ==
  ASSUME StatusInv, srv' = srv, Fewer, NEW m \in Telling,
         StreamOK(stream'), stream'.open = stream.open,
         Messages(stream') \subseteq Messages(stream),
         Messages(stream) \subseteq Messages(stream') \cup {m},
         DOMAIN page' = PageFields, Shows(page', m),
         DOMAIN known' = KnownFields, known'.shown = m.ver, known'.lost = known.lost,
         known'.seen \in Nat, known'.seen >= m.ver, known'.seen >= known.seen
  PROVE  Goes
<1>1. Shape /\ Versions /\ m.ver \in Nat
  BY DEF StatusInv, ToldInv, TellsOK, Telling
<1>2. Shape'
  BY <1>1 DEF Fewer, Shape, RequestsOK, StreamOK
<1>3. Versions'
  BY <1>1 DEF Versions
<1>4. Told
  BY DEF Told, Telling, Fewer
<1>5. Delivered
  BY <1>1 DEF Delivered, Versions
<1>6. Looks
  BY DEF Looks
<1>. QED  BY <1>1, <1>2, <1>3, <1>4, <1>5, <1>6 DEF Goes, Quiet, Same, Versions

\* The server's state is told, or becomes what it is, without a message.
LEMMA ServerGoes ==
  ASSUME StatusInv, DOMAIN srv' = ServerFields, srv'.ver \in Nat, stream' = stream,
         PageStays, KnownStays, known'.lost = known.lost, StillAsked, RequestsOK(reqs'),
         \A m \in Answering(reqs') :
           \/ m \in Answering(reqs)
           \/ m.ver = srv'.ver /\ Same(m, srv') /\ m.settings = srv'.settings,
         \/ srv'.ver > srv.ver /\ srv'.state = "running"
         \/ srv'.ver >= srv.ver /\ Same(srv', srv)
  PROVE  Goes
<1>1. Shape /\ Versions /\ StreamOK(stream)
  BY ShapeIs DEF StatusInv
<1>2. Shape'
  BY <1>1 DEF PageStays, KnownStays, Shape, RequestsOK
<1>3. Versions'
  BY <1>1 DEF Versions, KnownStays
<1>4. Told
  BY <1>1 DEF Told, Telling, Versions
<1>5. Delivered
  BY <1>1 DEF Delivered, KnownStays, Versions
<1>6. Looks
  BY StaysLooks
<1>. QED  BY <1>1, <1>2, <1>3, <1>4, <1>5, <1>6 DEF Goes, Quiet, News, Versions, KnownStays

-----------------------------------------------------------------------------
(* The actions *)

LEMMA HandleGoes ==
  ASSUME StatusInv, NEW r \in reqs, Handle(r)
  PROVE  Goes
<1>1. Shape /\ DOMAIN r = RequestFields /\ r.own \in Nat /\ DOMAIN srv = ServerFields
      /\ DOMAIN known = KnownFields /\ srv.ver \in Nat /\ PageStays
  BY DEF StatusInv, Shape, Versions, Handle, PageStays
<1>2. ASSUME NEW pc \in {"refused", "handled"}, reqs' = Replace(r, [r EXCEPT !.pc = pc])
      PROVE  Fewer /\ StillAsked
  <2> DEFINE n == [r EXCEPT !.pc = pc]
  <2>1. DOMAIN n = RequestFields /\ n.own \in Nat /\ n.kind = r.kind /\ n.pc # "answered"
    BY <1>1 DEF RequestFields
  <2>2. reqs' = Replace(r, n)
    BY <1>2
  <2> HIDE DEF n
  <2>. QED  BY <1>1, <2>1, <2>2, ReplaceIs
<1>3. ASSUME NEW own \in Nat, reqs' = Replace(r, [r EXCEPT !.pc = "handled", !.own = own])
      PROVE  Fewer /\ StillAsked
  <2> DEFINE n == [r EXCEPT !.pc = "handled", !.own = own]
  <2>1. DOMAIN n = RequestFields /\ n.own \in Nat /\ n.kind = r.kind /\ n.pc # "answered"
    BY <1>1 DEF RequestFields
  <2>2. reqs' = Replace(r, n)
    BY <1>3
  <2> HIDE DEF n
  <2>. QED  BY <1>1, <2>1, <2>2, ReplaceIs
<1>4. CASE r.kind = "run"
  <2>1. stream' = stream /\ KnownStays /\ known'.lost = known.lost
    BY <1>1, <1>4 DEF Handle, KnownStays
  <2>2. CASE srv.state \in Active
    BY <1>1, <1>2, <1>4, <2>1, <2>2, UserGoes DEF Handle
  <2>3. CASE srv.state \notin Active
    <3>1. srv' = StartRun(srv, TRUE) /\ Fewer /\ StillAsked
      BY <1>2, <1>4, <2>3 DEF Handle
    <3>2. DOMAIN srv' = ServerFields /\ srv'.ver = srv.ver + 1 /\ srv'.state = "running"
      BY <1>1, <3>1, StartRunIs
    <3>3. RequestsOK(reqs') /\ \A m \in Answering(reqs') : m \in Answering(reqs)
      BY <3>1 DEF Fewer
    <3>4. srv'.ver \in Nat /\ srv'.ver > srv.ver
      BY <1>1, <3>2
    <3>. QED  BY <1>1, <2>1, <3>1, <3>2, <3>3, <3>4, ServerGoes
  <2>. QED  BY <2>2, <2>3
<1>5. ASSUME NEW s, DOMAIN s = ServerFields, s.ver = srv.ver + 1, s.settings = srv.settings,
             Broadcasting(s), Fewer
      PROVE  Goes
  <2>1. srv' = s /\ stream' = Sending(s) /\ known'.lost = PassedBy(s) /\ KnownStays
    BY <1>1, <1>5 DEF Broadcasting, KnownStays, KnownFields
  <2>. QED  BY <1>1, <1>5, <2>1, BroadcastGoes DEF Same
<1>6. CASE r.kind \in {"pause", "resume", "stop"}
  <2> DEFINE s == Control(srv, r.kind)
  <2>1. DOMAIN s = ServerFields /\ s.ver \in Nat /\ (s = srv \/ s.ver = srv.ver + 1)
        /\ s.settings = srv.settings
    BY <1>1, ControlIs
  <2>2. /\ reqs' = Replace(r, [r EXCEPT !.pc = "handled", !.own = s.ver])
        /\ IF s = srv THEN UNCHANGED <<srv, stream, known>> ELSE Broadcasting(s)
    BY <1>6 DEF Handle
  <2> HIDE DEF s
  <2>3. Fewer /\ StillAsked
    BY <1>3, <2>1, <2>2
  <2>4. CASE s = srv
    <3>1. srv' = srv /\ stream' = stream /\ KnownStays /\ known'.lost = known.lost
      BY <1>1, <2>2, <2>4 DEF KnownStays
    <3>. QED  BY <1>1, <2>3, <3>1, UserGoes
  <2>5. CASE s # srv
    BY <1>5, <2>1, <2>2, <2>3, <2>5
  <2>. QED  BY <2>4, <2>5
<1>7. CASE r.kind = "act"
  <2>1. PICK succeeds \in BOOLEAN :
          LET s == Acted(srv, r.body[1].item, r.body[1].action, succeeds)
          IN  /\ reqs' = Replace(r, [r EXCEPT !.pc = "handled", !.own = s.ver])
              /\ Broadcasting(s)
    BY <1>7 DEF Handle
  <2> DEFINE s == Acted(srv, r.body[1].item, r.body[1].action, succeeds)
  <2>2. DOMAIN s = ServerFields /\ s.ver = srv.ver + 1 /\ s.settings = srv.settings
    BY <1>1, ActedIs
  <2>3. reqs' = Replace(r, [r EXCEPT !.pc = "handled", !.own = s.ver]) /\ Broadcasting(s)
    BY <2>1
  <2> HIDE DEF s
  <2>4. s.ver \in Nat
    BY <1>1, <2>2
  <2>5. Fewer
    BY <1>3, <2>3, <2>4
  <2>. QED  BY <1>5, <2>2, <2>3, <2>5
<1>8. CASE r.kind = "save"
  <2>1. /\ srv' = Updated(srv, r.body[1]) /\ stream' = stream /\ known' = known
        /\ reqs' = Replace(r, [r EXCEPT !.pc = "handled", !.own = srv'.ver])
    BY <1>8 DEF Handle
  <2>2. DOMAIN srv' = ServerFields /\ srv'.ver = srv.ver + 1 /\ Same(srv', srv)
    BY <1>1, <2>1, UpdatedIs
  <2>3. srv'.ver \in Nat /\ srv'.ver >= srv.ver
    BY <1>1, <2>2
  <2>5. Fewer /\ StillAsked
    BY <1>3, <2>1, <2>3
  <2>6. RequestsOK(reqs') /\ \A m \in Answering(reqs') : m \in Answering(reqs)
    BY <2>5 DEF Fewer
  <2>4. KnownStays /\ known'.lost = known.lost
    BY <1>1, <2>1 DEF KnownStays
  <2>. QED  BY <1>1, <2>1, <2>2, <2>3, <2>4, <2>5, <2>6, ServerGoes
<1>. QED  BY <1>4, <1>6, <1>7, <1>8 DEF Handle

LEMMA AnswerRequestGoes ==
  ASSUME StatusInv, NEW r \in reqs, AnswerRequest(r)
  PROVE  Goes
<1>1. Shape /\ DOMAIN r = RequestFields /\ r.own \in Nat /\ DOMAIN srv = ServerFields
      /\ DOMAIN known = KnownFields /\ srv.ver \in Nat
  BY DEF StatusInv, Shape, Versions
<1>2. /\ srv' = srv /\ stream' = stream /\ PageStays /\ KnownStays /\ known'.lost = known.lost
  BY <1>1 DEF AnswerRequest, PageStays, KnownStays, Shape
<1>3. PICK details : reqs' = Replace(r, [r EXCEPT !.pc = "answered", !.answer = Set(Snapshot(srv, details))])
  BY DEF AnswerRequest
<1> DEFINE m == Snapshot(srv, details)
           n == [r EXCEPT !.pc = "answered", !.answer = Set(m)]
<1>4. m.ver = srv.ver /\ Same(m, srv) /\ m.settings = srv.settings
  BY SnapshotIs
<1>5. reqs' = Replace(r, n)
  BY <1>3
<1> HIDE DEF m
<1>6. DOMAIN n = RequestFields /\ n.own \in Nat /\ n.kind = r.kind /\ n.answer = Set(m)
  BY <1>1 DEF RequestFields
<1> HIDE DEF n
<1>7. RequestsOK(reqs') /\ StillAsked /\ Answering(reqs') \subseteq Answering(reqs) \cup {n.answer[1]}
  BY <1>1, <1>5, <1>6, ReplaceIs
<1>8. n.answer[1] = m
  BY <1>6 DEF Set
<1>9. \A x \in Answering(reqs') :
        \/ x \in Answering(reqs)
        \/ x.ver = srv'.ver /\ Same(x, srv') /\ x.settings = srv'.settings
  BY <1>2, <1>4, <1>7, <1>8
<1>10. srv'.ver \in Nat /\ srv'.ver >= srv.ver /\ Same(srv', srv) /\ DOMAIN srv' = ServerFields
  BY <1>1, <1>2 DEF Same
<1>. QED  BY <1>2, <1>7, <1>9, <1>10, ServerGoes

LEMMA ReceiveGoes ==
  ASSUME StatusInv, srv' = srv, Fewer, NEW m \in Telling, NEW p, DOMAIN p = PageFields,
         StreamOK(stream'), stream'.open = stream.open,
         Messages(stream') \subseteq Messages(stream),
         Messages(stream) \subseteq Messages(stream') \cup {m},
         Receive(p, m)
  PROVE  Goes
<1>1. Shape /\ Versions /\ m.ver \in Nat /\ DOMAIN known = KnownFields /\ known.seen \in Nat
  BY DEF StatusInv, ToldInv, TellsOK, Telling, Shape, Versions
<1> DEFINE a == Applied(p, m)
           k == Seen(p, m)
<1>2. DOMAIN a = PageFields /\ Shows(a, m)
  BY AppliedIs
<1>3. /\ DOMAIN k = KnownFields /\ k.shown = m.ver /\ k.lost = known.lost
      /\ k.seen \in Nat /\ k.seen >= m.ver /\ k.seen >= known.seen
  BY <1>1, SeenIs
<1>4. page' = Rendered(p, a) /\ known' = k
  BY DEF Receive
<1> HIDE DEF a, k
<1>5. DOMAIN page' = PageFields /\ page'.runStatus = a.runStatus /\ page'.refreshed = a.refreshed
  BY <1>2, <1>4, RenderedIs
<1>6. Shows(page', m)
  BY <1>2, <1>5 DEF Shows
<1>. QED  BY <1>3, <1>4, <1>5, <1>6, SeesGoes

\* The answer of a request is told.
LEMMA AnswerIs ==
  ASSUME StatusInv, NEW r \in reqs, r.pc = "answered", reqs' = reqs \ {r}, stream' = stream
  PROVE  /\ r.answer[1] \in Telling /\ Fewer /\ DOMAIN page = PageFields
         /\ StreamOK(stream') /\ stream'.open = stream.open
         /\ Messages(stream') \subseteq Messages(stream)
         /\ Messages(stream) \subseteq Messages(stream') \cup {r.answer[1]}
<1>1. Shape /\ StreamOK(stream) /\ DOMAIN page = PageFields
  BY ShapeIs DEF StatusInv, Shape
<1>2. Fewer
  BY <1>1, LeaveIs
<1>3. r.answer[1] \in Telling
  BY DEF Telling, Answering
<1>. QED  BY <1>1, <1>2, <1>3

LEMMA AnsweredGoes ==
  ASSUME StatusInv, NEW r \in reqs, Answered(r)
  PROVE  Goes
<1>1. r.pc = "answered" /\ reqs' = reqs \ {r} /\ stream' = stream /\ srv' = srv
      /\ Receive(page, r.answer[1])
  BY DEF Answered
<1>. QED  BY <1>1, AnswerIs, ReceiveGoes

LEMMA DetailsArriveGoes ==
  ASSUME StatusInv, NEW r \in reqs, DetailsArrive(r)
  PROVE  Goes
<1> DEFINE loaded == [page EXCEPT !.loaded = Key(page), !.live = 0]
<1>1. r.pc = "answered" /\ reqs' = reqs \ {r} /\ stream' = stream /\ srv' = srv
      /\ Receive(IF page.live = r.seq THEN loaded ELSE page, r.answer[1])
  BY DEF DetailsArrive
<1>2. DOMAIN page = PageFields
  BY DEF StatusInv, Shape
<1>3. DOMAIN loaded = PageFields
  BY <1>2
<1> HIDE DEF loaded
<1>4. PICK p : DOMAIN p = PageFields /\ Receive(p, r.answer[1])
  BY <1>1, <1>2, <1>3
<1>. QED  BY <1>1, <1>4, AnswerIs, ReceiveGoes

LEMMA LocalisedIs ==
  ASSUME NEW p, DOMAIN p = PageFields, NEW local, NEW l, l = Localised(p, local)
  PROVE  /\ DOMAIN l = PageFields /\ l.runStatus = p.runStatus /\ l.refreshed = p.refreshed
         /\ l.open = p.open /\ l.plan = p.plan /\ l.confirmations = p.confirmations
         /\ l.next = p.next /\ l.status = p.status /\ l.started = p.started /\ l.listed = p.listed
         /\ l.filter = p.filter /\ l.pageNo = p.pageNo
         /\ l.loaded = p.loaded /\ l.live = p.live /\ l.due = p.due
         /\ l.settings = LoadConfigurableSettings(Clean, local)
         /\ l.draft = IF p.open THEN p.draft ELSE DraftOf(l.settings)
<1> DEFINE taken == LoadConfigurableSettings(Clean, local)
           draft == IF p.open THEN p.draft ELSE DraftOf(taken)
<1>1. l = [p EXCEPT !.settings = taken, !.draft = draft]
  BY DEF Localised
<1> HIDE DEF taken, draft
<1>2. /\ DOMAIN l = PageFields /\ l.runStatus = p.runStatus /\ l.refreshed = p.refreshed
      /\ l.open = p.open /\ l.plan = p.plan /\ l.confirmations = p.confirmations
      /\ l.next = p.next /\ l.status = p.status /\ l.started = p.started /\ l.listed = p.listed
      /\ l.filter = p.filter /\ l.pageNo = p.pageNo
      /\ l.loaded = p.loaded /\ l.live = p.live /\ l.due = p.due
      /\ l.settings = taken /\ l.draft = draft
  BY <1>1 DEF PageFields
<1>. QED  BY <1>2 DEF taken, draft

LEMMA SaveArrivesGoes ==
  ASSUME StatusInv, NEW r \in reqs, SaveArrives(r)
  PROVE  Goes
<1> DEFINE m == r.answer[1]
           p == [page EXCEPT !.open = FALSE]
           a == Applied(p, m)
           closed == Localised(a, browser)
           applied == Applied(page, m)
           k == Seen(page, m)
<1>1. r.pc = "answered" /\ reqs' = reqs \ {r} /\ stream' = stream /\ srv' = srv
      /\ page' = Rendered(page, IF page.open THEN closed ELSE applied)
  BY DEF SaveArrives
<1>2. \E local : known' = [k EXCEPT !.typed = None, !.local = local]
  BY DEF SaveArrives
<1>3. /\ DOMAIN page = PageFields /\ DOMAIN known = KnownFields /\ known.seen \in Nat
      /\ m \in Telling /\ m.ver \in Nat
  BY <1>1, AnswerIs DEF StatusInv, Shape, Versions, ToldInv, TellsOK, Telling
<1> HIDE DEF m
<1>4. /\ DOMAIN k = KnownFields /\ k.shown = m.ver /\ k.lost = known.lost
      /\ k.seen \in Nat /\ k.seen >= m.ver /\ k.seen >= known.seen
  BY <1>3, SeenIs
<1>5. DOMAIN p = PageFields
  BY <1>3
<1> HIDE DEF p, k
<1>6. DOMAIN a = PageFields /\ Shows(a, m)
  BY <1>5, AppliedIs
<1>7. DOMAIN applied = PageFields /\ Shows(applied, m)
  BY <1>3, AppliedIs
<1> HIDE DEF a, applied
<1>8. DOMAIN closed = PageFields /\ Shows(closed, m)
  BY <1>6, LocalisedIs DEF Shows
<1> HIDE DEF closed
<1>9. PICK q : DOMAIN q = PageFields /\ Shows(q, m) /\ page' = Rendered(page, q)
  BY <1>1, <1>7, <1>8
<1>10. DOMAIN page' = PageFields /\ Shows(page', m)
  BY <1>9, RenderedIs DEF Shows
<1>11. /\ DOMAIN known' = KnownFields /\ known'.shown = m.ver /\ known'.lost = known.lost
       /\ known'.seen \in Nat /\ known'.seen >= m.ver /\ known'.seen >= known.seen
  BY <1>2, <1>4 DEF KnownFields
<1>. QED  BY <1>1, <1>3, <1>10, <1>11, AnswerIs, SeesGoes DEF m

LEMMA FailGoes ==
  ASSUME StatusInv, NEW r \in reqs, Fail(r)
  PROVE  Goes
<1> DEFINE p == CASE r.kind = "run" -> [page EXCEPT !.runStatus = "error"]
                  [] r.kind = "status" -> [page EXCEPT !.next = None]
                  [] OTHER -> IF r.seq = page.live THEN [page EXCEPT !.live = 0] ELSE page
           lost == IF r.kind = "save" THEN Max({known.lost, r.own}) ELSE known.lost
           failed == known.failed \/ r.kind = "run"
<1>1. /\ reqs' = reqs \ {r} /\ srv' = srv /\ stream' = stream
      /\ page' = Rendered(page, p)
      /\ \E emptied, missed, foreign, local :
           known' = [known EXCEPT !.failed = failed, !.emptied = emptied, !.missed = missed,
                                  !.foreign = foreign, !.lost = lost, !.local = local]
  <2>1. reqs' = reqs \ {r} /\ srv' = srv /\ stream' = stream /\ page' = Rendered(page, p)
    BY DEF Fail
  <2> DEFINE emptied == known.emptied \/ r.kind = "run"
             missed == known.missed \/ r.seq = page.live
             foreign == IF r.kind = "act" THEN Max({known.foreign, r.own}) ELSE known.foreign
             local == known.local \/ r.kind = "save"
  <2>2. known' = [known EXCEPT !.failed = failed, !.emptied = emptied, !.missed = missed,
                               !.foreign = foreign, !.lost = lost, !.local = local]
    BY DEF Fail
  <2> HIDE DEF p, lost, failed, emptied, missed, foreign, local
  <2>. QED  BY <2>1, <2>2
<1>2. /\ Shape /\ StreamOK(stream) /\ Versions /\ DOMAIN page = PageFields /\ DOMAIN known = KnownFields
      /\ known.lost \in Nat /\ r.own \in Nat
  BY ShapeIs DEF StatusInv, Shape, Versions
<1>3. /\ DOMAIN p = PageFields /\ p.refreshed = page.refreshed
      /\ r.kind # "run" => p.runStatus = page.runStatus
  BY <1>2 DEF PageFields
<1>4. lost \in Nat /\ lost >= known.lost
  <2>1. \A x, y \in Nat : Max({x, y}) \in Nat /\ Max({x, y}) >= x
    BY MaxOfTwo
  <2>. QED  BY <1>2, <2>1
<1> HIDE DEF p, lost
<1>5. /\ DOMAIN page' = PageFields /\ page'.refreshed = page.refreshed
      /\ r.kind # "run" => page'.runStatus = page.runStatus
  BY <1>1, <1>3, RenderedIs
<1>6. /\ DOMAIN known' = KnownFields /\ known'.shown = known.shown /\ known'.seen = known.seen
      /\ known'.lost = lost /\ known'.failed = failed
  BY <1>1, <1>2 DEF KnownFields
<1>7. Fewer /\ (r.kind # "run" => StillAsked)
  BY <1>1, <1>2, LeaveIs
<1>8. Shape'
  BY <1>1, <1>2, <1>5, <1>6, <1>7 DEF Shape, Fewer, RequestsOK
<1>9. Versions'
  BY <1>1, <1>2, <1>4, <1>6 DEF Versions
<1>10. Told
  BY <1>1, <1>7 DEF Told, Telling, Fewer
<1>11. Delivered
  BY <1>1, <1>2, <1>4, <1>6 DEF Delivered, Versions
<1>12. Looks
  BY <1>5, <1>6, <1>7 DEF Looks, StillAsked
<1>. QED  BY <1>1, <1>2, <1>8, <1>9, <1>10, <1>11, <1>12 DEF Goes, Quiet, Same, Versions

-----------------------------------------------------------------------------
(* The server *)

LEMMA ListsAccountsGoes ==
  ASSUME StatusInv, ListsAccounts
  PROVE  Goes
<1> DEFINE s == Changed([srv EXCEPT !.listed = TRUE, !.listedAt = srv.ver + 1])
<1>1. Broadcasting(s) /\ reqs' = reqs /\ page' = page
  BY DEF ListsAccounts
<1>2. Shape /\ DOMAIN srv = ServerFields /\ srv.ver \in Nat /\ DOMAIN known = KnownFields
      /\ DOMAIN page = PageFields
  BY DEF StatusInv, Shape, Versions
<1>3. s.ver = srv.ver + 1 /\ s.settings = srv.settings /\ DOMAIN s = ServerFields /\ Same(s, s)
  BY <1>2 DEF Changed, ServerFields, Same
<1> HIDE DEF s
<1>4. srv' = s /\ stream' = Sending(s) /\ known'.lost = PassedBy(s) /\ KnownStays
  BY <1>1, <1>2 DEF Broadcasting, KnownStays, KnownFields
<1>5. Fewer /\ PageStays
  BY <1>1, <1>2 DEF Fewer, PageStays, Shape, RequestsOK
<1>. QED  BY <1>2, <1>3, <1>4, <1>5, BroadcastGoes

LEMMA FinishGoes ==
  ASSUME StatusInv, Finish
  PROVE  Goes
<1>1. PICK state, rows :
        LET s == Changed([srv EXCEPT !.state = state, !.finished = srv.run, !.rows = rows,
                                     !.failed = state # "completed"])
        IN  /\ \/ srv' = s
               \/ srv' = Changed([s EXCEPT !.arm = @ + 1, !.next = s.arm + 1])
            /\ stream' = Sending(s)
            /\ known' = [known EXCEPT !.lost = PassedBy(s)]
  BY Zenon DEF Finish
<1> DEFINE s == Changed([srv EXCEPT !.state = state, !.finished = srv.run, !.rows = rows,
                                    !.failed = state # "completed"])
<1>2. Shape /\ DOMAIN srv = ServerFields /\ srv.ver \in Nat /\ DOMAIN known = KnownFields
      /\ DOMAIN page = PageFields
  BY DEF StatusInv, Shape, Versions
<1>3. s.ver = srv.ver + 1 /\ s.settings = srv.settings /\ DOMAIN s = ServerFields
  BY <1>2 DEF Changed, ServerFields
<1>4. /\ srv' = s \/ srv' = Changed([s EXCEPT !.arm = @ + 1, !.next = s.arm + 1])
      /\ stream' = Sending(s) /\ known' = [known EXCEPT !.lost = PassedBy(s)]
  BY <1>1
<1> HIDE DEF s
<1>5. DOMAIN srv' = ServerFields /\ srv'.ver \in Nat /\ srv'.ver >= s.ver /\ Same(s, srv')
      /\ srv'.settings = s.settings
  <2>1. s.ver \in Nat
    BY <1>2, <1>3
  <2>2. CASE srv' = s
    BY <1>3, <2>1, <2>2 DEF Same
  <2>3. ASSUME NEW arm, NEW next, NEW n, n = Changed([s EXCEPT !.arm = arm, !.next = next])
        PROVE  DOMAIN n = ServerFields /\ n.ver = s.ver + 1 /\ Same(s, n) /\ n.settings = s.settings
    BY <1>3, <2>3 DEF Changed, ServerFields, Same
  <2>4. CASE srv' = Changed([s EXCEPT !.arm = @ + 1, !.next = s.arm + 1])
    <3>1. DOMAIN srv' = ServerFields /\ srv'.ver = s.ver + 1 /\ Same(s, srv')
          /\ srv'.settings = s.settings
      BY <2>3, <2>4
    <3>. QED  BY <2>1, <3>1
  <2>. QED  BY <1>4, <2>2, <2>4
<1>6. known'.lost = PassedBy(s) /\ KnownStays
  BY <1>2, <1>4 DEF KnownStays, KnownFields
<1>7. Fewer /\ PageStays
  BY <1>2 DEF Finish, Fewer, PageStays, Shape, RequestsOK
<1>. QED  BY <1>3, <1>4, <1>5, <1>6, <1>7, BroadcastGoes

LEMMA StartsGoes ==
  ASSUME StatusInv, TimerStarts \/ OthersStart
  PROVE  Goes
<1>1. PICK manual : srv' = StartRun(srv, manual)
  BY DEF TimerStarts, OthersStart
<1>2. Shape /\ DOMAIN srv = ServerFields /\ srv.ver \in Nat
  BY DEF StatusInv, Shape, Versions
<1>3. DOMAIN srv' = ServerFields /\ srv'.ver = srv.ver + 1 /\ srv'.state = "running"
  BY <1>1, <1>2, StartRunIs
<1>4. srv'.ver \in Nat /\ srv'.ver > srv.ver
  BY <1>2, <1>3
<1>5. UNCHANGED <<stream, reqs, page, known>>
  BY DEF TimerStarts, OthersStart
<1>6. PageStays /\ KnownStays /\ known'.lost = known.lost /\ StillAsked /\ RequestsOK(reqs')
  BY <1>2, <1>5 DEF Shape, PageStays, KnownStays, StillAsked, Under, RequestsOK
<1>7. \A m \in Answering(reqs') : m \in Answering(reqs)
  BY <1>5
<1>. QED  BY <1>3, <1>4, <1>5, <1>6, <1>7, ServerGoes

LEMMA OthersBroadcastGoes ==
  ASSUME StatusInv, OthersAct \/ \E kind \in {"pause", "resume", "stop"} : OthersControl(kind)
  PROVE  Goes
<1>1. Shape /\ DOMAIN srv = ServerFields /\ srv.ver \in Nat /\ DOMAIN known = KnownFields
      /\ DOMAIN page = PageFields
  BY DEF StatusInv, Shape, Versions
<1>2. UNCHANGED <<reqs, page>>
  BY DEF OthersAct, OthersControl
<1>3. Fewer /\ PageStays
  BY <1>1, <1>2 DEF Fewer, PageStays, Shape, RequestsOK
<1>4. ASSUME NEW s, DOMAIN s = ServerFields, s.ver = srv.ver + 1, s.settings = srv.settings,
             srv' = s, stream' = Sending(s), known'.lost = PassedBy(s), KnownStays
      PROVE  Goes
  BY <1>1, <1>3, <1>4, BroadcastGoes DEF Same
<1>5. CASE OthersAct
  <2>1. PICK item, action, succeeds :
          LET s == Acted(srv, item, action, succeeds)
          IN  /\ srv' = s /\ stream' = Sending(s)
              /\ known' = [known EXCEPT !.lost = PassedBy(s), !.foreign = s.ver]
    BY <1>5 DEF OthersAct
  <2> DEFINE s == Acted(srv, item, action, succeeds)
             lost == PassedBy(s)
  <2>2. DOMAIN s = ServerFields /\ s.ver = srv.ver + 1 /\ s.settings = srv.settings
    BY <1>1, ActedIs
  <2>3. srv' = s /\ stream' = Sending(s)
        /\ known' = [known EXCEPT !.lost = lost, !.foreign = s.ver]
    BY <2>1
  <2> HIDE DEF s, lost
  <2>4. known'.lost = lost /\ KnownStays
    BY <1>1, <2>3 DEF KnownStays, KnownFields
  <2>. QED  BY <1>4, <2>2, <2>3, <2>4 DEF lost
<1>6. ASSUME NEW kind, OthersControl(kind) PROVE Goes
  <2> DEFINE s == Control(srv, kind)
  <2>1. DOMAIN s = ServerFields /\ (s = srv \/ s.ver = srv.ver + 1) /\ s.settings = srv.settings
    BY <1>1, ControlIs
  <2>2. s # srv /\ Broadcasting(s)
    BY <1>6 DEF OthersControl
  <2> HIDE DEF s
  <2>3. srv' = s /\ stream' = Sending(s) /\ known'.lost = PassedBy(s) /\ KnownStays
    BY <1>1, <2>2 DEF Broadcasting, KnownStays, KnownFields
  <2>. QED  BY <1>4, <2>1, <2>2, <2>3
<1>. QED  BY <1>5, <1>6

-----------------------------------------------------------------------------
(* The stream *)

LEMMA ConnectGoes ==
  ASSUME StatusInv, Connect
  PROVE  Goes
<1> DEFINE m == Snapshot(srv, None)
<1>1. Shape /\ StreamOK(stream) /\ DOMAIN srv = ServerFields /\ Versions
  BY ShapeIs DEF StatusInv, Shape
<1>2. m.ver = srv.ver /\ Same(m, srv) /\ m.settings = srv.settings
  BY SnapshotIs
<1>3. /\ stream.open = "no" /\ stream' = [stream EXCEPT !.open = "on", !.queue = <<m>>]
      /\ UNCHANGED <<srv, reqs, page, known>>
  BY DEF Connect
<1> HIDE DEF m
<1>4. DOMAIN stream' = {"open", "queue", "unsent"} /\ stream'.open = "on" /\ stream'.queue = <<m>>
      /\ stream'.unsent = {}
  BY <1>1, <1>3 DEF StreamOK
<1>5. Range(<<m>>) = {m} /\ <<m>> \in Seq({m})
  BY DEF Range
<1>6. StreamOK(stream') /\ Messages(stream') = {m}
  BY <1>4, <1>5 DEF StreamOK, Messages
<1>7. Messages(stream) = {}
  <2>1. Range(<< >>) = {}
    BY DEF Range
  <2>. QED  BY <1>1, <1>3, <2>1 DEF StreamOK, Messages
<1>8. Shape'
  BY <1>1, <1>3, <1>6 DEF Shape, StreamOK
<1>9. Told
  BY <1>1, <1>2, <1>3, <1>6 DEF Told, Telling, Versions, Same
<1>10. Delivered
  BY <1>1, <1>2, <1>3, <1>6, <1>7 DEF Delivered, Versions
<1>11. PageStays /\ KnownStays /\ StillAsked
  BY <1>1, <1>3 DEF PageStays, KnownStays, StillAsked, Under, Shape
<1>. QED  BY <1>1, <1>3, <1>8, <1>9, <1>10, <1>11, StaysLooks DEF Goes, Quiet, Same, Versions

LEMMA SendGoes ==
  ASSUME StatusInv, NEW m \in stream.unsent, Send(m)
  PROVE  Goes
<1>1. Shape /\ StreamOK(stream) /\ Versions
  BY ShapeIs DEF StatusInv
<1>2. stream.open = "on"
  BY <1>1 DEF StreamOK
<1>3. /\ stream' = [stream EXCEPT !.unsent = @ \ {m}, !.queue = Append(@, m)]
      /\ UNCHANGED <<srv, reqs, page, known>>
  BY <1>2 DEF Send
<1>4. /\ DOMAIN stream' = {"open", "queue", "unsent"} /\ stream'.open = "on"
      /\ stream'.queue = Append(stream.queue, m) /\ stream'.unsent = stream.unsent \ {m}
  BY <1>1, <1>2, <1>3 DEF StreamOK
<1>5. /\ Append(stream.queue, m) \in Seq(Range(Append(stream.queue, m)))
      /\ Range(Append(stream.queue, m)) = Range(stream.queue) \cup {m}
  BY <1>1, RangeOfQueue DEF StreamOK
<1>6. StreamOK(stream') /\ Messages(stream') = Messages(stream)
  BY <1>4, <1>5 DEF StreamOK, Messages
<1>8. Shape'
  BY <1>1, <1>3, <1>6 DEF Shape, StreamOK
<1>9. Told
  BY <1>3, <1>6 DEF Told, Telling
<1>10. Delivered
  BY <1>1, <1>2, <1>3, <1>6 DEF Delivered, Versions
<1>11. PageStays /\ KnownStays /\ StillAsked
  BY <1>1, <1>3 DEF PageStays, KnownStays, StillAsked, Under, Shape
<1>. QED  BY <1>1, <1>3, <1>8, <1>9, <1>10, <1>11, StaysLooks DEF Goes, Quiet, Same, Versions

LEMMA DropGoes ==
  ASSUME StatusInv, NEW m \in stream.unsent, Drop(m)
  PROVE  Goes
<1>1. Shape /\ StreamOK(stream) /\ Versions /\ m.ver \in Nat /\ known.lost \in Nat
      /\ DOMAIN known = KnownFields
  BY ShapeIs DEF StatusInv, ToldInv, TellsOK, Messages, Shape, Versions
<1> DEFINE lost == Max({known.lost, m.ver})
<1>2. lost \in Nat /\ lost >= known.lost /\ lost >= m.ver
  <2>1. \A x, y \in Nat : Max({x, y}) \in Nat /\ Max({x, y}) >= x /\ Max({x, y}) >= y
    BY MaxOfTwo
  <2>. QED  BY <1>1, <2>1
<1>3. /\ stream' = [stream EXCEPT !.unsent = @ \ {m}] /\ known' = [known EXCEPT !.lost = lost]
      /\ UNCHANGED <<srv, reqs, page>>
  BY DEF Drop
<1> HIDE DEF lost
<1>4. /\ DOMAIN stream' = {"open", "queue", "unsent"} /\ stream'.open = stream.open
      /\ stream'.queue = stream.queue /\ stream'.unsent = stream.unsent \ {m}
  BY <1>1, <1>3 DEF StreamOK
<1>5. StreamOK(stream') /\ Messages(stream') \subseteq Messages(stream)
      /\ Messages(stream) \subseteq Messages(stream') \cup {m}
  BY <1>1, <1>4 DEF StreamOK, Messages
<1>6. KnownStays /\ known'.lost = lost
  BY <1>1, <1>3 DEF KnownStays, KnownFields
<1>7. PageStays /\ StillAsked
  BY <1>1, <1>3 DEF PageStays, StillAsked, Under, Shape
<1>8. Shape'
  BY <1>1, <1>3, <1>5, <1>6 DEF Shape, StreamOK, KnownStays
<1>9. Versions'
  BY <1>1, <1>2, <1>3, <1>6 DEF Versions, KnownStays
<1>10. Told
  BY <1>3, <1>5 DEF Told, Telling
<1>11. Delivered
  BY <1>1, <1>2, <1>4, <1>5, <1>6 DEF Delivered, Versions, KnownStays
<1>. QED  BY <1>1, <1>3, <1>6, <1>7, <1>8, <1>9, <1>10, <1>11, StaysLooks DEF Goes, Quiet, Same, Versions

LEMMA MessageArrivesGoes ==
  ASSUME StatusInv, MessageArrives
  PROVE  Goes
<1> DEFINE m == Head(stream.queue)
<1>1. Shape /\ StreamOK(stream) /\ DOMAIN page = PageFields
  BY ShapeIs DEF StatusInv, Shape
<1>2. /\ stream.queue # << >> /\ stream' = [stream EXCEPT !.queue = Tail(@)]
      /\ Receive(page, m) /\ srv' = srv /\ reqs' = reqs
  BY DEF MessageArrives
<1>3. /\ Tail(stream.queue) \in Seq(Range(Tail(stream.queue)))
      /\ Range(stream.queue) = Range(Tail(stream.queue)) \cup {m}
  BY <1>1, <1>2, RangeOfQueue DEF StreamOK
<1> HIDE DEF m
<1>4. /\ DOMAIN stream' = {"open", "queue", "unsent"} /\ stream'.open = stream.open
      /\ stream'.queue = Tail(stream.queue) /\ stream'.unsent = stream.unsent
  BY <1>1, <1>2 DEF StreamOK
<1>5. stream.open = "on"
  BY <1>1, <1>2 DEF StreamOK
<1>6. StreamOK(stream')
  BY <1>3, <1>4, <1>5 DEF StreamOK
<1>7. Messages(stream') \subseteq Messages(stream) /\ Messages(stream) \subseteq Messages(stream') \cup {m}
      /\ m \in Telling
  BY <1>3, <1>4 DEF Messages, Telling
<1>8. Fewer
  BY <1>1, <1>2 DEF Fewer, Shape, RequestsOK
<1>. QED  BY <1>1, <1>2, <1>4, <1>6, <1>7, <1>8, ReceiveGoes

LEMMA SocketClosesGoes ==
  ASSUME StatusInv, SocketCloses
  PROVE  Goes
<1>1. Shape /\ StreamOK(stream) /\ Versions /\ DOMAIN known = KnownFields /\ srv.ver \in Nat
      /\ known.lost \in Nat
  BY ShapeIs DEF StatusInv, Shape, Versions
<1>2. /\ stream' = [open |-> "closed", queue |-> << >>, unsent |-> {}]
      /\ known' = [known EXCEPT !.lost = srv.ver]
      /\ UNCHANGED <<srv, reqs, page>>
  BY DEF SocketCloses
<1>3. Range(<< >>) = {} /\ << >> \in Seq(Range(<< >>))
  BY DEF Range
<1>4. StreamOK(stream') /\ Messages(stream') = {}
  BY <1>2, <1>3 DEF StreamOK, Messages
<1>5. KnownStays /\ known'.lost = srv.ver
  BY <1>1, <1>2 DEF KnownStays, KnownFields
<1>6. PageStays /\ StillAsked
  BY <1>1, <1>2 DEF PageStays, StillAsked, Under, Shape
<1>7. Shape'
  BY <1>1, <1>2, <1>4, <1>5 DEF Shape, StreamOK, KnownStays
<1>8. Versions'
  BY <1>1, <1>2, <1>5 DEF Versions, KnownStays
<1>9. Told
  BY <1>2, <1>4 DEF Told, Telling
<1>10. Delivered
  BY <1>1, <1>5 DEF Delivered, Versions, KnownStays
<1>. QED  BY <1>1, <1>2, <1>5, <1>6, <1>7, <1>8, <1>9, <1>10, StaysLooks DEF Goes, Quiet, Same, Versions

-----------------------------------------------------------------------------
(* The user, and the effects of the page *)

\* What the server and the stream are not touched by
Local == srv' = srv /\ stream' = stream /\ DOMAIN known' = KnownFields /\ known'.shown = known.shown
         /\ known'.seen = known.seen /\ known'.lost = known.lost

LEMMA LocalGoes ==
  ASSUME StatusInv, Local, known'.failed = known.failed, PageStays, Fewer, StillAsked
  PROVE  Goes
BY UserGoes DEF Local, KnownStays

\* A step that changes the page alone, with one of the effects that follow
LEMMA PageChangeGoes ==
  ASSUME StatusInv, Local, known'.failed = known.failed, reqs' = reqs, NEW p,
         page' = Rendered(page, p), DOMAIN p = PageFields,
         p.runStatus = page.runStatus, p.refreshed = page.refreshed
  PROVE  Goes
<1>1. PageStays
  BY RenderedIs DEF PageStays
<1>2. Fewer /\ StillAsked
  BY DEF StatusInv, Shape, Fewer, StillAsked, Under, RequestsOK
<1>. QED  BY <1>1, <1>2, LocalGoes
LEMMA AskGoes ==
  ASSUME StatusInv, Local, known'.failed = known.failed, PageStays,
         NEW kind, NEW details, NEW body, Ask(kind, details, body)
  PROVE  Goes
<1>1. Shape
  BY DEF StatusInv
<1>. QED  BY <1>1, AskIs, LocalGoes

LEMMA AskedIs ==
  ASSUME DOMAIN known = KnownFields, NEW missed, NEW local,
         NEW k \in {Asked, [Asked EXCEPT !.missed = missed], [Asked EXCEPT !.local = local]}
  PROVE  /\ DOMAIN k = KnownFields /\ k.shown = known.shown /\ k.seen = known.seen
         /\ k.lost = known.lost /\ k.failed = known.failed /\ k.typed = known.typed
BY DEF Asked, KnownFields

\* The page asks, and notes that it has.
LEMMA ClickAsksGoes ==
  ASSUME StatusInv, srv' = srv, stream' = stream, PageStays,
         NEW kind, NEW details, NEW body, Ask(kind, details, body), NEW missed, NEW local,
         known' \in {Asked, [Asked EXCEPT !.missed = missed], [Asked EXCEPT !.local = local]}
  PROVE  Goes
<1>1. DOMAIN known = KnownFields
  BY DEF StatusInv, Shape
<1>2. Local /\ known'.failed = known.failed
  BY <1>1, AskedIs DEF Local
<1>. QED  BY <1>2, AskGoes

LEMMA PageUnchanged ==
  ASSUME StatusInv
  PROVE  /\ page' = page => PageStays
         /\ Shape /\ DOMAIN page = PageFields /\ DOMAIN known = KnownFields
BY DEF StatusInv, Shape, PageStays

LEMMA ClickRunGoes ==
  ASSUME StatusInv, ClickRun
  PROVE  Goes
<1>1. srv' = srv /\ stream' = stream /\ known' = Asked
  BY DEF ClickRun
<1>2. CASE page.runStatus = "paused"
  <2>1. Ask("resume", None, NoBody) /\ page' = page
    BY <1>2 DEF ClickRun
  <2>. QED  BY <1>1, <2>1, PageUnchanged, ClickAsksGoes
<1>3. CASE page.runStatus # "paused"
  <2> DEFINE p == [page EXCEPT !.result = None, !.runStatus = "running",
                               !.status = "running", !.listed = FALSE, !.pageNo = 1]
  <2>1. Ask("run", None, NoBody) /\ page' = Rendered(page, p)
    BY <1>3 DEF ClickRun
  <2>2. DOMAIN p = PageFields
    BY PageUnchanged
  <2> HIDE DEF p
  <2>3. DOMAIN page' = PageFields
    BY <2>1, <2>2, RenderedIs
  <2>4. Shape /\ Versions /\ StreamOK(stream) /\ DOMAIN known = KnownFields
    BY ShapeIs DEF StatusInv, Shape
  <2>5. Fewer /\ Under("run")'
    BY <2>1, <2>4, AskIs
  <2>6. Local
    BY <1>1, <2>4, AskedIs DEF Local
  <2>7. Shape'
    BY <1>1, <2>3, <2>4, <2>5, <2>6 DEF Shape, Fewer, RequestsOK, Local
  <2>8. Versions'
    BY <2>4, <2>6 DEF Versions, Local
  <2>9. Told
    BY <1>1, <2>5 DEF Told, Telling, Fewer
  <2>10. Delivered
    BY <1>1, <2>4, <2>6 DEF Delivered, Versions, Local
  <2>11. Looks
    BY <2>5, <2>6 DEF Looks, Local
  <2>. QED  BY <1>1, <2>4, <2>7, <2>8, <2>9, <2>10, <2>11 DEF Goes, Quiet, Same, Versions
<1>. QED  BY <1>2, <1>3

LEMMA ClickControlGoes ==
  ASSUME StatusInv, ClickPause \/ ClickStop \/ ClickAct
  PROVE  Goes
<1>1. srv' = srv /\ stream' = stream /\ known' = Asked /\ page' = page
      /\ \E kind, details, body : Ask(kind, details, body)
  BY DEF ClickPause, ClickStop, ClickAct
<1>. QED  BY <1>1, PageUnchanged, ClickAsksGoes

LEMMA FetchDetailsGoes ==
  ASSUME StatusInv, FetchDetails
  PROVE  Goes
<1>1. srv' = srv /\ stream' = stream /\ known' = [Asked EXCEPT !.missed = FALSE]
      /\ Ask("details", Set(Opts(page)), NoBody)
      /\ page' = [page EXCEPT !.due = FALSE, !.live = known.seq + 1]
  BY DEF FetchDetails
<1>2. PageStays
  BY <1>1, PageUnchanged DEF PageStays, PageFields
<1>. QED  BY <1>1, <1>2, ClickAsksGoes

LEMMA ClickSaveGoes ==
  ASSUME StatusInv, ClickSave
  PROVE  Goes
<1>1. srv' = srv /\ stream' = stream /\ page' = page
  BY DEF ClickSave
<1>2. CASE UNCHANGED <<reqs, known>>
  <2>1. Local /\ known'.failed = known.failed /\ Fewer /\ StillAsked
    BY <1>1, <1>2, PageUnchanged DEF Local, Fewer, StillAsked, Under, Shape, RequestsOK
  <2>. QED  BY <1>1, <2>1, PageUnchanged, LocalGoes
<1>3. ASSUME NEW body, Ask("save", None, body), known' = [Asked EXCEPT !.local = FALSE]
      PROVE  Goes
  <2>1. Local /\ known'.failed = known.failed
    BY <1>1, <1>3, PageUnchanged DEF Local, Asked, KnownFields
  <2>2. PageStays
    BY <1>1, PageUnchanged
  <2>. QED  BY <1>3, <2>1, <2>2, AskGoes
<1>. QED  BY <1>2, <1>3 DEF ClickSave

\* An edit changes the draft and the plan of the open dialog.
LEMMA EditIs ==
  ASSUME DOMAIN page = PageFields, Edit
  PROVE  \E p : /\ Edited(p)
               /\ \E draft, plan : p = [page EXCEPT !.draft = draft, !.plan = plan]
<1>1. CASE \E e \in Edits : Edited([page EXCEPT !.draft[e.field] = e.value])
  <2>1. PICK e \in Edits : Edited([page EXCEPT !.draft[e.field] = e.value])
    BY <1>1
  <2>2. [page EXCEPT !.draft[e.field] = e.value]
          = [page EXCEPT !.draft = [page.draft EXCEPT ![e.field] = e.value], !.plan = page.plan]
    BY DEF PageFields
  <2>. QED  BY <2>1, <2>2
<1>2. CASE Edited([page EXCEPT !.plan.enabled = ~@])
  <2>1. [page EXCEPT !.plan.enabled = ~@]
          = [page EXCEPT !.draft = page.draft, !.plan = [page.plan EXCEPT !.enabled = ~@]]
    BY DEF PageFields
  <2>. QED  BY <1>2, <2>1
<1>3. CASE \E v \in {0, 60} : Edited([page EXCEPT !.plan.interval = v])
  <2>1. PICK v : Edited([page EXCEPT !.plan.interval = v])
    BY <1>3
  <2>2. [page EXCEPT !.plan.interval = v]
          = [page EXCEPT !.draft = page.draft, !.plan = [page.plan EXCEPT !.interval = v]]
    BY DEF PageFields
  <2>. QED  BY <2>1, <2>2
<1>. QED  BY <1>1, <1>2, <1>3 DEF Edit

\* The actions that change what the page shows, but nothing of the run
LEMMA PageActionGoes ==
  ASSUME StatusInv,
         \/ \E f \in Filters : ClickFilter(f)
         \/ \E n \in 1..page.pageNo + 1 : ClickPage(n)
         \/ OpenDialog \/ CloseDialog \/ ConfigChanges \/ Edit \/ ResetSettings
  PROVE  Goes
<1>1. DOMAIN page = PageFields /\ DOMAIN known = KnownFields
  BY PageUnchanged
<1>2. srv' = srv /\ stream' = stream /\ reqs' = reqs
  BY DEF ClickFilter, ClickPage, OpenDialog, CloseDialog, ConfigChanges, Edit, Edited, ResetSettings
<1> DEFINE Kept == KnownStays /\ known'.lost = known.lost
           Render(p) == /\ page' = Rendered(page, p) /\ DOMAIN p = PageFields
                        /\ p.runStatus = page.runStatus /\ p.refreshed = page.refreshed
<1>3. ASSUME NEW f, ClickFilter(f) PROVE Kept /\ \E p : Render(p)
  <2>1. Render([page EXCEPT !.filter = f, !.pageNo = 1])
    BY <1>1, <1>3 DEF ClickFilter, PageFields
  <2>. QED  BY <1>1, <1>3, <2>1 DEF ClickFilter, KnownStays
<1>4. ASSUME NEW n, ClickPage(n) PROVE Kept /\ \E p : Render(p)
  <2>1. Render([page EXCEPT !.pageNo = n])
    BY <1>1, <1>4 DEF ClickPage, PageFields
  <2>. QED  BY <1>1, <1>4, <2>1 DEF ClickPage, KnownStays
<1>5. ASSUME OpenDialog PROVE Kept /\ \E p : Render(p)
  <2>1. Render([page EXCEPT !.open = TRUE, !.draft = DraftOf(page.settings)])
    BY <1>1, <1>5 DEF OpenDialog, PageFields
  <2>2. \E typed : known' = [known EXCEPT !.typed = typed]
    BY <1>5 DEF OpenDialog
  <2>3. Kept
    BY <1>1, <2>2 DEF KnownStays, KnownFields
  <2>. QED  BY <2>1, <2>3
<1>6. ASSUME CloseDialog PROVE Kept /\ \E p : Render(p)
  <2> DEFINE p == [page EXCEPT !.open = FALSE]
  <2>1. DOMAIN p = PageFields /\ p.runStatus = page.runStatus /\ p.refreshed = page.refreshed
    BY <1>1 DEF PageFields
  <2>2. page' = Rendered(page, Localised(p, browser))
        /\ known' = [known EXCEPT !.typed = None, !.local = TRUE]
    BY <1>6 DEF CloseDialog
  <2> HIDE DEF p
  <2>3. Render(Localised(p, browser))
    BY <2>1, <2>2, LocalisedIs
  <2>4. Kept
    BY <1>1, <2>2 DEF KnownStays, KnownFields
  <2>. QED  BY <2>3, <2>4
<1>7. ASSUME ConfigChanges PROVE Kept /\ \E p : Render(p)
  <2>1. page' = Rendered(page, Localised(page, browser)) /\ known' = [known EXCEPT !.local = TRUE]
    BY <1>7 DEF ConfigChanges
  <2>2. Render(Localised(page, browser))
    BY <1>1, <2>1, LocalisedIs
  <2>3. Kept
    BY <1>1, <2>1 DEF KnownStays, KnownFields
  <2>. QED  BY <2>2, <2>3
<1>8. ASSUME Edit PROVE Kept /\ \E p : Render(p)
  <2>1. PICK p : /\ Edited(p)
                 /\ \E draft, plan : p = [page EXCEPT !.draft = draft, !.plan = plan]
    BY <1>1, <1>8, EditIs
  <2>2. Render(p)
    BY <1>1, <2>1 DEF Edited, PageFields
  <2>3. \E edited, typed : known' = [known EXCEPT !.edited = edited, !.typed = typed]
    BY <2>1 DEF Edited
  <2>4. Kept
    BY <1>1, <2>3 DEF KnownStays, KnownFields
  <2>. QED  BY <2>2, <2>4
<1>9. ASSUME ResetSettings PROVE Kept /\ \E p : Render(p)
  <2>1. Render([page EXCEPT !.settings = Defaults, !.draft = DraftOf(Defaults)])
    BY <1>1, <1>9 DEF ResetSettings, PageFields
  <2>2. \E typed : known' = [known EXCEPT !.typed = typed, !.local = TRUE]
    BY <1>9 DEF ResetSettings
  <2>3. Kept
    BY <1>1, <2>2 DEF KnownStays, KnownFields
  <2>. QED  BY <2>1, <2>3
<1>10. Kept /\ \E p : Render(p)
  BY <1>3, <1>4, <1>5, <1>6, <1>7, <1>8, <1>9
<1>11. Local /\ known'.failed = known.failed
  BY <1>2, <1>10 DEF Local, KnownStays
<1>. QED  BY <1>2, <1>10, <1>11, PageChangeGoes

LEMMA UnchangedGoes ==
  ASSUME StatusInv, UNCHANGED <<srv, stream, reqs, page, browser, known>>
  PROVE  Goes
<1>1. PageStays /\ KnownStays /\ known'.lost = known.lost /\ Fewer /\ StillAsked
  BY DEF StatusInv, Shape, PageStays, KnownStays, Fewer, StillAsked, Under, RequestsOK
<1>. QED  BY <1>1, UserGoes

LEMMA StepGoes ==
  ASSUME StatusInv, [PageNext]_pageVars
  PROVE  Goes
<1>1. CASE Event
  <2>1. PICK group : Happens(group)
    BY <1>1 DEF Event
  <2>2. CASE UNCHANGED <<srv, stream, reqs, page, browser, known>>
    BY <2>2, UnchangedGoes
  <2>3. CASE ClickRun
    BY <2>3, ClickRunGoes
  <2>4. CASE ClickPause \/ ClickStop \/ ClickAct
    BY <2>4, ClickControlGoes
  <2>5. CASE \/ \E f \in Filters : ClickFilter(f)
             \/ \E n \in 1..page.pageNo + 1 : ClickPage(n)
             \/ OpenDialog \/ CloseDialog \/ ConfigChanges \/ Edit \/ ResetSettings
    BY <2>5, PageActionGoes
  <2>6. CASE ClickSave
    BY <2>6, ClickSaveGoes
  <2>7. CASE TimerStarts \/ OthersStart
    BY <2>7, StartsGoes
  <2>8. CASE OthersAct \/ \E kind \in {"pause", "resume", "stop"} : OthersControl(kind)
    BY <2>8, OthersBroadcastGoes
  <2>9. CASE Fault
    BY <2>9, DropGoes, SocketClosesGoes, FailGoes DEF Fault
  <2>. QED  BY <2>1, <2>2, <2>3, <2>4, <2>5, <2>6, <2>7, <2>8, <2>9 DEF Happens
<1>2. CASE Step
  <2>1. ASSUME NEW r \in reqs,
               Handle(r) \/ AnswerRequest(r) \/ Answered(r) \/ DetailsArrive(r) \/ SaveArrives(r) \/ Refused(r)
        PROVE  Goes
    BY <2>1, HandleGoes, AnswerRequestGoes, AnsweredGoes, DetailsArriveGoes, SaveArrivesGoes, FailGoes
       DEF Refused
  <2>. QED  BY <1>2, <2>1, SendGoes, ListsAccountsGoes, FinishGoes, ConnectGoes, MessageArrivesGoes,
               FetchDetailsGoes DEF Step
<1>3. CASE UNCHANGED pageVars
  BY <1>3, UnchangedGoes DEF pageVars
<1>. QED  BY <1>1, <1>2, <1>3 DEF PageNext

LEMMA InitIsInOrder == PageInit => StatusInv
<1> SUFFICES ASSUME PageInit PROVE StatusInv
  OBVIOUS
<1>1. DOMAIN srv = ServerFields /\ srv.ver = 1
  BY DEF PageInit, ServerFields
<1>2. stream = [open |-> "no", queue |-> << >>, unsent |-> {}]
  BY DEF PageInit
<1>3. Range(<< >>) = {} /\ << >> \in Seq(Range(<< >>))
  BY DEF Range
<1>4. DOMAIN page = PageFields
  BY DEF PageInit, PageFields
<1>5. DOMAIN known = KnownFields /\ known.shown = 0 /\ known.seen = 0 /\ known.lost = 0
  BY DEF PageInit, KnownFields
<1>6. \A r \in reqs : DOMAIN r = RequestFields /\ r.own \in Nat /\ r.pc # "answered"
  BY DEF PageInit, RequestFields
<1>7. Shape
  BY <1>1, <1>2, <1>3, <1>4, <1>5, <1>6 DEF Shape
<1>8. Telling = {}
  BY <1>2, <1>3, <1>6 DEF Telling, Messages, Answering
<1>9. ToldInv(1) /\ ComingInv(1) /\ ShownInv(1)
  BY <1>1, <1>2, <1>5, <1>8 DEF Telling, ToldInv, ComingInv, ShownInv
<1>. QED  BY <1>1, <1>5, <1>7, <1>9 DEF StatusInv, Versions

\* At rest a version the page has taken in is the one that told of the run last.
LEMMA RestShows == StatusInv => StatusTrue
<1> SUFFICES ASSUME StatusInv, AtRest, UpToDate, ~known.failed
             PROVE  Shows(page, srv)
  BY DEF StatusTrue, Shows
<1>1. PICK t \in 1..srv.ver : ToldInv(t) /\ ComingInv(t) /\ ShownInv(t)
  BY DEF StatusInv
<1>2. Messages(stream) = {}
  <2>1. Range(<< >>) = {}
    BY DEF Range
  <2>. QED  BY <2>1 DEF AtRest, Messages
<1>3. t \in Nat /\ known.lost \in Nat /\ known.seen \in Nat /\ known.shown \in Nat /\ srv.ver \in Nat
  BY DEF StatusInv, Versions
<1>4. known.lost >= t \/ known.seen >= t
  BY <1>1, <1>2 DEF ComingInv, AtRest
<1>5. known.shown >= t
  BY <1>3, <1>4 DEF UpToDate
<1>. QED  BY <1>1, <1>5 DEF ShownInv, AtRest, Under

(***************************************************************************)
(* The page shows the state of the run: at rest it shows the state the     *)
(* server is in, unless a message was lost, an older one was taken in      *)
(* last, or the start of a run failed.                                     *)
(***************************************************************************)
THEOREM RunShown == PageSpec => []StatusTrue
<1>1. PageInit => StatusInv
  BY InitIsInOrder
<1>2. StatusInv /\ [PageNext]_pageVars => StatusInv'
  BY StepGoes, GoesKeeps
<1>3. StatusInv => StatusTrue
  BY RestShows
<1>. QED  BY <1>1, <1>2, <1>3, PTL DEF PageSpec

-----------------------------------------------------------------------------
(* The settings on their way between the dialog and the server *)

DraftFields == SettingsFields \ {"confirmations"}
DraftOK(d) == DOMAIN d = DraftFields /\ \A f \in DraftFields : Allows(f, d[f])

\* A save stores what was typed.
BodyOK(b) ==
  /\ SettingsOK(b.settings)
  /\ b.typed # None =>
       /\ b.enabled = b.typed[1].plan.enabled /\ b.interval = b.typed[1].plan.interval
       /\ \A f \in DOMAIN b.typed[1].draft :
            \/ ServerNormalized(b.settings)[f] = b.typed[1].draft[f]
            \/ f = "usedPercentThreshold" /\ b.typed[1].draft[f] = 1

DialogOK(p) == SettingsOK(p.settings) /\ DraftOK(p.draft) /\ p.confirmations \in Int

\* What is noted as typed is in the draft of the open dialog.
TypedOK(p, typed) == typed # None => p.open /\ typed = Set(Typed(p))

TypedInv ==
  /\ SettingsOK(srv.settings) /\ Numeric(browser)
  /\ \A m \in Messages(stream) \cup Answering(reqs) : SettingsOK(m.settings)
  /\ DialogOK(page) /\ TypedOK(page, known.typed)
  /\ \A r \in reqs : r.kind = "save" => BodyOK(r.body[1])

LEMMA FieldsAre ==
  ASSUME NEW s
  PROVE  /\ SettingsOK(s) <=>
              /\ DOMAIN s = SettingsFields
              /\ \A f \in NumberFields : s[f] \in Int
              /\ s.targetType \in Providers \cup {"all"}
              /\ s.accountInvalid \in AutoErrorActions /\ s.requestError \in AutoErrorActions
         /\ DraftOK(s) <=>
              /\ DOMAIN s = DraftFields
              /\ \A f \in NumberFields \ {"confirmations"} : s[f] \in Int
              /\ s.targetType \in Providers \cup {"all"}
              /\ s.accountInvalid \in AutoErrorActions /\ s.requestError \in AutoErrorActions
BY DEF SettingsOK, DraftOK, SettingsFields, DraftFields, NumberFields, Allows

LEMMA DefaultsAre == SettingsOK(Defaults)
<1>1. DOMAIN Defaults = SettingsFields
  BY DEF Defaults, SettingsFields, NumberFields
<1>2. \A f \in NumberFields : Defaults[f] \in Int
  BY DEF Defaults, NumberFields
<1>. QED  BY <1>1, <1>2, FieldsAre DEF Defaults, AutoErrorActions

LEMMA DraftOfIs ==
  ASSUME NEW s, SettingsOK(s)
  PROVE  DraftOK(DraftOf(s))
BY DEF SettingsOK, DraftOf, DraftOK, DraftFields

LEMMA OverIs ==
  ASSUME NEW a, NEW b, Numeric(a), Numeric(b)
  PROVE  Numeric(Over(a, b))
BY DEF Numeric, Over

LEMMA BoundedIs ==
  ASSUME NEW v \in Int, NEW low \in Int, NEW high \in Int
  PROVE  /\ Bounded(v, low, high) \in Int
         /\ low <= v /\ v <= high => Bounded(v, low, high) = v
BY DEF Bounded

LEMMA ClampIs ==
  ASSUME NEW v \in Int, NEW fallback \in Int, NEW bounds, bounds.min \in Int, bounds.max \in Int,
         NEW below \in BOOLEAN
  PROVE  /\ ClampInteger(v, fallback, bounds, below) \in Int
         /\ InRange(v, bounds) => ClampInteger(v, fallback, bounds, below) = v
BY DEF ClampInteger, InRange, Bounded

LEMMA NormalizedIs ==
  ASSUME NEW input, Numeric(input)
  PROVE  SettingsOK(NormalizeConfigurableSettings(input))
<1> DEFINE merged == Over(input, Defaults)
           threshold == NormalizeThreshold(merged.usedPercentThreshold)
           workers == ClampInteger(merged.workers, Defaults.workers, Limits.workers, FALSE)
           Clamped(f, below) == ClampInteger(merged[f], Defaults[f], Limits[f], below)
           n == NormalizeConfigurableSettings(input)
<1>1. \A f \in NumberFields : merged[f] \in Int /\ Defaults[f] \in Int
  <2>1. NumberFields \subseteq DOMAIN Defaults /\ \A f \in NumberFields : Defaults[f] \in Int
    BY DefaultsAre, FieldsAre DEF SettingsFields
  <2>2. Numeric(Defaults) /\ NumberFields \subseteq DOMAIN merged
    BY <2>1 DEF Numeric, Over
  <2>3. Numeric(merged)
    BY <2>2, OverIs
  <2>. QED  BY <2>1, <2>2, <2>3 DEF Numeric
<1> HIDE DEF merged
<1>2. /\ merged.workers \in Int /\ merged.deleteWorkers \in Int /\ merged.usedPercentThreshold \in Int
      /\ \A f \in {"timeout", "retries", "sampleSize", "confirmations"} : merged[f] \in Int
      /\ \A f \in NumberFields : Defaults[f] \in Int
      /\ Defaults.workers \in Int /\ Defaults.usedPercentThreshold \in Int
  BY <1>1 DEF NumberFields
<1>3. \A f \in NumberFields : Limits[f].min \in Int /\ Limits[f].max \in Int
  BY DEF NumberFields, Limits, NoMax
<1>4. /\ Limits.workers.min \in Int /\ Limits.workers.max \in Int
      /\ Limits.deleteWorkers.min \in Int /\ Limits.deleteWorkers.max \in Int
  BY DEF Limits
<1>5. workers \in Int
  BY <1>2, <1>4, ClampIs
<1>6. \A f \in {"timeout", "retries", "sampleSize", "confirmations"}, below \in BOOLEAN :
        Clamped(f, below) \in Int
  BY <1>2, <1>3, ClampIs DEF NumberFields
<1>7. (IF threshold = Unset THEN Defaults.usedPercentThreshold ELSE Bounded(threshold, 0, 100)) \in Int
  <2>1. threshold \in Int
    BY <1>2 DEF NormalizeThreshold, Unset
  <2> HIDE DEF threshold
  <2>. QED  BY <1>2, <2>1 DEF Bounded
<1>8. ClampInteger(merged.deleteWorkers, workers, Limits.deleteWorkers, FALSE) \in Int
  BY <1>2, <1>4, <1>5, ClampIs
<1>9. n = [targetType |-> TargetType(merged.targetType),
           workers |-> workers,
           deleteWorkers |-> ClampInteger(merged.deleteWorkers, workers, Limits.deleteWorkers, FALSE),
           timeout |-> Clamped("timeout", TRUE),
           retries |-> Clamped("retries", FALSE),
           usedPercentThreshold |-> IF threshold = Unset THEN Defaults.usedPercentThreshold
                                    ELSE Bounded(threshold, 0, 100),
           sampleSize |-> Clamped("sampleSize", FALSE),
           confirmations |-> Clamped("confirmations", TRUE),
           accountInvalid |-> AutoErrorAction(merged.accountInvalid),
           requestError |-> AutoErrorAction(merged.requestError),
           policies |-> merged.policies]
  BY DEF NormalizeConfigurableSettings, merged
<1> HIDE DEF n, workers, threshold, Clamped
<1>10. DOMAIN n = SettingsFields
  BY <1>9 DEF SettingsFields, NumberFields
<1>11. \A f \in NumberFields : n[f] \in Int
  <2>1. /\ n.workers \in Int /\ n.deleteWorkers \in Int /\ n.usedPercentThreshold \in Int
        /\ n.timeout \in Int /\ n.retries \in Int /\ n.sampleSize \in Int /\ n.confirmations \in Int
    BY <1>5, <1>6, <1>7, <1>8, <1>9
  <2>. QED  BY <2>1 DEF NumberFields
<1>12. /\ n.targetType \in Providers \cup {"all"}
       /\ n.accountInvalid \in AutoErrorActions /\ n.requestError \in AutoErrorActions
  BY <1>9 DEF TargetType, AutoErrorAction, AutoErrorActions
<1>13. SettingsOK(n)
  BY <1>10, <1>11, <1>12, FieldsAre
<1>. QED  BY <1>13 DEF n

LEMMA ServerNormalizedIs ==
  ASSUME NEW s, SettingsOK(s)
  PROVE  SettingsOK(ServerNormalized(s))
<1> DEFINE OrDefault(f) == IF s[f] <= 0 THEN Defaults[f] ELSE s[f]
           workers == Bounded(OrDefault("workers"), 1, 8)
           deleteWorkers == IF s.deleteWorkers <= 0 THEN workers ELSE s.deleteWorkers
           n == ServerNormalized(s)
<1>1. \A f \in NumberFields : s[f] \in Int /\ OrDefault(f) \in Int
  BY DefaultsAre, FieldsAre
<1>2. /\ s.deleteWorkers \in Int /\ s.retries \in Int /\ s.usedPercentThreshold \in Int
      /\ s.sampleSize \in Int /\ OrDefault("workers") \in Int /\ OrDefault("timeout") \in Int
      /\ OrDefault("confirmations") \in Int /\ NoMax \in Int
  BY <1>1 DEF NumberFields, NoMax
<1>3. n = [targetType |-> TargetType(s.targetType),
           workers |-> workers,
           deleteWorkers |-> Bounded(deleteWorkers, 1, 4),
           timeout |-> Bounded(OrDefault("timeout"), 3000, 30000),
           retries |-> Bounded(s.retries, 0, 1),
           usedPercentThreshold |-> Bounded(s.usedPercentThreshold, 0, 100),
           sampleSize |-> Bounded(s.sampleSize, 0, NoMax),
           confirmations |-> Bounded(OrDefault("confirmations"), 1, 5),
           accountInvalid |-> AutoErrorAction(s.accountInvalid),
           requestError |-> AutoErrorAction(s.requestError),
           policies |-> s.policies]
  BY DEF ServerNormalized
<1> HIDE DEF n, OrDefault
<1>4. workers \in Int
  BY <1>2, BoundedIs
<1> HIDE DEF workers
<1>5. deleteWorkers \in Int
  BY <1>2, <1>4
<1> HIDE DEF deleteWorkers
<1> DEFINE retries == s.retries
           threshold == s.usedPercentThreshold
           sampleSize == s.sampleSize
           timeout == OrDefault("timeout")
           confirmations == OrDefault("confirmations")
<1>6. /\ n.workers \in Int /\ n.deleteWorkers \in Int /\ n.usedPercentThreshold \in Int
      /\ n.timeout \in Int /\ n.retries \in Int /\ n.sampleSize \in Int /\ n.confirmations \in Int
  <2>1. /\ retries \in Int /\ threshold \in Int /\ sampleSize \in Int
        /\ timeout \in Int /\ confirmations \in Int /\ NoMax \in Int
    BY <1>2
  <2> HIDE DEF retries, threshold, sampleSize, timeout, confirmations
  <2>2. /\ Bounded(deleteWorkers, 1, 4) \in Int /\ Bounded(timeout, 3000, 30000) \in Int
        /\ Bounded(retries, 0, 1) \in Int /\ Bounded(threshold, 0, 100) \in Int
        /\ Bounded(sampleSize, 0, NoMax) \in Int /\ Bounded(confirmations, 1, 5) \in Int
    BY <1>5, <2>1, BoundedIs
  <2>3. /\ n.workers = workers /\ n.deleteWorkers = Bounded(deleteWorkers, 1, 4)
        /\ n.timeout = Bounded(timeout, 3000, 30000) /\ n.retries = Bounded(retries, 0, 1)
        /\ n.usedPercentThreshold = Bounded(threshold, 0, 100)
        /\ n.sampleSize = Bounded(sampleSize, 0, NoMax)
        /\ n.confirmations = Bounded(confirmations, 1, 5)
    BY <1>3 DEF retries, threshold, sampleSize, timeout, confirmations
  <2>. QED  BY <1>4, <2>2, <2>3
<1>7. DOMAIN n = SettingsFields
  BY <1>3 DEF SettingsFields, NumberFields
<1>8. \A f \in NumberFields : n[f] \in Int
  BY <1>6 DEF NumberFields
<1>9. /\ n.targetType \in Providers \cup {"all"}
      /\ n.accountInvalid \in AutoErrorActions /\ n.requestError \in AutoErrorActions
  BY <1>3 DEF TargetType, AutoErrorAction, AutoErrorActions
<1>10. SettingsOK(n)
  BY <1>7, <1>8, <1>9, FieldsAre
<1>. QED  BY <1>10 DEF n
LEMMA NumberPasses ==
  ASSUME NEW v \in Int, NEW low \in Int, NEW high \in Int, NEW bounds,
         bounds = [min |-> low, max |-> high], InRange(v, bounds)
  PROVE  /\ v >= low /\ v <= high
         /\ \A fallback, below : ClampInteger(v, fallback, bounds, below) = v
         /\ Bounded(v, low, high) = v
         /\ low > 0 => \A fallback : Bounded(IF v <= 0 THEN fallback ELSE v, low, high) = v
<1>1. bounds.min = low /\ bounds.max = high /\ v >= low /\ v <= high /\ v # Unset
  BY DEF InRange
<1>2. Bounded(v, low, high) = v
  BY <1>1 DEF Bounded
<1>3. \A fallback, below : ClampInteger(v, fallback, bounds, below) = v
  BY <1>1, <1>2 DEF ClampInteger
<1>4. low > 0 => ~(v <= 0)
  BY <1>1
<1>. QED  BY <1>1, <1>2, <1>3, <1>4

(***************************************************************************)
(* A draft that the dialog accepts passes the page's normalisation and the *)
(* server's as it is, but for a threshold of 1.                            *)
(***************************************************************************)
LEMMA DraftIsStored ==
  ASSUME NEW d, DraftOK(d), DraftValid(d), NEW c \in Int
  PROVE  LET taken == NormalizeConfigurableSettings(Over(d, [confirmations |-> c]))
         IN  /\ SettingsOK(taken)
             /\ \A f \in DraftFields :
                  \/ ServerNormalized(taken)[f] = d[f]
                  \/ f = "usedPercentThreshold" /\ d[f] = 1
<1> DEFINE input == Over(d, [confirmations |-> c])
           merged == Over(input, Defaults)
           s == NormalizeConfigurableSettings(input)
           t == ServerNormalized(s)
<1>1. Numeric(input)
  <2>1. Numeric(d) /\ Numeric([confirmations |-> c])
    BY FieldsAre DEF Numeric, DraftFields
  <2>. QED  BY <2>1, OverIs
<1>2. SettingsOK(s)
  BY <1>1, NormalizedIs
<1>3. \A f \in DraftFields : merged[f] = d[f]
  BY DEF Over, DraftOK
<1>4. \A f \in NumberFields \ {"confirmations"} : d[f] \in Int /\ InRange(d[f], Limits[f])
  BY FieldsAre DEF DraftValid, NumberFields
<1>5. /\ d.targetType \in Providers \cup {"all"}
      /\ d.accountInvalid \in AutoErrorActions /\ d.requestError \in AutoErrorActions
  BY FieldsAre
<1>6. /\ merged.workers = d.workers /\ merged.deleteWorkers = d.deleteWorkers
      /\ merged.timeout = d.timeout /\ merged.retries = d.retries
      /\ merged.usedPercentThreshold = d.usedPercentThreshold /\ merged.sampleSize = d.sampleSize
      /\ merged.targetType = d.targetType /\ merged.accountInvalid = d.accountInvalid
      /\ merged.requestError = d.requestError /\ merged.policies = d.policies
  BY <1>3 DEF DraftFields, SettingsFields, NumberFields
<1> HIDE DEF merged
<1> DEFINE Clamps(f) == \A fallback, below : ClampInteger(d[f], fallback, Limits[f], below) = d[f]
           Stored(f, low, high) ==
             \A fallback : Bounded(IF d[f] <= 0 THEN fallback ELSE d[f], low, high) = d[f]
<1>7. Clamps("workers") /\ Stored("workers", 1, 8)
  <2>1. Limits["workers"] = [min |-> 1, max |-> 8] /\ d["workers"] \in Int
        /\ InRange(d["workers"], Limits["workers"])
    BY <1>4 DEF Limits, NumberFields
  <2>. QED  BY <2>1, NumberPasses
<1>8. Clamps("deleteWorkers") /\ Stored("deleteWorkers", 1, 4)
  <2>1. Limits["deleteWorkers"] = [min |-> 1, max |-> 4] /\ d["deleteWorkers"] \in Int
        /\ InRange(d["deleteWorkers"], Limits["deleteWorkers"])
    BY <1>4 DEF Limits, NumberFields
  <2>. QED  BY <2>1, NumberPasses
<1>9. Clamps("timeout") /\ Stored("timeout", 3000, 30000)
  <2>1. Limits["timeout"] = [min |-> 3000, max |-> 30000] /\ d["timeout"] \in Int
        /\ InRange(d["timeout"], Limits["timeout"])
    BY <1>4 DEF Limits, NumberFields
  <2>. QED  BY <2>1, NumberPasses
<1>10. Clamps("retries") /\ Bounded(d["retries"], 0, 1) = d["retries"]
  <2>1. Limits["retries"] = [min |-> 0, max |-> 1] /\ d["retries"] \in Int
        /\ InRange(d["retries"], Limits["retries"])
    BY <1>4 DEF Limits, NumberFields
  <2>. QED  BY <2>1, NumberPasses
<1>11. Clamps("sampleSize") /\ Bounded(d["sampleSize"], 0, NoMax) = d["sampleSize"]
  <2>1. Limits["sampleSize"] = [min |-> 0, max |-> NoMax] /\ d["sampleSize"] \in Int
        /\ InRange(d["sampleSize"], Limits["sampleSize"]) /\ NoMax \in Int
    BY <1>4 DEF Limits, NumberFields, NoMax
  <2>. QED  BY <2>1, NumberPasses
<1> DEFINE v == d["usedPercentThreshold"]
           threshold == NormalizeThreshold(v)
           w == IF v = 1 THEN 100 ELSE v
<1>12. (IF threshold = Unset THEN Defaults.usedPercentThreshold ELSE Bounded(threshold, 0, 100)) = w
       /\ Bounded(w, 0, 100) = w
  <2>1. Limits["usedPercentThreshold"] = [min |-> 0, max |-> 100] /\ v \in Int
        /\ InRange(v, Limits["usedPercentThreshold"])
    BY <1>4 DEF Limits, NumberFields
  <2> HIDE DEF v
  <2>2. v >= 0 /\ v <= 100
    BY <2>1, NumberPasses
  <2>3. threshold = w /\ w # Unset
    <3>1. v # Unset /\ ~(v < 0) /\ v \in Int
      BY <2>1, <2>2 DEF InRange
    <3>2. 100 # Unset
      BY DEF Unset
    <3>. QED  BY <3>1, <3>2 DEF NormalizeThreshold
  <2>4. Bounded(w, 0, 100) = w
    BY <2>1, <2>2 DEF Bounded
  <2>. QED  BY <2>3, <2>4
<1> HIDE DEF w, v
<1>13. /\ s.workers = d.workers /\ s.deleteWorkers = d.deleteWorkers /\ s.timeout = d.timeout
       /\ s.retries = d.retries /\ s.sampleSize = d.sampleSize /\ s.usedPercentThreshold = w
       /\ s.targetType = TargetType(d.targetType) /\ s.policies = d.policies
       /\ s.accountInvalid = AutoErrorAction(d.accountInvalid)
       /\ s.requestError = AutoErrorAction(d.requestError)
  <2>1. /\ s.workers = ClampInteger(d.workers, Defaults.workers, Limits.workers, FALSE)
        /\ s.deleteWorkers = ClampInteger(d.deleteWorkers, s.workers, Limits.deleteWorkers, FALSE)
        /\ s.timeout = ClampInteger(d.timeout, Defaults.timeout, Limits.timeout, TRUE)
        /\ s.retries = ClampInteger(d.retries, Defaults.retries, Limits.retries, FALSE)
        /\ s.sampleSize = ClampInteger(d.sampleSize, Defaults.sampleSize, Limits.sampleSize, FALSE)
        /\ s.usedPercentThreshold = IF threshold = Unset THEN Defaults.usedPercentThreshold
                                    ELSE Bounded(threshold, 0, 100)
        /\ s.targetType = TargetType(d.targetType) /\ s.policies = d.policies
        /\ s.accountInvalid = AutoErrorAction(d.accountInvalid)
        /\ s.requestError = AutoErrorAction(d.requestError)
    BY <1>6 DEF NormalizeConfigurableSettings, merged, v
  <2> HIDE DEF s, threshold
  <2>2. s.workers = d.workers
    BY <1>7, <2>1
  <2>3. s.deleteWorkers = d.deleteWorkers
    BY <1>8, <2>1
  <2>4. s.timeout = d.timeout
    <3>1. s.timeout = ClampInteger(d.timeout, Defaults.timeout, Limits.timeout, TRUE)
      BY <2>1
    <3>2. \A fallback, below : ClampInteger(d.timeout, fallback, Limits.timeout, below) = d.timeout
      BY <1>9
    <3>. QED  BY <3>1, <3>2, Zenon
  <2>5. s.retries = d.retries
    BY <1>10, <2>1
  <2>6. s.sampleSize = d.sampleSize
    BY <1>11, <2>1
  <2>. QED  BY <1>12, <2>1, <2>2, <2>3, <2>4, <2>5, <2>6
<1> HIDE DEF s
<1>14. /\ t.workers = d.workers /\ t.deleteWorkers = d.deleteWorkers /\ t.timeout = d.timeout
       /\ t.retries = d.retries /\ t.sampleSize = d.sampleSize /\ t.usedPercentThreshold = w
       /\ t.targetType = d.targetType /\ t.policies = d.policies
       /\ t.accountInvalid = d.accountInvalid /\ t.requestError = d.requestError
  <2>1. /\ t.workers = Bounded(IF s.workers <= 0 THEN Defaults.workers ELSE s.workers, 1, 8)
        /\ t.deleteWorkers
             = Bounded(IF s.deleteWorkers <= 0 THEN t.workers ELSE s.deleteWorkers, 1, 4)
        /\ t.timeout = Bounded(IF s.timeout <= 0 THEN Defaults.timeout ELSE s.timeout, 3000, 30000)
        /\ t.retries = Bounded(s.retries, 0, 1)
        /\ t.usedPercentThreshold = Bounded(s.usedPercentThreshold, 0, 100)
        /\ t.sampleSize = Bounded(s.sampleSize, 0, NoMax)
        /\ t.targetType = TargetType(s.targetType) /\ t.policies = s.policies
        /\ t.accountInvalid = AutoErrorAction(s.accountInvalid)
        /\ t.requestError = AutoErrorAction(s.requestError)
    BY DEF ServerNormalized
  <2>2. /\ TargetType(d.targetType) = d.targetType
        /\ AutoErrorAction(d.accountInvalid) = d.accountInvalid
        /\ AutoErrorAction(d.requestError) = d.requestError
    BY <1>5 DEF TargetType, AutoErrorAction
  <2> HIDE DEF t
  <2>3. t.workers = d.workers
    BY <1>7, <1>13, <2>1
  <2>4. t.deleteWorkers = d.deleteWorkers
    BY <1>8, <1>13, <2>1
  <2>5. t.timeout = d.timeout
    BY <1>9, <1>13, <2>1
  <2>6. t.retries = d.retries /\ t.sampleSize = d.sampleSize /\ t.usedPercentThreshold = w
    BY <1>10, <1>11, <1>12, <1>13, <2>1
  <2>7. /\ t.targetType = d.targetType /\ t.policies = d.policies
        /\ t.accountInvalid = d.accountInvalid /\ t.requestError = d.requestError
    BY <1>13, <2>1, <2>2
  <2>. QED  BY <2>3, <2>4, <2>5, <2>6, <2>7
<1> HIDE DEF t
<1>15. \A f \in DraftFields : \/ t[f] = d[f]
                              \/ f = "usedPercentThreshold" /\ d[f] = 1
  <2>1. \A f \in DraftFields \ {"usedPercentThreshold"} : t[f] = d[f]
    BY <1>14 DEF DraftFields, SettingsFields, NumberFields
  <2>2. d["usedPercentThreshold"] # 1 => t["usedPercentThreshold"] = d["usedPercentThreshold"]
    BY <1>14 DEF v, w
  <2>. QED  BY <2>1, <2>2
<1>. QED  BY <1>2, <1>15 DEF t, s

LEMMA NumericIs ==
  ASSUME NEW s, SettingsOK(s)
  PROVE  Numeric(s) /\ s.confirmations \in Int
<1>1. \A f \in NumberFields : s[f] \in Int
  BY FieldsAre
<1>2. "confirmations" \in NumberFields
  BY DEF NumberFields
<1>3. s["confirmations"] \in Int
  BY <1>1, <1>2
<1>. QED  BY <1>1, <1>3 DEF Numeric

LEMMA LoadedIs ==
  ASSUME NEW local, Numeric(local)
  PROVE  SettingsOK(LoadConfigurableSettings(Clean, local))
<1>1. Numeric(Over(local, Clean))
  BY SettingsAssumption, OverIs
<1>. QED  BY <1>1, NormalizedIs DEF LoadConfigurableSettings

-----------------------------------------------------------------------------
(* What a step does to the settings *)

Bodies(rs) == \A r \in rs : r.kind = "save" => BodyOK(r.body[1])

\* What is told after a step is told in order, once the server's settings are.
Settled ==
  /\ SettingsOK(srv'.settings) /\ Numeric(browser')
  /\ DialogOK(page') /\ TypedOK(page', known'.typed)
  /\ Bodies(reqs')

LEMMA SettledKeeps ==
  ASSUME TypedInv, Goes, Settled
  PROVE  TypedInv'
<1>1. Told
  BY DEF Goes, Quiet, News
<1>2. \A m \in Telling : SettingsOK(m.settings)
  BY DEF TypedInv, Telling
<1>3. \A m \in Telling' : SettingsOK(m.settings)
  BY <1>1, <1>2 DEF Told, Settled
<1>. QED  BY <1>3 DEF Telling, TypedInv, Settled, Bodies

\* A page whose dialog is in order still is after the effects that follow.
LEMMA RenderedDialogIs ==
  ASSUME NEW old, NEW new, DOMAIN new = PageFields, DialogOK(new), NEW p, p = Rendered(old, new)
  PROVE  DialogOK(p) /\ Typed(p) = Typed(new) /\ p.open = new.open
<1>1. /\ p.open = new.open /\ p.settings = new.settings /\ p.draft = new.draft /\ p.plan = new.plan
      /\ p.confirmations = new.confirmations \/ p.confirmations = new.settings.confirmations
  BY RenderedIs
<1>2. new.settings.confirmations \in Int
  BY NumericIs DEF DialogOK
<1>. QED  BY <1>1, <1>2 DEF DialogOK, Typed

\* The dialog is not touched.
LEMMA DialogStays ==
  ASSUME TypedInv, known'.typed = known.typed,
         \/ page' = page
         \/ \E p : /\ DOMAIN p = PageFields /\ page' = Rendered(page, p)
                   /\ p.settings = page.settings /\ p.draft = page.draft /\ p.plan = page.plan
                   /\ p.open = page.open /\ p.confirmations = page.confirmations
  PROVE  DialogOK(page') /\ TypedOK(page', known'.typed)
<1>1. CASE page' = page
  BY <1>1 DEF TypedInv
<1>2. ASSUME NEW p, DOMAIN p = PageFields, page' = Rendered(page, p),
             p.settings = page.settings, p.draft = page.draft, p.plan = page.plan,
             p.open = page.open, p.confirmations = page.confirmations
      PROVE  DialogOK(page') /\ TypedOK(page', known'.typed)
  <2>1. DialogOK(p)
    BY <1>2 DEF TypedInv, DialogOK
  <2>2. DialogOK(page') /\ Typed(page') = Typed(p) /\ page'.open = p.open
    BY <1>2, <2>1, RenderedDialogIs
  <2>3. Typed(p) = Typed(page)
    BY <1>2 DEF Typed
  <2>. QED  BY <1>2, <2>2, <2>3 DEF TypedInv, TypedOK
<1>. QED  BY <1>1, <1>2

\* The requests of a step whose save, if it has one, was there before
LEMMA BodiesStay ==
  ASSUME Bodies(reqs),
         \/ reqs' \subseteq reqs
         \/ \E kind, details, body : kind # "save" /\ Ask(kind, details, body)
         \/ \E r \in reqs : \E n : n.kind = r.kind /\ n.body = r.body /\ reqs' = Replace(r, n)
  PROVE  Bodies(reqs')
<1>1. CASE reqs' \subseteq reqs
  BY <1>1 DEF Bodies
<1>2. ASSUME NEW kind, NEW details, NEW body, kind # "save", Ask(kind, details, body)
      PROVE  Bodies(reqs')
  BY <1>2 DEF Bodies, Ask, Request
<1>3. ASSUME NEW r \in reqs, NEW n, n.kind = r.kind, n.body = r.body, reqs' = Replace(r, n)
      PROVE  Bodies(reqs')
  BY <1>3 DEF Bodies, Replace
<1>. QED  BY <1>1, <1>2, <1>3

\* A step of the server, the stream or the page that leaves the dialog, the
\* copy in the browser and the settings as they are
LEMMA StaysSettled ==
  ASSUME TypedInv, srv'.settings = srv.settings, browser' = browser,
         DialogOK(page'), TypedOK(page', known'.typed), Bodies(reqs')
  PROVE  Settled
BY DEF TypedInv, Settled

\* The server and the stream: only a save changes the settings.
LEMMA HandleSettled ==
  ASSUME StatusInv, TypedInv, NEW r \in reqs, Handle(r)
  PROVE  Settled
<1>1. /\ DOMAIN r = RequestFields /\ DOMAIN srv = ServerFields /\ srv.ver \in Nat
      /\ DOMAIN known = KnownFields /\ Bodies(reqs)
  BY DEF StatusInv, Shape, Versions, TypedInv, Bodies
<1>2. page' = page /\ browser' = browser
  BY DEF Handle
<1>3. known'.typed = known.typed
  BY <1>1 DEF Handle, Broadcasting, KnownFields
<1>4. DialogOK(page') /\ TypedOK(page', known'.typed)
  BY <1>2, <1>3, DialogStays
<1>5. Bodies(reqs')
  <2>1. \E n : n.kind = r.kind /\ n.body = r.body /\ reqs' = Replace(r, n)
    <3>1. \A pc, own : /\ [r EXCEPT !.pc = pc].kind = r.kind /\ [r EXCEPT !.pc = pc].body = r.body
                       /\ [r EXCEPT !.pc = pc, !.own = own].kind = r.kind
                       /\ [r EXCEPT !.pc = pc, !.own = own].body = r.body
      BY <1>1 DEF RequestFields
    <3>2. \/ \E pc : reqs' = Replace(r, [r EXCEPT !.pc = pc])
          \/ \E own : reqs' = Replace(r, [r EXCEPT !.pc = "handled", !.own = own])
      BY DEF Handle
    <3>. QED  BY <3>1, <3>2
  <2>. QED  BY <1>1, <2>1, BodiesStay
<1>6. CASE r.kind # "save"
  <2>1. \/ srv' = srv \/ srv' = StartRun(srv, TRUE) \/ \E kind : srv' = Control(srv, kind)
        \/ \E item, action, succeeds : srv' = Acted(srv, item, action, succeeds)
    <3>1. CASE r.kind = "run"
      BY <3>1 DEF Handle
    <3>2. CASE r.kind \in {"pause", "resume", "stop"}
      BY <3>2 DEF Handle, Broadcasting
    <3>3. CASE r.kind = "act"
      BY <3>3 DEF Handle, Broadcasting
    <3>. QED  BY <1>6, <3>1, <3>2, <3>3 DEF Handle
  <2>2. ASSUME srv' = StartRun(srv, TRUE) PROVE srv'.settings = srv.settings
    BY <1>1, <2>2, StartRunIs
  <2>3. ASSUME NEW kind, srv' = Control(srv, kind) PROVE srv'.settings = srv.settings
    BY <1>1, <2>3, ControlIs
  <2>4. ASSUME NEW item, NEW action, NEW succeeds, srv' = Acted(srv, item, action, succeeds)
        PROVE  srv'.settings = srv.settings
    BY <1>1, <2>4, ActedIs
  <2>5. srv'.settings = srv.settings
    BY <2>1, <2>2, <2>3, <2>4
  <2>. QED  BY <1>2, <1>4, <1>5, <2>5, StaysSettled
<1>7. CASE r.kind = "save"
  <2>1. srv' = Updated(srv, r.body[1])
    BY <1>7 DEF Handle
  <2>2. srv'.settings = ServerNormalized(r.body[1].settings)
    BY <1>1, <2>1, UpdatedIs
  <2>3. SettingsOK(r.body[1].settings)
    BY <1>1, <1>7 DEF Bodies, BodyOK
  <2>4. SettingsOK(srv'.settings)
    BY <2>2, <2>3, ServerNormalizedIs
  <2>. QED  BY <1>2, <1>4, <1>5, <2>4 DEF Settled, TypedInv
<1>. QED  BY <1>6, <1>7

LEMMA ServerSettled ==
  ASSUME StatusInv, TypedInv,
         \/ ListsAccounts \/ Finish \/ TimerStarts \/ OthersStart \/ OthersAct
         \/ \E kind : OthersControl(kind)
         \/ Connect \/ SocketCloses \/ \E m : Send(m) \/ Drop(m)
  PROVE  Settled
<1>1. /\ DOMAIN srv = ServerFields /\ srv.ver \in Nat /\ DOMAIN known = KnownFields /\ Bodies(reqs)
  BY DEF StatusInv, Shape, Versions, TypedInv, Bodies
<1>2. page' = page /\ browser' = browser /\ reqs' = reqs
  BY DEF ListsAccounts, Finish, TimerStarts, OthersStart, OthersAct, OthersControl, Connect,
         SocketCloses, Send, Drop
<1>3. known'.typed = known.typed
  <2>1. \/ known' = known \/ \E lost : known' = [known EXCEPT !.lost = lost]
        \/ \E lost, foreign : known' = [known EXCEPT !.lost = lost, !.foreign = foreign]
    BY DEF ListsAccounts, Finish, TimerStarts, OthersStart, OthersAct, OthersControl, Connect,
           SocketCloses, Send, Drop, Broadcasting
  <2>. QED  BY <1>1, <2>1 DEF KnownFields
<1>4. srv'.settings = srv.settings
  <2>1. CASE ListsAccounts
    BY <1>1, <2>1 DEF ListsAccounts, Broadcasting, Changed, ServerFields
  <2>2. CASE Finish
    <3>1. PICK state, rows :
            LET s == Changed([srv EXCEPT !.state = state, !.finished = srv.run, !.rows = rows,
                                         !.failed = state # "completed"])
            IN  /\ \/ srv' = s
                   \/ srv' = Changed([s EXCEPT !.arm = @ + 1, !.next = s.arm + 1])
                /\ stream' = Sending(s)
      BY <2>2, Zenon DEF Finish
    <3>. QED  BY <1>1, <3>1 DEF Changed, ServerFields
  <2>3. CASE TimerStarts \/ OthersStart
    <3>1. PICK manual : srv' = StartRun(srv, manual)
      BY <2>3 DEF TimerStarts, OthersStart
    <3>. QED  BY <1>1, <3>1, StartRunIs
  <2>4. CASE OthersAct
    <3>1. PICK item, action, succeeds : srv' = Acted(srv, item, action, succeeds)
      BY <2>4 DEF OthersAct
    <3>. QED  BY <1>1, <3>1, ActedIs
  <2>5. CASE \E kind : OthersControl(kind)
    BY <1>1, <2>5, ControlIs DEF OthersControl, Broadcasting
  <2>6. CASE Connect \/ SocketCloses \/ \E m : Send(m) \/ Drop(m)
    BY <2>6 DEF Connect, SocketCloses, Send, Drop
  <2>. QED  BY <2>1, <2>2, <2>3, <2>4, <2>5, <2>6
<1>5. DialogOK(page') /\ TypedOK(page', known'.typed)
  BY <1>2, <1>3, DialogStays
<1>. QED  BY <1>1, <1>2, <1>4, <1>5, StaysSettled DEF Bodies

LEMMA AnswerRequestSettled ==
  ASSUME StatusInv, TypedInv, NEW r \in reqs, AnswerRequest(r)
  PROVE  Settled
<1>1. DOMAIN r = RequestFields /\ Bodies(reqs)
  BY DEF StatusInv, Shape, TypedInv, Bodies
<1>2. srv' = srv /\ page' = page /\ browser' = browser /\ known' = known
  BY DEF AnswerRequest
<1>3. PICK answer : reqs' = Replace(r, [r EXCEPT !.pc = "answered", !.answer = answer])
  BY DEF AnswerRequest
<1>4. \E n : n.kind = r.kind /\ n.body = r.body /\ reqs' = Replace(r, n)
  <2>1. /\ [r EXCEPT !.pc = "answered", !.answer = answer].kind = r.kind
        /\ [r EXCEPT !.pc = "answered", !.answer = answer].body = r.body
    BY <1>1 DEF RequestFields
  <2>. QED  BY <1>3, <2>1
<1>5. Bodies(reqs')
  BY <1>1, <1>4, BodiesStay
<1>6. DialogOK(page') /\ TypedOK(page', known'.typed)
  BY <1>2, DialogStays
<1>. QED  BY <1>2, <1>5, <1>6, StaysSettled

\* The page takes in a message or an answer: the draft is the server's then,
\* and what was typed is forgotten, unless it is the same.
LEMMA ReceiveDialog ==
  ASSUME StatusInv, TypedInv, NEW m \in Telling, NEW p, DOMAIN p = PageFields,
         p.open = page.open, p.draft = page.draft, p.plan = page.plan,
         p.confirmations = page.confirmations, Receive(p, m)
  PROVE  DialogOK(page') /\ TypedOK(page', known'.typed)
<1>1. DOMAIN known = KnownFields /\ known.seen \in Nat /\ m.ver \in Nat /\ SettingsOK(m.settings)
  BY DEF StatusInv, Shape, Versions, ToldInv, TellsOK, Telling, TypedInv
<1> DEFINE a == Applied(p, m)
           k == Seen(p, m)
<1>2. /\ DOMAIN a = PageFields /\ a.open = p.open /\ a.confirmations = p.confirmations
      /\ a.settings = NormalizeConfigurableSettings(m.settings) /\ a.draft = DraftOf(a.settings)
  BY AppliedIs
<1>3. DialogOK(a)
  <2>1. SettingsOK(a.settings)
    BY <1>1, <1>2, NumericIs, NormalizedIs
  <2>2. DraftOK(a.draft)
    BY <1>2, <2>1, DraftOfIs
  <2>. QED  BY <1>2, <2>1, <2>2 DEF DialogOK, TypedInv
<1>4. k.typed = IF p.open /\ Typed(a) # Typed(p) THEN None ELSE known.typed
  BY <1>1, SeenIs
<1>5. page' = Rendered(p, a) /\ known' = k
  BY DEF Receive
<1> HIDE DEF a, k
<1>6. DialogOK(page') /\ Typed(page') = Typed(a) /\ page'.open = a.open
  BY <1>2, <1>3, <1>5, RenderedDialogIs
<1>7. Typed(p) = Typed(page) /\ TypedOK(page, known.typed)
  BY DEF Typed, TypedInv
<1>8. TypedOK(page', known'.typed)
  BY <1>2, <1>4, <1>5, <1>6, <1>7 DEF TypedOK
<1>. QED  BY <1>6, <1>8

LEMMA AnswerSettled ==
  ASSUME StatusInv, TypedInv, NEW r \in reqs, Answered(r) \/ DetailsArrive(r)
  PROVE  Settled
<1>1. /\ r.pc = "answered" /\ reqs' \subseteq reqs /\ reqs' = reqs \ {r}
      /\ srv' = srv /\ browser' = browser /\ stream' = stream
  BY DEF Answered, DetailsArrive
<1>2. DOMAIN page = PageFields /\ Bodies(reqs)
  BY DEF StatusInv, Shape, TypedInv, Bodies
<1> DEFINE loaded == [page EXCEPT !.loaded = Key(page), !.live = 0]
<1>3. /\ DOMAIN loaded = PageFields /\ loaded.open = page.open /\ loaded.draft = page.draft
      /\ loaded.plan = page.plan /\ loaded.confirmations = page.confirmations
  BY <1>2 DEF PageFields
<1>4. Receive(page, r.answer[1]) \/ Receive(loaded, r.answer[1])
  BY DEF Answered, DetailsArrive
<1> HIDE DEF loaded
<1>5. r.answer[1] \in Telling
  BY <1>1, AnswerIs
<1>6. DialogOK(page') /\ TypedOK(page', known'.typed)
  BY <1>2, <1>3, <1>4, <1>5, ReceiveDialog
<1>7. Bodies(reqs')
  BY <1>1, <1>2, BodiesStay
<1>. QED  BY <1>1, <1>6, <1>7, StaysSettled

LEMMA MessageSettled ==
  ASSUME StatusInv, TypedInv, MessageArrives
  PROVE  Settled
<1>1. /\ stream.queue # << >> /\ Receive(page, Head(stream.queue))
      /\ reqs' = reqs /\ srv' = srv /\ browser' = browser
  BY DEF MessageArrives
<1>2. DOMAIN page = PageFields /\ Bodies(reqs') /\ stream.queue \in Seq(Range(stream.queue))
  BY <1>1 DEF StatusInv, Shape, TypedInv, Bodies
<1>3. Head(stream.queue) \in Telling
  BY <1>1, <1>2, RangeOfQueue DEF Telling, Messages
<1>4. DialogOK(page') /\ TypedOK(page', known'.typed)
  BY <1>1, <1>2, <1>3, ReceiveDialog
<1>. QED  BY <1>1, <1>2, <1>4, StaysSettled

LEMMA SaveSettled ==
  ASSUME StatusInv, TypedInv, NEW r \in reqs, SaveArrives(r)
  PROVE  Settled
<1> DEFINE m == r.answer[1]
           p == [page EXCEPT !.open = FALSE]
           a == Applied(p, m)
           closed == Localised(a, browser)
           applied == Applied(page, m)
<1>1. /\ r.pc = "answered" /\ reqs' = reqs \ {r} /\ stream' = stream /\ srv' = srv
      /\ browser' = browser
      /\ page' = Rendered(page, IF page.open THEN closed ELSE applied)
  BY DEF SaveArrives
<1>2. DOMAIN known = KnownFields /\ DOMAIN page = PageFields /\ Bodies(reqs) /\ m \in Telling
  BY <1>1, AnswerIs DEF StatusInv, Shape, TypedInv, Bodies
<1>3. known'.typed = None
  <2>1. DOMAIN Seen(page, m) = KnownFields
    BY <1>2 DEF Seen
  <2>2. \E local : known' = [Seen(page, m) EXCEPT !.typed = None, !.local = local]
    BY DEF SaveArrives
  <2>. QED  BY <2>1, <2>2 DEF KnownFields
<1>4. SettingsOK(m.settings) /\ DialogOK(page)
  BY <1>2 DEF TypedInv, Telling
<1>5. DOMAIN p = PageFields /\ p.confirmations = page.confirmations /\ p.open = FALSE
  BY <1>2 DEF PageFields
<1> HIDE DEF m, p
<1>6. /\ DOMAIN a = PageFields /\ a.open = FALSE /\ a.confirmations = page.confirmations
  BY <1>5, AppliedIs
<1>7. /\ DOMAIN applied = PageFields /\ applied.confirmations = page.confirmations
      /\ applied.settings = NormalizeConfigurableSettings(m.settings)
      /\ applied.draft = DraftOf(applied.settings)
  BY <1>2, AppliedIs
<1> HIDE DEF a, applied
<1>8. DialogOK(applied)
  <2>1. SettingsOK(applied.settings)
    BY <1>4, <1>7, NumericIs, NormalizedIs
  <2>2. DraftOK(applied.draft)
    BY <1>7, <2>1, DraftOfIs
  <2>. QED  BY <1>4, <1>7, <2>1, <2>2 DEF DialogOK
<1>9. DOMAIN closed = PageFields /\ DialogOK(closed)
  <2>1. /\ DOMAIN closed = PageFields /\ closed.confirmations = page.confirmations
        /\ closed.settings = LoadConfigurableSettings(Clean, browser)
        /\ closed.draft = DraftOf(closed.settings)
    BY <1>6, LocalisedIs
  <2> HIDE DEF closed
  <2>2. SettingsOK(closed.settings)
    BY <2>1, LoadedIs DEF TypedInv
  <2>3. DraftOK(closed.draft)
    BY <2>1, <2>2, DraftOfIs
  <2>. QED  BY <1>4, <2>1, <2>2, <2>3 DEF DialogOK
<1> HIDE DEF closed
<1>10. DialogOK(page')
  BY <1>1, <1>7, <1>8, <1>9, RenderedDialogIs
<1>11. Bodies(reqs')
  BY <1>1, <1>2, BodiesStay
<1>. QED  BY <1>1, <1>3, <1>10, <1>11, StaysSettled DEF TypedOK

LEMMA FailSettled ==
  ASSUME StatusInv, TypedInv, NEW r \in reqs, Fail(r)
  PROVE  Settled
<1>1. /\ DOMAIN page = PageFields /\ DOMAIN known = KnownFields /\ Bodies(reqs)
      /\ reqs' \subseteq reqs /\ srv' = srv /\ browser' = browser
  BY DEF StatusInv, Shape, TypedInv, Bodies, Fail
<1>2. known'.typed = known.typed
  <2> DEFINE failed == known.failed \/ r.kind = "run"
             emptied == known.emptied \/ r.kind = "run"
             missed == known.missed \/ r.seq = page.live
             foreign == IF r.kind = "act" THEN Max({known.foreign, r.own}) ELSE known.foreign
             lost == IF r.kind = "save" THEN Max({known.lost, r.own}) ELSE known.lost
             local == known.local \/ r.kind = "save"
  <2>1. known' = [known EXCEPT !.failed = failed, !.emptied = emptied, !.missed = missed,
                               !.foreign = foreign, !.lost = lost, !.local = local]
    BY DEF Fail
  <2> HIDE DEF failed, emptied, missed, foreign, lost, local
  <2>. QED  BY <1>1, <2>1 DEF KnownFields
<1>3. \E p : /\ DOMAIN p = PageFields /\ page' = Rendered(page, p)
             /\ p.settings = page.settings /\ p.draft = page.draft /\ p.plan = page.plan
             /\ p.open = page.open /\ p.confirmations = page.confirmations
  <2> DEFINE p == CASE r.kind = "run" -> [page EXCEPT !.runStatus = "error"]
                    [] r.kind = "status" -> [page EXCEPT !.next = None]
                    [] OTHER -> IF r.seq = page.live THEN [page EXCEPT !.live = 0] ELSE page
  <2>1. page' = Rendered(page, p)
    BY DEF Fail
  <2>2. p \in {[page EXCEPT !.runStatus = "error"], [page EXCEPT !.next = None],
               [page EXCEPT !.live = 0], page}
    OBVIOUS
  <2> HIDE DEF p
  <2>3. /\ DOMAIN p = PageFields /\ p.settings = page.settings /\ p.draft = page.draft
        /\ p.plan = page.plan /\ p.open = page.open /\ p.confirmations = page.confirmations
    BY <1>1, <2>2 DEF PageFields
  <2>. QED  BY <2>1, <2>3
<1>4. DialogOK(page') /\ TypedOK(page', known'.typed)
  BY <1>2, <1>3, DialogStays
<1>5. Bodies(reqs')
  BY <1>1, BodiesStay
<1>. QED  BY <1>1, <1>4, <1>5, StaysSettled

\* Clicks that do not touch the dialog, and the fetch of the details
LEMMA ClickSettled ==
  ASSUME StatusInv, TypedInv,
         \/ ClickRun \/ ClickPause \/ ClickStop \/ ClickAct \/ FetchDetails
         \/ \E f : ClickFilter(f) \/ \E n : ClickPage(n)
  PROVE  Settled
<1>1. /\ DOMAIN page = PageFields /\ DOMAIN known = KnownFields /\ Bodies(reqs)
      /\ srv' = srv /\ browser' = browser
  BY DEF StatusInv, Shape, TypedInv, Bodies, ClickRun, ClickPause, ClickStop, ClickAct, FetchDetails,
         ClickFilter, ClickPage
<1>2. known'.typed = known.typed
  <2>1. known' \in {known, Asked, [Asked EXCEPT !.missed = FALSE]}
    BY DEF ClickRun, ClickPause, ClickStop, ClickAct, FetchDetails, ClickFilter, ClickPage
  <2>. QED  BY <1>1, <2>1 DEF Asked, KnownFields
<1>3. Bodies(reqs')
  <2>1. reqs' \subseteq reqs \/ \E kind, details, body : kind # "save" /\ Ask(kind, details, body)
    <3>1. CASE ClickRun
      <4>1. Ask("resume", None, NoBody) \/ Ask("run", None, NoBody)
        BY <3>1 DEF ClickRun
      <4>. QED  BY <4>1
    <3>2. CASE ClickPause \/ ClickStop
      <4>1. Ask("pause", None, NoBody) \/ Ask("stop", None, NoBody)
        BY <3>2 DEF ClickPause, ClickStop
      <4>. QED  BY <4>1
    <3>3. CASE ClickAct
      <4>1. \E details, body : Ask("act", details, body)
        BY <3>3 DEF ClickAct
      <4>. QED  BY <4>1
    <3>4. CASE FetchDetails
      <4>1. Ask("details", Set(Opts(page)), NoBody)
        BY <3>4 DEF FetchDetails
      <4>. QED  BY <4>1
    <3>5. CASE \E f : ClickFilter(f) \/ \E n : ClickPage(n)
      BY <3>5 DEF ClickFilter, ClickPage
    <3>. QED  BY <3>1, <3>2, <3>3, <3>4, <3>5
  <2>. QED  BY <1>1, <2>1, BodiesStay
<1>4. CASE ~FetchDetails
  <2>1. \/ page' = page
        \/ \E p : /\ DOMAIN p = PageFields /\ page' = Rendered(page, p)
                  /\ p.settings = page.settings /\ p.draft = page.draft /\ p.plan = page.plan
                  /\ p.open = page.open /\ p.confirmations = page.confirmations
    <3>1. ASSUME page' # page
          PROVE  \/ \E f : page' = Rendered(page, [page EXCEPT !.filter = f, !.pageNo = 1])
                 \/ \E n : page' = Rendered(page, [page EXCEPT !.pageNo = n])
                 \/ page' = Rendered(page, [page EXCEPT !.result = None, !.runStatus = "running",
                                              !.status = "running", !.listed = FALSE, !.pageNo = 1])
      BY <1>4, <3>1 DEF ClickRun, ClickPause, ClickStop, ClickAct, ClickFilter, ClickPage
    <3> DEFINE Kept(p) == /\ DOMAIN p = PageFields /\ p.settings = page.settings
                          /\ p.draft = page.draft /\ p.plan = page.plan
                          /\ p.open = page.open /\ p.confirmations = page.confirmations
    <3>2. /\ \A f : Kept([page EXCEPT !.filter = f, !.pageNo = 1])
          /\ \A n : Kept([page EXCEPT !.pageNo = n])
          /\ Kept([page EXCEPT !.result = None, !.runStatus = "running", !.status = "running",
                               !.listed = FALSE, !.pageNo = 1])
      BY <1>1 DEF PageFields
    <3>. QED  BY <3>1, <3>2
  <2>2. DialogOK(page') /\ TypedOK(page', known'.typed)
    BY <1>2, <2>1, DialogStays
  <2>. QED  BY <1>1, <1>3, <2>2, StaysSettled
<1>5. CASE FetchDetails
  <2>1. page' = [page EXCEPT !.due = FALSE, !.live = known.seq + 1]
    BY <1>5 DEF FetchDetails
  <2>2. /\ page'.settings = page.settings /\ page'.draft = page.draft /\ page'.plan = page.plan
        /\ page'.open = page.open /\ page'.confirmations = page.confirmations
    BY <1>1, <2>1 DEF PageFields
  <2>3. DialogOK(page') /\ TypedOK(page', known'.typed)
    BY <1>2, <2>2 DEF TypedInv, DialogOK, TypedOK, Typed
  <2>. QED  BY <1>1, <1>3, <2>3, StaysSettled
<1>. QED  BY <1>4, <1>5

\* The dialog opens on the settings of the page, and closes on the browser's.
LEMMA OpenSettled ==
  ASSUME StatusInv, TypedInv, OpenDialog
  PROVE  Settled
<1> DEFINE p == [page EXCEPT !.open = TRUE, !.draft = DraftOf(page.settings)]
           q == [page EXCEPT !.draft = DraftOf(page.settings)]
<1>1. /\ page' = Rendered(page, p) /\ known' = [known EXCEPT !.typed = Set(Typed(q))]
      /\ reqs' = reqs /\ srv' = srv /\ browser' = browser
  BY DEF OpenDialog
<1>2. DOMAIN page = PageFields /\ DOMAIN known = KnownFields /\ Bodies(reqs') /\ DialogOK(page)
  BY <1>1 DEF StatusInv, Shape, TypedInv, Bodies
<1>3. /\ DOMAIN p = PageFields /\ p.open = TRUE /\ p.draft = DraftOf(page.settings)
      /\ p.settings = page.settings /\ p.confirmations = page.confirmations
      /\ p.draft = q.draft /\ p.plan = q.plan
  BY <1>2 DEF PageFields
<1> HIDE DEF p, q
<1>4. DialogOK(p)
  BY <1>2, <1>3, DraftOfIs DEF DialogOK
<1>5. DialogOK(page') /\ Typed(page') = Typed(p) /\ page'.open = TRUE
  BY <1>1, <1>3, <1>4, RenderedDialogIs
<1>6. Typed(p) = Typed(q)
  BY <1>3 DEF Typed
<1>7. known'.typed = Set(Typed(q))
  BY <1>1, <1>2 DEF KnownFields
<1>8. TypedOK(page', known'.typed)
  BY <1>5, <1>6, <1>7 DEF TypedOK
<1>. QED  BY <1>1, <1>2, <1>5, <1>8, StaysSettled

LEMMA LocalisedDialog ==
  ASSUME TypedInv, NEW p, DOMAIN p = PageFields, p.draft = page.draft, p.plan = page.plan,
         p.confirmations = page.confirmations, page' = Rendered(page, Localised(p, browser))
  PROVE  /\ DialogOK(page') /\ page'.open = p.open
         /\ p.open => Typed(page') = Typed(page)
<1> DEFINE l == Localised(p, browser)
<1>1. /\ DOMAIN l = PageFields /\ l.open = p.open /\ l.plan = p.plan
      /\ l.confirmations = p.confirmations
      /\ l.settings = LoadConfigurableSettings(Clean, browser)
      /\ l.draft = IF p.open THEN p.draft ELSE DraftOf(l.settings)
  BY LocalisedIs
<1> HIDE DEF l
<1>2. SettingsOK(l.settings)
  BY <1>1, LoadedIs DEF TypedInv
<1>3. DialogOK(l)
  BY <1>1, <1>2, DraftOfIs DEF TypedInv, DialogOK
<1>4. DialogOK(page') /\ Typed(page') = Typed(l) /\ page'.open = l.open
  BY <1>1, <1>3, RenderedDialogIs DEF l
<1>. QED  BY <1>1, <1>4 DEF Typed

LEMMA CloseSettled ==
  ASSUME StatusInv, TypedInv, CloseDialog \/ ConfigChanges
  PROVE  Settled
<1>1. /\ DOMAIN page = PageFields /\ DOMAIN known = KnownFields /\ Bodies(reqs')
      /\ reqs' = reqs /\ srv' = srv /\ browser' = browser
  BY DEF StatusInv, Shape, TypedInv, Bodies, CloseDialog, ConfigChanges
<1>2. CASE CloseDialog
  <2> DEFINE p == [page EXCEPT !.open = FALSE]
  <2>1. page' = Rendered(page, Localised(p, browser)) /\ known'.typed = None
    BY <1>1, <1>2 DEF CloseDialog, KnownFields
  <2>2. /\ DOMAIN p = PageFields /\ p.draft = page.draft /\ p.plan = page.plan
        /\ p.confirmations = page.confirmations
    BY <1>1 DEF PageFields
  <2> HIDE DEF p
  <2>3. DialogOK(page')
    BY <2>1, <2>2, LocalisedDialog
  <2>. QED  BY <1>1, <2>1, <2>3, StaysSettled DEF TypedOK
<1>3. CASE ConfigChanges
  <2>1. page' = Rendered(page, Localised(page, browser)) /\ known'.typed = known.typed
    BY <1>1, <1>3 DEF ConfigChanges, KnownFields
  <2>2. /\ DialogOK(page') /\ page'.open = page.open
        /\ page.open => Typed(page') = Typed(page)
    BY <1>1, <2>1, LocalisedDialog
  <2>3. TypedOK(page', known'.typed)
    BY <2>1, <2>2 DEF TypedInv, TypedOK
  <2>. QED  BY <1>1, <2>2, <2>3, StaysSettled
<1>. QED  BY <1>2, <1>3

\* A field of the draft, or the plan, is edited.
LEMMA EditSettled ==
  ASSUME StatusInv, TypedInv, Edit
  PROVE  Settled
<1>1. /\ DOMAIN page = PageFields /\ DOMAIN known = KnownFields /\ Bodies(reqs)
      /\ DialogOK(page) /\ page.open
  BY DEF StatusInv, Shape, TypedInv, Bodies, Edit
<1>2. PICK p : /\ Edited(p)
               /\ \E draft, plan : DraftOK(draft) /\ p = [page EXCEPT !.draft = draft, !.plan = plan]
  <2>1. CASE \E e \in Edits : Edited([page EXCEPT !.draft[e.field] = e.value])
    <3>1. PICK e \in Edits : Edited([page EXCEPT !.draft[e.field] = e.value])
      BY <2>1
    <3> DEFINE draft == [page.draft EXCEPT ![e.field] = e.value]
    <3>2. [page EXCEPT !.draft[e.field] = e.value]
            = [page EXCEPT !.draft = draft, !.plan = page.plan]
      BY <1>1 DEF PageFields
    <3>3. DraftOK(draft)
      <4>1. e.field \in DraftFields /\ Allows(e.field, e.value)
        BY SettingsAssumption DEF DraftFields
      <4>2. DraftOK(page.draft)
        BY <1>1 DEF DialogOK
      <4>. QED  BY <4>1, <4>2 DEF DraftOK
    <3> HIDE DEF draft
    <3>. QED  BY <3>1, <3>2, <3>3
  <2>2. CASE Edited([page EXCEPT !.plan.enabled = ~@])
    <3>1. [page EXCEPT !.plan.enabled = ~@]
            = [page EXCEPT !.draft = page.draft, !.plan = [page.plan EXCEPT !.enabled = ~@]]
      BY <1>1 DEF PageFields
    <3>. QED  BY <1>1, <2>2, <3>1 DEF DialogOK
  <2>3. CASE \E v \in {0, 60} : Edited([page EXCEPT !.plan.interval = v])
    <3>1. PICK v : Edited([page EXCEPT !.plan.interval = v])
      BY <2>3
    <3>2. [page EXCEPT !.plan.interval = v]
            = [page EXCEPT !.draft = page.draft, !.plan = [page.plan EXCEPT !.interval = v]]
      BY <1>1 DEF PageFields
    <3>. QED  BY <1>1, <3>1, <3>2 DEF DialogOK
  <2>. QED  BY <2>1, <2>2, <2>3 DEF Edit
<1>3. /\ DOMAIN p = PageFields /\ DialogOK(p) /\ p.open = page.open
  BY <1>1, <1>2 DEF DialogOK, PageFields
<1>4. /\ page' = Rendered(page, p) /\ reqs' = reqs /\ srv' = srv /\ browser' = browser
      /\ known'.typed = IF known.typed = None THEN None ELSE Set(Typed(p))
  <2>1. \E edited : known' = [known EXCEPT !.edited = edited,
                                    !.typed = IF @ = None THEN None ELSE Set(Typed(p))]
    BY <1>2 DEF Edited
  <2>2. known'.typed = IF known.typed = None THEN None ELSE Set(Typed(p))
    BY <1>1, <2>1 DEF KnownFields
  <2>. QED  BY <1>2, <2>2 DEF Edited
<1>5. DialogOK(page') /\ Typed(page') = Typed(p) /\ page'.open = p.open
  BY <1>3, <1>4, RenderedDialogIs
<1>6. TypedOK(page', known'.typed)
  BY <1>1, <1>3, <1>4, <1>5 DEF TypedOK
<1>. QED  BY <1>1, <1>4, <1>5, <1>6, StaysSettled

LEMMA ResetSettled ==
  ASSUME StatusInv, TypedInv, ResetSettings
  PROVE  Settled
<1> DEFINE p == [page EXCEPT !.settings = Defaults, !.draft = DraftOf(Defaults)]
           typed == IF known.typed = None THEN None
                    ELSE Set([known.typed[1] EXCEPT !.draft = DraftOf(Defaults)])
<1>1. /\ page' = Rendered(page, p) /\ known' = [known EXCEPT !.typed = typed, !.local = TRUE]
      /\ browser' = Defaults /\ reqs' = reqs /\ srv' = srv
  BY DEF ResetSettings
<1>2. /\ DOMAIN page = PageFields /\ DOMAIN known = KnownFields /\ Bodies(reqs')
      /\ DialogOK(page) /\ TypedOK(page, known.typed)
  BY <1>1 DEF StatusInv, Shape, TypedInv, Bodies
<1>3. /\ DOMAIN p = PageFields /\ p.settings = Defaults /\ p.draft = DraftOf(Defaults)
      /\ p.plan = page.plan /\ p.open = page.open /\ p.confirmations = page.confirmations
  BY <1>2 DEF PageFields
<1>4. known'.typed = typed
  BY <1>1, <1>2 DEF KnownFields
<1> HIDE DEF p
<1>5. DialogOK(p)
  BY <1>2, <1>3, DefaultsAre, DraftOfIs DEF DialogOK
<1>6. DialogOK(page') /\ Typed(page') = Typed(p) /\ page'.open = p.open
  BY <1>1, <1>3, <1>5, RenderedDialogIs
<1>7. TypedOK(page', known'.typed)
  <2>1. CASE known.typed = None
    BY <1>4, <2>1 DEF TypedOK
  <2>2. CASE known.typed # None
    <3>1. page.open /\ known.typed[1] = Typed(page)
      BY <1>2, <2>2 DEF TypedOK, Set
    <3>2. [Typed(page) EXCEPT !.draft = DraftOf(Defaults)] = Typed(p)
      BY <1>3 DEF Typed
    <3>3. known'.typed = Set(Typed(p))
      BY <1>4, <2>2, <3>1, <3>2
    <3>. QED  BY <1>3, <1>6, <3>1, <3>3 DEF TypedOK
  <2>. QED  BY <2>1, <2>2
<1>8. Numeric(browser') /\ SettingsOK(srv'.settings)
  BY <1>1, DefaultsAre, NumericIs DEF TypedInv
<1>. QED  BY <1>2, <1>6, <1>7, <1>8 DEF Settled

\* What is asked to be saved is what was typed.
LEMMA ClickSaveSettled ==
  ASSUME StatusInv, TypedInv, ClickSave
  PROVE  Settled
<1> DEFINE taken ==
             NormalizeConfigurableSettings(Over(page.draft, [confirmations |-> page.confirmations]))
           body == SaveBody(taken)
<1>1. /\ page' = page /\ srv' = srv /\ browser' = taken /\ DraftValid(page.draft)
      /\ \/ reqs' = reqs /\ known' = known
         \/ Ask("save", None, Set(body)) /\ known' = [Asked EXCEPT !.local = FALSE]
  BY DEF ClickSave
<1>2. /\ DOMAIN page = PageFields /\ DOMAIN known = KnownFields /\ Bodies(reqs)
      /\ DialogOK(page) /\ TypedOK(page, known.typed)
  BY DEF StatusInv, Shape, TypedInv, Bodies
<1>3. /\ SettingsOK(taken)
      /\ \A f \in DraftFields : \/ ServerNormalized(taken)[f] = page.draft[f]
                                \/ f = "usedPercentThreshold" /\ page.draft[f] = 1
  BY <1>1, <1>2, DraftIsStored DEF DialogOK
<1> HIDE DEF taken
<1>4. /\ body.settings = taken /\ body.typed = known.typed
      /\ body.enabled = page.plan.enabled /\ body.interval = page.plan.interval
  BY DEF SaveBody
<1>5. BodyOK(body)
  <2>1. ASSUME body.typed # None
        PROVE  body.typed[1].draft = page.draft /\ body.typed[1].plan = page.plan
    BY <1>2, <1>4, <2>1 DEF TypedOK, Set, Typed
  <2>2. DOMAIN page.draft = DraftFields
    BY <1>2 DEF DialogOK, DraftOK
  <2> HIDE DEF body
  <2>. QED  BY <1>3, <1>4, <2>1, <2>2 DEF BodyOK
<1> HIDE DEF body
<1>6. Bodies(reqs')
  <2>1. ASSUME Ask("save", None, Set(body)) PROVE Bodies(reqs')
    <3>1. \A r \in reqs' : r \in reqs \/ r.body = Set(body)
      BY <2>1, AskIs DEF StatusInv
    <3>. QED  BY <1>2, <1>5, <3>1 DEF Bodies, Set
  <2>. QED  BY <1>1, <1>2, <2>1
<1>7. known'.typed = known.typed
  BY <1>1, <1>2 DEF Asked, KnownFields
<1>8. DialogOK(page') /\ TypedOK(page', known'.typed)
  BY <1>1, <1>2, <1>7
<1>9. Numeric(browser') /\ SettingsOK(srv'.settings)
  BY <1>1, <1>3, NumericIs DEF TypedInv
<1>. QED  BY <1>6, <1>8, <1>9 DEF Settled

LEMMA UnchangedSettled ==
  ASSUME TypedInv, UNCHANGED <<srv, stream, reqs, page, browser, known>>
  PROVE  Settled
BY DEF TypedInv, Settled, Bodies

LEMMA StepSettled ==
  ASSUME StatusInv, TypedInv, [PageNext]_pageVars
  PROVE  Settled
<1>1. CASE Event
  <2>1. PICK group : Happens(group)
    BY <1>1 DEF Event
  <2>2. CASE UNCHANGED <<srv, stream, reqs, page, browser, known>>
    BY <2>2, UnchangedSettled
  <2>3. CASE \/ ClickRun \/ ClickPause \/ ClickStop \/ ClickAct
             \/ \E f \in Filters : ClickFilter(f)
             \/ \E n \in 1..page.pageNo + 1 : ClickPage(n)
    BY <2>3, ClickSettled
  <2>4. CASE OpenDialog \/ CloseDialog \/ Edit \/ ResetSettings \/ ClickSave \/ ConfigChanges
    BY <2>4, OpenSettled, CloseSettled, EditSettled, ResetSettled, ClickSaveSettled
  <2>5. CASE \/ TimerStarts \/ OthersStart \/ OthersAct
             \/ \E kind \in {"pause", "resume", "stop"} : OthersControl(kind)
    BY <2>5, ServerSettled
  <2>6. CASE Fault
    BY <2>6, ServerSettled, FailSettled DEF Fault
  <2>. QED  BY <2>1, <2>2, <2>3, <2>4, <2>5, <2>6 DEF Happens
<1>2. CASE Step
  <2>1. ASSUME NEW r \in reqs,
               Handle(r) \/ AnswerRequest(r) \/ Answered(r) \/ DetailsArrive(r) \/ SaveArrives(r) \/ Refused(r)
        PROVE  Settled
    BY <2>1, HandleSettled, AnswerRequestSettled, AnswerSettled, SaveSettled, FailSettled DEF Refused
  <2>2. CASE ListsAccounts \/ Finish \/ Connect \/ \E m \in stream.unsent : Send(m)
    BY <2>2, ServerSettled
  <2>. QED  BY <1>2, <2>1, <2>2, MessageSettled, ClickSettled DEF Step
<1>3. CASE UNCHANGED pageVars
  BY <1>3, UnchangedSettled DEF pageVars
<1>. QED  BY <1>1, <1>2, <1>3 DEF PageNext

LEMMA InitIsSettled == PageInit => TypedInv
<1> SUFFICES ASSUME PageInit PROVE TypedInv
  OBVIOUS
<1>1. PICK s \in Scenarios : srv.settings = s.start.settings
  BY DEF PageInit
<1>2. SettingsOK(srv.settings) /\ Numeric(browser)
  BY <1>1, SettingsAssumption DEF PageInit
<1>3. stream.queue = << >> /\ stream.unsent = {} /\ Range(<< >>) = {}
      /\ \A r \in reqs : r.pc # "answered" /\ r.kind # "save"
  BY DEF PageInit, Range
<1>4. Messages(stream) \cup Answering(reqs) = {}
  BY <1>3 DEF Messages, Answering
<1> DEFINE taken == LoadConfigurableSettings(Clean, browser)
<1>5. /\ page.settings = taken /\ page.draft = DraftOf(taken)
      /\ page.confirmations = taken.confirmations
  BY DEF PageInit
<1>6. SettingsOK(taken)
  BY <1>2, LoadedIs
<1> HIDE DEF taken
<1>7. DialogOK(page)
  BY <1>5, <1>6, DraftOfIs, NumericIs DEF DialogOK
<1>8. known.typed = None
  BY DEF PageInit
<1>. QED  BY <1>2, <1>3, <1>4, <1>7, <1>8 DEF TypedInv, TypedOK

LEMMA SavesAreTyped == StatusInv /\ TypedInv => SavedAsTyped
<1> SUFFICES ASSUME StatusInv, TypedInv, NEW r \in reqs, r.kind = "save",
                    r.body[1].typed # None
             PROVE  LET saved == Updated(srv, r.body[1])
                        typed == r.body[1].typed[1]
                    IN  /\ saved.enabled = typed.plan.enabled /\ saved.interval = typed.plan.interval
                        /\ \A f \in DOMAIN typed.draft :
                             \/ saved.settings[f] = typed.draft[f]
                             \/ f = "usedPercentThreshold" /\ typed.draft[f] = 1
  BY DEF SavedAsTyped
<1> DEFINE b == r.body[1]
           saved == Updated(srv, b)
<1>1. BodyOK(b) /\ b.typed # None /\ DOMAIN srv = ServerFields /\ srv.ver \in Nat
  BY DEF TypedInv, StatusInv, Shape, Versions
<1> HIDE DEF b
<1>2. /\ saved.enabled = b.enabled /\ saved.interval = b.interval
      /\ saved.settings = ServerNormalized(b.settings)
  BY <1>1, UpdatedIs
<1> HIDE DEF saved
<1>. QED  BY <1>1, <1>2 DEF BodyOK, saved, b

(***************************************************************************)
(* What the server stores for a save is what the user had before his eyes  *)
(* in the dialog, field by field, whatever the two normalisations do to    *)
(* other settings; a threshold of 1 is taken for the whole.                *)
(***************************************************************************)
THEOREM TypedIsSaved == PageSpec => []SavedAsTyped
<1>1. PageInit => StatusInv /\ TypedInv
  BY InitIsInOrder, InitIsSettled
<1>2. StatusInv /\ TypedInv /\ [PageNext]_pageVars => StatusInv' /\ TypedInv'
  BY StepGoes, GoesKeeps, StepSettled, SettledKeeps
<1>3. StatusInv /\ TypedInv => SavedAsTyped
  BY SavesAreTyped
<1>. QED  BY <1>1, <1>2, <1>3, PTL DEF PageSpec

-----------------------------------------------------------------------------
(* What a save of an untouched dialog would change *)

(***************************************************************************)
(* The settings of the server and its plan of the timer are those of some  *)
(* version on; so is the time of the next run, which a save or the end of  *)
(* a run of the timer sets. A save is answered with what it did. The       *)
(* message of a run that ends is made before the time is set anew, so the  *)
(* page hears of that with the table it then asks for, or when the next    *)
(* run has listed its accounts.                                            *)
(***************************************************************************)
InLimits(s) ==
  /\ s = [f \in SettingsFields |-> s[f]]
  /\ \A f \in NumberFields : Limits[f].min <= s[f] /\ s[f] <= Limits[f].max

SetupOf(m) == [enabled |-> m.enabled, interval |-> m.interval, settings |-> m.settings]
PlanOf(m) == [enabled |-> m.enabled, interval |-> m.interval]

\* A save the server has handled and not yet answered, or answered since, tells of t.
SavesSince(rs, t) ==
  \E r \in rs : /\ r.kind = "save" /\ r.own >= t /\ r.pc \in {"handled", "answered"}
                /\ r.pc = "answered" => r.answer[1].ver >= t

Reaches(t) ==
  \/ stream.open = "no" \/ known.lost >= t \/ known.seen >= t
  \/ \E m \in Messages(stream) : m.ver >= t
  \/ SavesSince(reqs, t)

\* What is stored passes both normalisations, and so does what is to be stored.
BodyStays(r) ==
  /\ r.body[1].next \in Nat
  /\ InLimits(r.body[1].settings) /\ r.body[1].settings.usedPercentThreshold # 1
  /\ r.pc \in {"handled", "answered"} => srv.settings = r.body[1].settings

StoredInv ==
  /\ InLimits(srv.settings)
  /\ srv.next \in Nat /\ srv.arm \in Nat
  /\ srv.enabled => srv.next > 0
  /\ ~srv.enabled => srv.next = 0
  /\ \A m \in Telling : m.next \in Nat
  /\ page.next # None => page.next[1] \in Nat
  /\ \A r \in reqs : r.kind = "save" => BodyStays(r)
  /\ \A r, q \in reqs : r.kind = "save" /\ q.kind = "save" => q = r

PlanInv(t) ==
  /\ \A m \in Telling : m.ver >= t => SetupOf(m) = SetupOf(srv)
  /\ Reaches(t)
  /\ known.shown >= t /\ ~known.local /\ ~known.edited /\ ~Under("save") =>
       /\ page.plan = PlanOf(srv)
       /\ page.settings = NormalizeConfigurableSettings(srv.settings)

\* The page knows of no run that the server has not begun, and of the run that
\* is on it knows at most that it is on; it fetches the table of ended runs only.
RunsOK ==
  /\ srv.run \in Nat /\ (srv.state \in Active => srv.run > 0)
  /\ \A m \in Telling :
       /\ m.run \in Nat /\ m.run <= srv.run
       /\ srv.state \in Active /\ m.run = srv.run => m.state \in Active

PageRunsOK ==
  /\ page.started \in Nat /\ page.started <= srv.run
  /\ srv.state \in Active /\ page.started = srv.run => page.status \in {"running", "paused"}
  /\ page.loaded # << >> => /\ page.loaded[1] \in Nat /\ page.loaded[1] <= srv.run
                            /\ srv.state \in Active => page.loaded[1] # srv.run
  /\ page.due \/ page.live # 0 => ~Held(page)
  /\ known.seq \in Nat /\ \A r \in reqs : r.seq \in 1..known.seq

EndedPage(p, n) == p.started = n /\ p.listed /\ p.status \notin {"running", "paused"}

\* The page that shows run n as ended has seen t, or is about to ask, or has
\* asked for the table since, unless that failed.
FetchesSince(t, n) ==
  /\ EndedPage(page, n) =>
       \/ known.seen >= t \/ page.due \/ known.missed
       \/ page.live # 0 /\ \E r \in reqs : r.kind = "details" /\ r.seq = page.live
  /\ EndedPage(page, n) /\ page.live # 0 =>
       \A r \in reqs : r.seq = page.live /\ r.pc = "answered" => r.answer[1].ver >= t
  /\ page.loaded # << >> /\ page.loaded[1] = n => known.seen >= t

EndTold(t, n) ==
  /\ Reaches(t - 1)
  /\ \A m \in Telling : m.ver = t - 1 => m.run = n /\ m.listed /\ m.state \notin Active
  /\ known.shown = t - 1 => EndedPage(page, n) \/ Under("run") \/ known.emptied

\* The time of the next run is that of version t, which a save has set, or the
\* initial state (n = 0), or the end of run n.
NextInv(t, n) ==
  /\ \A m \in Telling : m.ver >= t => m.next = srv.next
  /\ known.shown >= t => page.next = None \/ page.next = Set(srv.next)
  /\ n = 0 \/ (srv.run > n /\ srv.listed) => Reaches(t)
  /\ n > 0 /\ srv.run = n =>
       /\ srv.state \notin Active
       /\ srv.listed => EndTold(t, n) /\ FetchesSince(t, n)

SaveInv ==
  /\ StoredInv /\ RunsOK /\ PageRunsOK
  /\ \E t \in 1..srv.ver : PlanInv(t)
  /\ \E t \in 1..srv.ver, n \in 0..srv.run : NextInv(t, n)

\* A number within its limits passes the page.
LEMMA LimitsPass ==
  ASSUME NEW s, SettingsOK(s), InLimits(s), NEW f \in NumberFields
  PROVE  /\ s[f] \in Int /\ InRange(s[f], Limits[f])
         /\ \A fallback \in Int, below \in BOOLEAN : ClampInteger(s[f], fallback, Limits[f], below) = s[f]
<1>1. s[f] \in Int /\ Limits[f].min <= s[f] /\ s[f] <= Limits[f].max
  BY FieldsAre DEF InLimits
<1>2. Limits[f].min \in Int /\ Limits[f].max \in Int /\ Limits[f].min >= 0
  BY DEF NumberFields, Limits, NoMax
<1>3. InRange(s[f], Limits[f])
  BY <1>1, <1>2 DEF InRange, Unset
<1>. QED  BY <1>1, <1>2, <1>3, ClampIs

(***************************************************************************)
(* Settings within the limits pass the page's normalisation as they are,   *)
(* by themselves and over others, but for a threshold of 1.                *)
(***************************************************************************)
LEMMA PagePasses ==
  ASSUME NEW s, SettingsOK(s), InLimits(s), s.usedPercentThreshold # 1,
         NEW input, \A f \in SettingsFields : f \in DOMAIN input /\ input[f] = s[f]
  PROVE  NormalizeConfigurableSettings(input) = s
<1> DEFINE merged == Over(input, Defaults)
           n == NormalizeConfigurableSettings(input)
           threshold == NormalizeThreshold(merged.usedPercentThreshold)
<1>1. \A f \in SettingsFields : merged[f] = s[f]
  BY DEF Over
<1>2. /\ merged.workers = s.workers /\ merged.deleteWorkers = s.deleteWorkers
      /\ merged.timeout = s.timeout /\ merged.retries = s.retries
      /\ merged.usedPercentThreshold = s.usedPercentThreshold /\ merged.sampleSize = s.sampleSize
      /\ merged.confirmations = s.confirmations
      /\ merged.targetType = s.targetType /\ merged.accountInvalid = s.accountInvalid
      /\ merged.requestError = s.requestError /\ merged.policies = s.policies
  BY <1>1 DEF SettingsFields, NumberFields
<1> HIDE DEF merged
<1>3. \A f \in NumberFields : Defaults[f] \in Int
  BY DefaultsAre, FieldsAre
<1> DEFINE Clamps(f) == \A fallback \in Int, below \in BOOLEAN :
                           ClampInteger(s[f], fallback, Limits[f], below) = s[f]
<1>4. \A f \in NumberFields : s[f] \in Int /\ Clamps(f)
  BY LimitsPass
<1>5. /\ Clamps("workers") /\ Clamps("deleteWorkers") /\ Clamps("timeout") /\ Clamps("retries")
      /\ Clamps("sampleSize") /\ Clamps("confirmations") /\ s["workers"] \in Int
      /\ s["usedPercentThreshold"] \in Int
      /\ Defaults["workers"] \in Int /\ Defaults["timeout"] \in Int /\ Defaults["retries"] \in Int
      /\ Defaults["sampleSize"] \in Int /\ Defaults["confirmations"] \in Int
  BY <1>3, <1>4 DEF NumberFields
<1> HIDE DEF Clamps
<1>6. (IF threshold = Unset THEN Defaults.usedPercentThreshold ELSE Bounded(threshold, 0, 100))
        = s.usedPercentThreshold
  <2> DEFINE v == s["usedPercentThreshold"]
  <2>1. v \in Int /\ 0 <= v /\ v <= 100 /\ v # 1
    BY <1>5 DEF InLimits, NumberFields, Limits
  <2>2. threshold = NormalizeThreshold(v)
    BY <1>2
  <2> HIDE DEF v, threshold
  <2>3. threshold = v /\ v # Unset
    BY <2>1, <2>2 DEF NormalizeThreshold, Unset
  <2>. QED  BY <2>1, <2>3 DEF Bounded, v
<1>7. /\ n = [f \in SettingsFields |-> n[f]]
      /\ n.workers = ClampInteger(s.workers, Defaults.workers, Limits.workers, FALSE)
      /\ n.deleteWorkers = ClampInteger(s.deleteWorkers, n.workers, Limits.deleteWorkers, FALSE)
      /\ n.timeout = ClampInteger(s.timeout, Defaults.timeout, Limits.timeout, TRUE)
      /\ n.retries = ClampInteger(s.retries, Defaults.retries, Limits.retries, FALSE)
      /\ n.sampleSize = ClampInteger(s.sampleSize, Defaults.sampleSize, Limits.sampleSize, FALSE)
      /\ n.confirmations = ClampInteger(s.confirmations, Defaults.confirmations, Limits.confirmations, TRUE)
      /\ n.usedPercentThreshold = s.usedPercentThreshold
      /\ n.targetType = TargetType(s.targetType) /\ n.policies = s.policies
      /\ n.accountInvalid = AutoErrorAction(s.accountInvalid)
      /\ n.requestError = AutoErrorAction(s.requestError)
  <2>1. n = [targetType |-> TargetType(merged.targetType),
             workers |-> ClampInteger(merged.workers, Defaults.workers, Limits.workers, FALSE),
             deleteWorkers |-> ClampInteger(merged.deleteWorkers,
                                 ClampInteger(merged.workers, Defaults.workers, Limits.workers, FALSE),
                                 Limits.deleteWorkers, FALSE),
             timeout |-> ClampInteger(merged.timeout, Defaults.timeout, Limits.timeout, TRUE),
             retries |-> ClampInteger(merged.retries, Defaults.retries, Limits.retries, FALSE),
             usedPercentThreshold |-> IF threshold = Unset THEN Defaults.usedPercentThreshold
                                      ELSE Bounded(threshold, 0, 100),
             sampleSize |-> ClampInteger(merged.sampleSize, Defaults.sampleSize, Limits.sampleSize, FALSE),
             confirmations |-> ClampInteger(merged.confirmations, Defaults.confirmations,
                                            Limits.confirmations, TRUE),
             accountInvalid |-> AutoErrorAction(merged.accountInvalid),
             requestError |-> AutoErrorAction(merged.requestError),
             policies |-> merged.policies]
    BY DEF NormalizeConfigurableSettings, merged
  <2> HIDE DEF n, threshold
  <2>2. n = [f \in SettingsFields |-> n[f]]
    BY <2>1 DEF SettingsFields, NumberFields
  <2>. QED  BY <1>2, <1>6, <2>1, <2>2
<1> HIDE DEF n
<1>8. n.workers = s.workers
  BY <1>5, <1>7 DEF Clamps
<1>9. n.deleteWorkers = s.deleteWorkers
  BY <1>5, <1>7, <1>8 DEF Clamps
<1>10. /\ n.timeout = s.timeout /\ n.retries = s.retries
  BY <1>5, <1>7 DEF Clamps
<1>11. n.sampleSize = s.sampleSize /\ n.confirmations = s.confirmations
  BY <1>5, <1>7 DEF Clamps
<1>12. /\ n.targetType = s.targetType /\ n.accountInvalid = s.accountInvalid
       /\ n.requestError = s.requestError
  BY <1>7, FieldsAre DEF TargetType, AutoErrorAction
<1>13. \A f \in SettingsFields : n[f] = s[f]
  BY <1>7, <1>8, <1>9, <1>10, <1>11, <1>12 DEF SettingsFields, NumberFields
<1>14. s = [f \in SettingsFields |-> s[f]]
  BY DEF InLimits
<1>15. n = s
  BY <1>7, <1>13, <1>14
<1>. QED  BY <1>15 DEF n

\* The page's own normalisation, and that of the copy in the browser
LEMMA StoredPasses ==
  ASSUME NEW s, SettingsOK(s), InLimits(s), s.usedPercentThreshold # 1
  PROVE  NormalizeConfigurableSettings(s) = s /\ LoadConfigurableSettings(Clean, s) = s
<1>1. \A f \in SettingsFields : f \in DOMAIN s
  BY DEF SettingsOK
<1>2. \A f \in SettingsFields : f \in DOMAIN Over(s, Clean) /\ Over(s, Clean)[f] = s[f]
  BY <1>1 DEF Over
<1>. QED  BY <1>1, <1>2, PagePasses DEF LoadConfigurableSettings

\* What the server stores is within the limits, and what is it stores as it is.
LEMMA ServerPasses ==
  ASSUME NEW s, SettingsOK(s)
  PROVE  InLimits(ServerNormalized(s)) /\ (InLimits(s) => ServerNormalized(s) = s)
<1> DEFINE n == ServerNormalized(s)
           OrDefault(f) == IF s[f] <= 0 THEN Defaults[f] ELSE s[f]
           Low(f) == Limits[f].min
           High(f) == Limits[f].max
<1>1. \A f \in NumberFields : s[f] \in Int /\ Defaults[f] \in Int
  BY DefaultsAre, FieldsAre
<1>2. \A f \in NumberFields : Low(f) \in Int /\ High(f) \in Int /\ Low(f) <= High(f)
  BY DEF NumberFields, Limits, NoMax
<1>3. \A v \in Int, low \in Int, high \in Int : low <= high =>
        /\ low <= Bounded(v, low, high) /\ Bounded(v, low, high) <= high
        /\ (low <= v /\ v <= high => Bounded(v, low, high) = v)
  BY DEF Bounded
<1>4. /\ n = [f \in SettingsFields |-> n[f]]
      /\ n.workers = Bounded(OrDefault("workers"), 1, 8)
      /\ n.deleteWorkers = Bounded(IF s.deleteWorkers <= 0 THEN n.workers ELSE s.deleteWorkers, 1, 4)
      /\ n.timeout = Bounded(OrDefault("timeout"), 3000, 30000)
      /\ n.retries = Bounded(s.retries, 0, 1)
      /\ n.usedPercentThreshold = Bounded(s.usedPercentThreshold, 0, 100)
      /\ n.sampleSize = Bounded(s.sampleSize, 0, NoMax)
      /\ n.confirmations = Bounded(OrDefault("confirmations"), 1, 5)
      /\ n.targetType = TargetType(s.targetType) /\ n.policies = s.policies
      /\ n.accountInvalid = AutoErrorAction(s.accountInvalid)
      /\ n.requestError = AutoErrorAction(s.requestError)
  <2>1. n = [targetType |-> TargetType(s.targetType),
             workers |-> Bounded(OrDefault("workers"), 1, 8),
             deleteWorkers |-> Bounded(IF s.deleteWorkers <= 0 THEN Bounded(OrDefault("workers"), 1, 8)
                                       ELSE s.deleteWorkers, 1, 4),
             timeout |-> Bounded(OrDefault("timeout"), 3000, 30000),
             retries |-> Bounded(s.retries, 0, 1),
             usedPercentThreshold |-> Bounded(s.usedPercentThreshold, 0, 100),
             sampleSize |-> Bounded(s.sampleSize, 0, NoMax),
             confirmations |-> Bounded(OrDefault("confirmations"), 1, 5),
             accountInvalid |-> AutoErrorAction(s.accountInvalid),
             requestError |-> AutoErrorAction(s.requestError),
             policies |-> s.policies]
    BY DEF ServerNormalized
  <2> HIDE DEF n, OrDefault
  <2>2. n = [f \in SettingsFields |-> n[f]]
    BY <2>1 DEF SettingsFields, NumberFields
  <2>. QED  BY <2>1, <2>2
<1> HIDE DEF n
<1>5. ASSUME NEW f \in NumberFields, NEW w \in Int,
             \/ n[f] = Bounded(s[f], Low(f), High(f))
             \/ Low(f) > 0 /\ n[f] = Bounded(IF s[f] <= 0 THEN w ELSE s[f], Low(f), High(f))
      PROVE  /\ n[f] \in Int /\ Low(f) <= n[f] /\ n[f] <= High(f)
             /\ Low(f) <= s[f] /\ s[f] <= High(f) => n[f] = s[f]
  <2> DEFINE v == s[f]
             low == Low(f)
             high == High(f)
  <2>1. v \in Int /\ low \in Int /\ high \in Int /\ low <= high
    BY <1>1, <1>2
  <2>2. \/ n[f] = Bounded(v, low, high)
        \/ low > 0 /\ n[f] = Bounded(IF v <= 0 THEN w ELSE v, low, high)
    BY <1>5
  <2> HIDE DEF v, low, high
  <2>3. /\ n[f] \in Int /\ low <= n[f] /\ n[f] <= high
        /\ low <= v /\ v <= high => n[f] = v
    BY <1>5, <2>1, <2>2 DEF Bounded
  <2>. QED  BY <2>3 DEF v, low, high
<1> DEFINE Ranged(f) == /\ n[f] \in Int /\ Low(f) <= n[f] /\ n[f] <= High(f)
                        /\ Low(f) <= s[f] /\ s[f] <= High(f) => n[f] = s[f]
<1>6. /\ Low("workers") = 1 /\ High("workers") = 8 /\ Low("deleteWorkers") = 1 /\ High("deleteWorkers") = 4
      /\ Low("timeout") = 3000 /\ High("timeout") = 30000 /\ Low("retries") = 0 /\ High("retries") = 1
      /\ Low("usedPercentThreshold") = 0 /\ High("usedPercentThreshold") = 100
      /\ Low("sampleSize") = 0 /\ High("sampleSize") = NoMax
      /\ Low("confirmations") = 1 /\ High("confirmations") = 5
      /\ Defaults["workers"] \in Int /\ Defaults["timeout"] \in Int /\ Defaults["confirmations"] \in Int
  BY <1>1 DEF Limits, NumberFields
<1> HIDE DEF Low, High
<1>7. Ranged("workers")
  BY <1>4, <1>5, <1>6 DEF NumberFields
<1>8. Ranged("deleteWorkers")
  BY <1>4, <1>5, <1>6, <1>7 DEF NumberFields
<1>9. Ranged("timeout")
  BY <1>4, <1>5, <1>6 DEF NumberFields
<1>10. Ranged("confirmations")
  BY <1>4, <1>5, <1>6 DEF NumberFields
<1>11. Ranged("retries") /\ Ranged("sampleSize") /\ Ranged("usedPercentThreshold")
  <2>1. Ranged("retries")
    BY <1>4, <1>5, <1>6 DEF NumberFields
  <2>2. Ranged("sampleSize")
    BY <1>4, <1>5, <1>6 DEF NumberFields
  <2>3. Ranged("usedPercentThreshold")
    BY <1>4, <1>5, <1>6 DEF NumberFields
  <2>. QED  BY <2>1, <2>2, <2>3
<1> HIDE DEF Ranged
<1>12. \A f \in NumberFields : Ranged(f)
  BY <1>7, <1>8, <1>9, <1>10, <1>11 DEF NumberFields
<1>13. \A f \in NumberFields :
         /\ Limits[f].min <= n[f] /\ n[f] <= Limits[f].max
         /\ Limits[f].min <= s[f] /\ s[f] <= Limits[f].max => n[f] = s[f]
  BY <1>12 DEF Ranged, Low, High
<1>14. InLimits(n)
  BY <1>4, <1>13 DEF InLimits
<1>15. ASSUME InLimits(s) PROVE n = s
  <2>1. \A f \in NumberFields : n[f] = s[f]
    BY <1>13, <1>15 DEF InLimits
  <2>2. n.targetType = s.targetType /\ n.accountInvalid = s.accountInvalid
        /\ n.requestError = s.requestError /\ n.policies = s.policies
    BY <1>4, FieldsAre DEF TargetType, AutoErrorAction
  <2>3. \A f \in SettingsFields : n[f] = s[f]
    BY <2>1, <2>2 DEF SettingsFields
  <2>. QED  BY <1>4, <1>15, <2>3 DEF InLimits
<1>. QED  BY <1>14, <1>15 DEF n

\* What is stored for a draft that the dialog accepts is within the limits.
LEMMA DraftInLimits ==
  ASSUME NEW d, DraftOK(d), DraftValid(d), NEW c \in Int
  PROVE  LET taken == NormalizeConfigurableSettings(Over(d, [confirmations |-> c]))
         IN  InLimits(taken) /\ taken.usedPercentThreshold # 1
<1> DEFINE merged == Over(Over(d, [confirmations |-> c]), Defaults)
           s == NormalizeConfigurableSettings(Over(d, [confirmations |-> c]))
           threshold == NormalizeThreshold(merged.usedPercentThreshold)
<1>1. /\ \A f \in DraftFields : merged[f] = d[f]
      /\ merged["confirmations"] = c
  BY DEF Over, DraftOK, DraftFields
<1> HIDE DEF merged
<1>2. \A f \in NumberFields \ {"confirmations"} : d[f] \in Int /\ InRange(d[f], Limits[f])
  BY FieldsAre DEF DraftValid, NumberFields
<1>3. \A f \in NumberFields : merged[f] \in Int /\ Defaults[f] \in Int
  BY <1>1, <1>2, DefaultsAre, FieldsAre DEF DraftFields, SettingsFields
<1>4. \A f \in NumberFields : Limits[f].min \in Int /\ Limits[f].max \in Int /\ Limits[f].min <= Limits[f].max
  BY DEF NumberFields, Limits, NoMax
<1> DEFINE Within(f, v) == v \in Int /\ Limits[f].min <= v /\ v <= Limits[f].max
<1>5. \A f \in NumberFields \ {"confirmations"}, fallback \in Int, below \in BOOLEAN :
        Within(f, ClampInteger(merged[f], fallback, Limits[f], below))
  <2>1. ASSUME NEW f \in NumberFields \ {"confirmations"}, NEW fallback \in Int, NEW below \in BOOLEAN
        PROVE  Within(f, ClampInteger(merged[f], fallback, Limits[f], below))
    <3>1. f \in DraftFields /\ f \in NumberFields
      BY <2>1 DEF DraftFields, SettingsFields
    <3>2. merged[f] \in Int /\ InRange(merged[f], Limits[f])
      BY <1>1, <1>2, <3>1
    <3>3. ClampInteger(merged[f], fallback, Limits[f], below) = merged[f]
      BY <1>4, <3>1, <3>2, ClampIs
    <3>. QED  BY <3>2, <3>3 DEF InRange
  <2>. QED  BY <2>1
<1>6. Within("confirmations", ClampInteger(merged.confirmations, Defaults.confirmations,
                                           Limits.confirmations, TRUE))
  <2> DEFINE v == merged["confirmations"]
             k == ClampInteger(v, 1, [min |-> 1, max |-> 5], TRUE)
  <2>1. v \in Int /\ Limits.confirmations = [min |-> 1, max |-> 5] /\ Defaults.confirmations = 1
    BY <1>1 DEF Limits, Defaults
  <2> HIDE DEF v
  <2>2. k \in Int /\ 1 <= k /\ k <= 5
    BY <2>1 DEF ClampInteger, Bounded
  <2>3. k = ClampInteger(merged.confirmations, Defaults.confirmations, Limits.confirmations, TRUE)
    BY <2>1 DEF v
  <2> HIDE DEF k
  <2>4. Within("confirmations", k)
    BY <2>1, <2>2
  <2>. QED  BY <2>3, <2>4
<1>7. LET k == IF threshold = Unset THEN Defaults.usedPercentThreshold ELSE Bounded(threshold, 0, 100)
      IN  Within("usedPercentThreshold", k) /\ k # 1
  <2> DEFINE v == merged["usedPercentThreshold"]
             k == IF threshold = Unset THEN 100 ELSE Bounded(threshold, 0, 100)
  <2>1. v \in Int /\ Limits.usedPercentThreshold = [min |-> 0, max |-> 100] /\ Defaults.usedPercentThreshold = 100
    BY <1>3 DEF Limits, Defaults, NumberFields
  <2>2. threshold = NormalizeThreshold(v)
    OBVIOUS
  <2> HIDE DEF v, threshold
  <2>3. k \in Int /\ 0 <= k /\ k <= 100 /\ k # 1
    BY <2>1, <2>2 DEF NormalizeThreshold, Bounded, Unset
  <2> HIDE DEF k
  <2>4. Within("usedPercentThreshold", k) /\ k # 1
    BY <2>1, <2>3
  <2>. QED  BY <2>1, <2>4 DEF k
<1>8. /\ s = [f \in SettingsFields |-> s[f]]
      /\ s.workers = ClampInteger(merged.workers, Defaults.workers, Limits.workers, FALSE)
      /\ s.deleteWorkers = ClampInteger(merged.deleteWorkers, s.workers, Limits.deleteWorkers, FALSE)
      /\ s.timeout = ClampInteger(merged.timeout, Defaults.timeout, Limits.timeout, TRUE)
      /\ s.retries = ClampInteger(merged.retries, Defaults.retries, Limits.retries, FALSE)
      /\ s.sampleSize = ClampInteger(merged.sampleSize, Defaults.sampleSize, Limits.sampleSize, FALSE)
      /\ s.confirmations = ClampInteger(merged.confirmations, Defaults.confirmations,
                                        Limits.confirmations, TRUE)
      /\ s.usedPercentThreshold = IF threshold = Unset THEN Defaults.usedPercentThreshold
                                  ELSE Bounded(threshold, 0, 100)
  <2>1. s = [targetType |-> TargetType(merged.targetType),
             workers |-> ClampInteger(merged.workers, Defaults.workers, Limits.workers, FALSE),
             deleteWorkers |-> ClampInteger(merged.deleteWorkers,
                                 ClampInteger(merged.workers, Defaults.workers, Limits.workers, FALSE),
                                 Limits.deleteWorkers, FALSE),
             timeout |-> ClampInteger(merged.timeout, Defaults.timeout, Limits.timeout, TRUE),
             retries |-> ClampInteger(merged.retries, Defaults.retries, Limits.retries, FALSE),
             usedPercentThreshold |-> IF threshold = Unset THEN Defaults.usedPercentThreshold
                                      ELSE Bounded(threshold, 0, 100),
             sampleSize |-> ClampInteger(merged.sampleSize, Defaults.sampleSize, Limits.sampleSize, FALSE),
             confirmations |-> ClampInteger(merged.confirmations, Defaults.confirmations,
                                            Limits.confirmations, TRUE),
             accountInvalid |-> AutoErrorAction(merged.accountInvalid),
             requestError |-> AutoErrorAction(merged.requestError),
             policies |-> merged.policies]
    BY DEF NormalizeConfigurableSettings, merged
  <2> HIDE DEF s, threshold
  <2>2. s = [f \in SettingsFields |-> s[f]]
    BY <2>1 DEF SettingsFields, NumberFields
  <2>. QED  BY <2>1, <2>2
<1> HIDE DEF s, threshold, Within
<1>9. /\ Defaults["workers"] \in Int /\ Defaults["timeout"] \in Int /\ Defaults["retries"] \in Int
      /\ Defaults["sampleSize"] \in Int
  BY <1>3 DEF NumberFields
<1>10. Within("workers", s["workers"]) /\ s["workers"] \in Int
  <2>1. Within("workers", s["workers"])
    BY <1>5, <1>8, <1>9 DEF NumberFields
  <2>. QED  BY <2>1 DEF Within
<1>11. Within("deleteWorkers", s["deleteWorkers"]) /\ Within("timeout", s["timeout"])
  BY <1>5, <1>8, <1>9, <1>10 DEF NumberFields
<1>12. Within("retries", s["retries"]) /\ Within("sampleSize", s["sampleSize"])
  BY <1>5, <1>8, <1>9 DEF NumberFields
<1>13. Within("usedPercentThreshold", s["usedPercentThreshold"]) /\ s.usedPercentThreshold # 1
       /\ Within("confirmations", s["confirmations"])
  BY <1>6, <1>7, <1>8
<1>14. \A f \in NumberFields : Within(f, s[f])
  BY <1>10, <1>11, <1>12, <1>13 DEF NumberFields
<1>15. InLimits(s) /\ s.usedPercentThreshold # 1
  BY <1>8, <1>13, <1>14 DEF InLimits, Within
<1>. QED  BY <1>15 DEF s

(***************************************************************************)
(* The kinds of steps: the inspection goes on, a run begins, a save is     *)
(* stored, a run ends and sets the timer; the page takes in what it is     *)
(* told, or the user and the effects of the page act.                      *)
(***************************************************************************)
TellsAs(m, s) == SetupOf(m) = SetupOf(s) /\ m.run = s.run /\ m.state = s.state /\ m.listed = s.listed

ReachStays == \A t \in 0..srv.ver : Reaches(t) => Reaches(t)'

\* A request that is refused, handled or answered; a save is handled elsewhere.
Becomes(r, q) ==
  /\ q.seq = r.seq /\ q.kind = r.kind /\ q.body = r.body
  /\ \/ r.pc = "asked" /\ q.pc \in {"handled", "refused"} /\ r.kind # "save"
     \/ r.pc = "handled" /\ q.pc = "answered" /\ q.own = r.own /\ q.answer[1].ver = srv'.ver

Away ==
  /\ page' = page /\ srv'.ver >= srv.ver
  /\ known'.shown = known.shown /\ known'.seen = known.seen /\ known'.seq = known.seq
  /\ known'.local = known.local /\ known'.edited = known.edited
  /\ known'.missed = known.missed /\ known'.emptied = known.emptied

Moves == reqs' = reqs \/ \E r \in reqs : \E q : reqs' = Replace(r, q) /\ Becomes(r, q)

GoesOn ==
  /\ Away /\ Moves /\ ReachStays
  /\ srv'.run = srv.run /\ SetupOf(srv') = SetupOf(srv)
  /\ srv'.next = srv.next /\ srv'.arm = srv.arm
  /\ srv'.state \in Active => srv.state \in Active
  /\ srv'.listed => srv.listed \/ (srv.state \in Active /\ \A t \in 0..srv.ver : Reaches(t)')
  /\ \A m \in Telling' :
       m \in Telling \/ (m.ver \in srv.ver..srv'.ver /\ TellsAs(m, srv') /\ m.next = srv'.next)

Begins ==
  /\ Away /\ Moves /\ ReachStays
  /\ srv'.run = srv.run + 1 /\ ~srv'.listed /\ SetupOf(srv') = SetupOf(srv)
  /\ srv'.next = srv.next /\ srv'.arm = srv.arm
  /\ Telling' \subseteq Telling

Rearms ==
  /\ Away /\ reqs' = reqs /\ \A t \in 0..srv.ver + 1 : Reaches(t)'
  /\ srv'.run = srv.run /\ SetupOf(srv') = SetupOf(srv) /\ srv'.listed = srv.listed
  /\ srv.enabled /\ srv'.next = srv.arm + 1 /\ srv'.arm = srv.arm + 1
  /\ srv.state \in Active /\ srv'.state \notin Active /\ srv'.ver = srv.ver + 2
  /\ \A m \in Telling' :
       m \in Telling \/ (m.ver = srv.ver + 1 /\ TellsAs(m, srv') /\ m.next = srv.next)

Stores(r) ==
  /\ Away /\ r.kind = "save" /\ r.pc = "asked"
  /\ srv'.run = srv.run /\ srv'.state = srv.state /\ srv'.listed = srv.listed
  /\ srv'.ver = srv.ver + 1 /\ Telling' \subseteq Telling
  /\ srv'.settings = ServerNormalized(r.body[1].settings)
  /\ srv.next \in Nat /\ srv.arm \in Nat /\ r.body[1].next \in Nat =>
       /\ srv'.next \in Nat /\ srv'.arm \in Nat
       /\ srv'.enabled => srv'.next > 0
       /\ ~srv'.enabled => srv'.next = 0
  /\ \E q : /\ reqs' = Replace(r, q) /\ q.seq = r.seq /\ q.kind = r.kind /\ q.body = r.body
            /\ q.pc = "handled" /\ q.own = srv'.ver

\* The effects fetch anew, or leave the fetch as it is.
Refetches(leaves) ==
  \/ page'.live = 0 /\ page'.due = (~Held(page') /\ Key(page') # page'.loaded)
  \/ Fetching(page') = Fetching(page) /\ page'.due = page.due /\ (page'.live = page.live \/ leaves)

Noted(m) ==
  /\ page.live # 0 /\ \E r \in reqs : r.pc = "answered" /\ r.seq = page.live /\ r.answer[1] = m

Sees(m) ==
  /\ srv' = srv /\ m \in Telling /\ Telling' \subseteq Telling /\ ReachStays
  /\ known'.shown = m.ver /\ known'.seen \in Nat /\ known'.seen >= m.ver /\ known'.seen >= known.seen
  /\ known'.seq = known.seq /\ known'.missed = known.missed
  /\ page'.started = m.run /\ page'.listed = m.listed /\ page'.status = ProgressStatus(m)
  /\ page'.next = Set(m.next) /\ page'.plan = PlanOf(m)
  /\ \/ known'.local
     \/ page'.settings = NormalizeConfigurableSettings(m.settings)
     \/ page'.settings = NormalizeConfigurableSettings(srv.settings)
  /\ page'.loaded = page.loaded \/ (page'.loaded = Key(page) /\ Noted(m))
  /\ Refetches(page'.live = 0 /\ Noted(m))
  /\ reqs' \subseteq reqs
  /\ \A r \in reqs : r \notin reqs' /\ r.kind = "details" /\ r.seq = page.live => page.live # 0 /\ Noted(m)

Fetches ==
  /\ page.due /\ Fetching(page') = Fetching(page) /\ ~page'.due
  /\ page'.live = known'.seq /\ known'.seq = known.seq + 1
  /\ \E q : /\ reqs' = reqs \cup {q} /\ q.kind = "details" /\ q.pc = "handled" /\ q.seq = known'.seq

Does ==
  /\ srv' = srv /\ Telling' \subseteq Telling /\ ReachStays
  /\ known'.shown = known.shown /\ known'.seen = known.seen
  /\ page'.started = page.started /\ page'.loaded = page.loaded
  /\ page'.next \in {page.next, None}
  /\ \/ page'.status = page.status /\ page'.listed = page.listed
     \/ page'.status = "running" /\ Under("run")'
  /\ Under("run") => Under("run")' \/ known'.emptied
  /\ known.emptied => known'.emptied
  /\ ~known'.local /\ ~known'.edited /\ ~Under("save")' =>
       /\ ~known.local /\ ~known.edited /\ ~Under("save")
       /\ page'.plan = page.plan /\ page'.settings = page.settings
  /\ \/ Fetches
     \/ Refetches(page'.live = 0 /\ known'.missed) /\ (known.missed => known'.missed)
  /\ \/ reqs' \subseteq reqs /\ known'.seq = known.seq
     \/ \E q : /\ reqs' = reqs \cup {q} /\ q.pc \in {"asked", "handled"}
               /\ q.seq = known'.seq /\ known'.seq = known.seq + 1
               /\ q.kind = "save" => ~Under("save") /\ q.pc = "asked" /\ BodyStays(q)
  /\ \A r \in reqs : r \in reqs' \/ (r.kind = "details" /\ r.seq = page.live => known'.missed)

StepKinds == GoesOn \/ Begins \/ Rearms \/ (\E r \in reqs : Stores(r)) \/ (\E m \in Telling : Sees(m)) \/ Does

-----------------------------------------------------------------------------
LEMMA TellingIs ==
  ASSUME StatusInv
  PROVE  /\ \A m \in Telling : m.ver \in Nat /\ m.ver <= srv.ver
         /\ srv.ver \in Nat \ {0} /\ known.shown \in Nat /\ known.shown <= srv.ver
         /\ known.seen \in Nat /\ known.lost \in Nat
         /\ \A r \in reqs : /\ r.own \in Nat
                            /\ r.pc = "answered" => r.answer[1] \in Telling
BY DEF StatusInv, Versions, Shape, ToldInv, TellsOK, Telling, ShownInv, Answering

LEMMA AwayStored ==
  ASSUME StoredInv, Moves, srv'.settings = srv.settings,
         page' = page, \A m \in Telling' : m.next \in Nat,
         srv'.next \in Nat, srv'.arm \in Nat, srv'.enabled => srv'.next > 0,
         ~srv'.enabled => srv'.next = 0
  PROVE  StoredInv'
<1>1. /\ \A r \in reqs' : r.kind = "save" => BodyStays(r)'
      /\ \A r, q \in reqs' : r.kind = "save" /\ q.kind = "save" => q = r
  <2>1. CASE reqs' = reqs
    BY <2>1 DEF StoredInv, BodyStays
  <2>2. ASSUME NEW r \in reqs, NEW q, reqs' = Replace(r, q), Becomes(r, q)
        PROVE  <1>1!1 /\ <1>1!2
    <3>1. r.kind = "save" => BodyStays(r)
      BY DEF StoredInv
    <3>2. q.kind = "save" => BodyStays(q)'
      BY <2>2, <3>1 DEF BodyStays, Becomes
    <3>3. \A x \in reqs : x.kind = "save" => BodyStays(x)'
      BY DEF StoredInv, BodyStays
    <3>. QED  BY <2>2, <3>2, <3>3 DEF StoredInv, Replace, Becomes
  <2>. QED  BY <2>1, <2>2 DEF Moves
<1>. QED  BY <1>1 DEF StoredInv

-----------------------------------------------------------------------------
(* The settings and the plan of the timer *)

\* What is stored passes both normalisations after each kind of step.
LEMMA StoredKeeps ==
  ASSUME StatusInv, TypedInv, StoredInv, StepKinds
  PROVE  StoredInv'
<1>1. CASE GoesOn \/ Begins
  <2>1. /\ Moves /\ page' = page /\ SetupOf(srv') = SetupOf(srv)
        /\ srv'.next = srv.next /\ srv'.arm = srv.arm
        /\ \A m \in Telling' : m \in Telling \/ m.next = srv'.next
    BY <1>1 DEF GoesOn, Begins, Away
  <2>2. srv'.settings = srv.settings /\ srv'.enabled = srv.enabled
    BY <2>1 DEF SetupOf
  <2>. QED  BY <2>1, <2>2, AwayStored DEF StoredInv
<1>2. CASE Rearms
  <2>1. /\ reqs' = reqs /\ page' = page /\ SetupOf(srv') = SetupOf(srv) /\ srv.enabled
        /\ srv'.next = srv.arm + 1 /\ srv'.arm = srv.arm + 1
        /\ \A m \in Telling' : m \in Telling \/ m.next = srv.next
    BY <1>2 DEF Rearms, Away
  <2>2. srv'.settings = srv.settings /\ srv'.enabled = srv.enabled
    BY <2>1 DEF SetupOf
  <2>3. srv.arm \in Nat /\ srv.next \in Nat /\ \A m \in Telling : m.next \in Nat
    BY DEF StoredInv
  <2>4. srv'.next \in Nat /\ srv'.arm \in Nat /\ srv'.next > 0 /\ Moves
    BY <2>1, <2>3 DEF Moves
  <2>. QED  BY <2>1, <2>2, <2>3, <2>4, AwayStored
<1>3. ASSUME NEW r \in reqs, Stores(r) PROVE StoredInv'
  <2>1. PICK q : /\ reqs' = Replace(r, q) /\ q.seq = r.seq /\ q.kind = r.kind /\ q.body = r.body
                 /\ q.pc = "handled" /\ q.own = srv'.ver
    BY <1>3 DEF Stores
  <2>2. /\ page' = page /\ r.kind = "save" /\ Telling' \subseteq Telling
        /\ srv'.settings = ServerNormalized(r.body[1].settings)
        /\ srv.next \in Nat /\ srv.arm \in Nat /\ r.body[1].next \in Nat =>
             /\ srv'.next \in Nat /\ srv'.arm \in Nat
             /\ srv'.enabled => srv'.next > 0
             /\ ~srv'.enabled => srv'.next = 0
    BY <1>3 DEF Stores, Away
  <2>3. BodyStays(r) /\ \A x \in reqs : x.kind = "save" => x = r
    BY <2>2 DEF StoredInv
  <2>4. SettingsOK(r.body[1].settings)
    BY <2>2 DEF TypedInv, BodyOK
  <2>5. srv'.settings = r.body[1].settings
    BY <2>2, <2>3, <2>4, ServerPasses DEF BodyStays
  <2>6. BodyStays(q)'
    BY <2>1, <2>3, <2>5 DEF BodyStays
  <2>7. \A x \in reqs' : x.kind = "save" => x = q
    BY <2>1, <2>3 DEF Replace
  <2>. QED  BY <2>2, <2>3, <2>5, <2>6, <2>7 DEF StoredInv, BodyStays
<1>4. ASSUME NEW m \in Telling, Sees(m) PROVE StoredInv'
  BY <1>4 DEF Sees, StoredInv, BodyStays, Set
<1>5. CASE Does
  <2>1. /\ srv' = srv /\ Telling' \subseteq Telling /\ page'.next \in {page.next, None}
        /\ \/ reqs' \subseteq reqs
           \/ \E q : /\ reqs' = reqs \cup {q}
                     /\ q.kind = "save" => ~Under("save") /\ q.pc = "asked" /\ BodyStays(q)
    BY <1>5 DEF Does
  <2>2. CASE reqs' \subseteq reqs
    BY <2>1, <2>2 DEF StoredInv, BodyStays
  <2>3. ASSUME NEW q, reqs' = reqs \cup {q},
               q.kind = "save" => ~Under("save") /\ q.pc = "asked" /\ BodyStays(q)
        PROVE  StoredInv'
    <3>1. \A r \in reqs' : r.kind = "save" => BodyStays(r)'
      BY <2>1, <2>3 DEF StoredInv, BodyStays
    <3>2. \A r, x \in reqs' : r.kind = "save" /\ x.kind = "save" => x = r
      BY <2>3 DEF StoredInv, Under
    <3>. QED  BY <2>1, <3>1, <3>2 DEF StoredInv
  <2>. QED  BY <2>1, <2>2, <2>3
<1>. QED  BY <1>1, <1>2, <1>3, <1>4, <1>5 DEF StepKinds

\* The settings and the plan are those of some version, after each kind of step.
LEMMA PlanKeeps ==
  ASSUME StatusInv, TypedInv, StoredInv, StepKinds, srv'.ver \in Nat, NEW t \in 1..srv.ver, PlanInv(t)
  PROVE  \E u \in 1..srv'.ver : PlanInv(u)'
<1>1. ASSUME GoesOn \/ Begins \/ Rearms PROVE PlanInv(t)' /\ srv'.ver >= srv.ver
  <2>1. /\ Away /\ SetupOf(srv') = SetupOf(srv) /\ Reaches(t)' /\ Moves
        /\ \A m \in Telling' : m \in Telling \/ SetupOf(m) = SetupOf(srv')
    <3>1. t \in 0..srv.ver /\ t \in 0..srv.ver + 1 /\ Reaches(t)
      BY TellingIs DEF PlanInv
    <3>. QED  BY <1>1, <3>1 DEF GoesOn, Begins, Rearms, ReachStays, Moves, TellsAs
  <2>2. Under("save") <=> Under("save")'
    BY <2>1 DEF Moves, Becomes, Replace, Under
  <2>3. PlanOf(srv') = PlanOf(srv) /\ srv'.settings = srv.settings
    BY <2>1 DEF SetupOf, PlanOf
  <2>4. PlanInv(t)'
    BY <2>1, <2>2, <2>3 DEF PlanInv, Away
  <2>. QED  BY <2>1, <2>4, TellingIs DEF Away
<1>2. ASSUME NEW r \in reqs, Stores(r) PROVE \E u \in 1..srv'.ver : PlanInv(u)'
  <2>0. PICK u : u = srv'.ver
    OBVIOUS
  <2>1. PICK q : reqs' = Replace(r, q) /\ q.kind = "save" /\ q.pc = "handled" /\ q.own = srv'.ver
    BY <1>2 DEF Stores
  <2>2. srv'.ver = srv.ver + 1 /\ Telling' \subseteq Telling /\ known'.shown = known.shown
    BY <1>2 DEF Stores, Away
  <2>3. Reaches(u)'
    BY <2>0, <2>1, <2>2, TellingIs DEF Reaches, SavesSince, Replace
  <2>4. PlanInv(u)'
    BY <2>0, <2>2, <2>3, TellingIs DEF PlanInv
  <2>. QED  BY <2>0, <2>2, <2>4, TellingIs
<1>3. ASSUME NEW m \in Telling, Sees(m) PROVE PlanInv(t)' /\ srv'.ver = srv.ver
  <2>1. /\ srv' = srv /\ Telling' \subseteq Telling /\ ReachStays /\ known'.shown = m.ver
        /\ page'.plan = PlanOf(m)
        /\ \/ known'.local
           \/ page'.settings = NormalizeConfigurableSettings(m.settings)
           \/ page'.settings = NormalizeConfigurableSettings(srv.settings)
    BY <1>3 DEF Sees
  <2>2. Reaches(t)'
    BY <2>1, TellingIs DEF ReachStays, PlanInv
  <2>3. m.ver >= t => PlanOf(m) = PlanOf(srv) /\ m.settings = srv.settings
    BY DEF PlanInv, SetupOf, PlanOf
  <2>. QED  BY <2>1, <2>2, <2>3 DEF PlanInv
<1>4. ASSUME Does PROVE PlanInv(t)' /\ srv'.ver = srv.ver
  <2>1. /\ srv' = srv /\ Telling' \subseteq Telling /\ ReachStays /\ known'.shown = known.shown
        /\ ~known'.local /\ ~known'.edited /\ ~Under("save")' =>
             /\ ~known.local /\ ~known.edited /\ ~Under("save")
             /\ page'.plan = page.plan /\ page'.settings = page.settings
    BY <1>4 DEF Does
  <2>2. Reaches(t)'
    BY <2>1, TellingIs DEF ReachStays, PlanInv
  <2>. QED  BY <2>1, <2>2 DEF PlanInv
<1>5. PlanInv(t)' /\ srv'.ver >= srv.ver => \E u \in 1..srv'.ver : PlanInv(u)'
  BY TellingIs
<1>. QED  BY <1>1, <1>2, <1>3, <1>4, <1>5, TellingIs DEF StepKinds

-----------------------------------------------------------------------------
(* The runs, and the time of the next one *)

LEMMA StatusTells ==
  ASSUME NEW m
  PROVE  m.state \in Active <=> ProgressStatus(m) \in {"running", "paused"}
BY DEF ProgressStatus, Active, Ended

\* The numbers of the requests after a step of the server
LEMMA SeqsStay ==
  ASSUME Moves, known.seq \in Nat, \A r \in reqs : r.seq \in 1..known.seq
  PROVE  \A r \in reqs' : r.seq \in 1..known.seq
BY DEF Moves, Becomes, Replace

\* What is known of the runs, after each kind of step.
LEMMA RunsKeep ==
  ASSUME StatusInv, RunsOK, PageRunsOK, StepKinds
  PROVE  RunsOK' /\ PageRunsOK'
<1>1. /\ srv.run \in Nat /\ page.started \in Nat /\ page.started <= srv.run
      /\ srv.state \in Active => srv.run > 0
  BY DEF RunsOK, PageRunsOK
<1>2. CASE GoesOn \/ Begins \/ Rearms
  <2>1. /\ page' = page /\ known'.seq = known.seq /\ Moves
        /\ \/ /\ srv'.run = srv.run /\ (srv'.state \in Active => srv.state \in Active)
              /\ \A m \in Telling' : m \in Telling \/ (m.run = srv'.run /\ m.state = srv'.state)
           \/ srv'.run = srv.run + 1 /\ Telling' \subseteq Telling
    BY <1>2 DEF GoesOn, Begins, Rearms, Away, Moves, TellsAs
  <2>2. RunsOK'
    BY <1>1, <2>1 DEF RunsOK
  <2>3. \A r \in reqs' : r.seq \in 1..known.seq
    BY <2>1, SeqsStay DEF PageRunsOK
  <2>4. /\ page.started <= srv'.run
        /\ srv'.state \in Active /\ page.started = srv'.run => page.status \in {"running", "paused"}
        /\ page.loaded # << >> => /\ page.loaded[1] <= srv'.run
                                  /\ srv'.state \in Active => page.loaded[1] # srv'.run
    BY <1>1, <2>1 DEF PageRunsOK
  <2>. QED  BY <2>1, <2>2, <2>3, <2>4 DEF PageRunsOK
<1>3. ASSUME NEW r \in reqs, Stores(r) PROVE RunsOK' /\ PageRunsOK'
  <2>1. PICK q : reqs' = Replace(r, q) /\ q.seq = r.seq
    BY <1>3 DEF Stores
  <2>2. /\ page' = page /\ known'.seq = known.seq /\ srv'.run = srv.run /\ srv'.state = srv.state
        /\ Telling' \subseteq Telling
    BY <1>3 DEF Stores, Away
  <2>3. RunsOK'
    BY <2>2 DEF RunsOK
  <2>4. \A x \in reqs' : x.seq \in 1..known.seq
    BY <2>1 DEF Replace, PageRunsOK
  <2>. QED  BY <2>2, <2>3, <2>4 DEF PageRunsOK
<1>4. ASSUME NEW m \in Telling, Sees(m) PROVE RunsOK' /\ PageRunsOK'
  <2>1. /\ srv' = srv /\ Telling' \subseteq Telling /\ known'.seq = known.seq /\ reqs' \subseteq reqs
        /\ page'.started = m.run /\ page'.status = ProgressStatus(m)
        /\ page'.loaded = page.loaded \/ (page'.loaded = Key(page) /\ Noted(m))
        /\ Refetches(page'.live = 0 /\ Noted(m))
    BY <1>4 DEF Sees
  <2>2. RunsOK'
    BY <2>1 DEF RunsOK
  <2>3. /\ m.run \in Nat /\ m.run <= srv.run
        /\ srv.state \in Active /\ m.run = srv.run => page'.status \in {"running", "paused"}
    BY <2>1, StatusTells DEF RunsOK
  <2>4. ASSUME page'.loaded # << >>
        PROVE  /\ page'.loaded[1] \in Nat /\ page'.loaded[1] <= srv.run
               /\ srv.state \in Active => page'.loaded[1] # srv.run
    <3>1. CASE page'.loaded = page.loaded
      BY <2>4, <3>1 DEF PageRunsOK
    <3>2. CASE page'.loaded = Key(page) /\ Noted(m)
      <4>1. page'.loaded[1] = page.started /\ ~Held(page)
        BY <3>2 DEF Key, Noted, PageRunsOK
      <4>. QED  BY <4>1 DEF Held, PageRunsOK
    <3>. QED  BY <2>1, <3>1, <3>2
  <2>5. page'.due \/ page'.live # 0 => ~Held(page')
    <3>1. CASE page'.live = 0 /\ page'.due = (~Held(page') /\ Key(page') # page'.loaded)
      BY <3>1
    <3>2. CASE /\ Fetching(page') = Fetching(page) /\ page'.due = page.due
               /\ page'.live = page.live \/ page'.live = 0
      BY <3>2 DEF Fetching, Held, PageRunsOK
    <3>. QED  BY <2>1, <3>1, <3>2 DEF Refetches
  <2>. QED  BY <2>1, <2>2, <2>3, <2>4, <2>5 DEF PageRunsOK
<1>5. CASE Does
  <2>1. /\ srv' = srv /\ Telling' \subseteq Telling
        /\ page'.started = page.started /\ page'.loaded = page.loaded
        /\ page'.status = page.status \/ page'.status = "running"
        /\ Fetches \/ Refetches(page'.live = 0 /\ known'.missed)
        /\ \/ reqs' \subseteq reqs /\ known'.seq = known.seq
           \/ \E q : reqs' = reqs \cup {q} /\ q.seq = known'.seq /\ known'.seq = known.seq + 1
    BY <1>5 DEF Does
  <2>2. RunsOK'
    BY <2>1 DEF RunsOK
  <2>3. known'.seq \in Nat /\ \A r \in reqs' : r.seq \in 1..known'.seq
    BY <2>1 DEF PageRunsOK
  <2>4. page'.due \/ page'.live # 0 => ~Held(page')
    <3>1. CASE page'.live = 0 /\ page'.due = (~Held(page') /\ Key(page') # page'.loaded)
      BY <3>1
    <3>2. CASE /\ Fetching(page') = Fetching(page) /\ page'.due = page.due
               /\ page'.live = page.live \/ page'.live = 0
      BY <3>2 DEF Fetching, Held, PageRunsOK
    <3>3. CASE Fetches
      BY <3>3 DEF Fetches, Fetching, Held, PageRunsOK
    <3>. QED  BY <2>1, <3>1, <3>2, <3>3 DEF Refetches
  <2>. QED  BY <2>1, <2>2, <2>3, <2>4 DEF PageRunsOK
<1>. QED  BY <1>2, <1>3, <1>4, <1>5 DEF StepKinds

\* A save, or the end of a run, sets the time of the next run anew.
LEMMA NextSet ==
  ASSUME StatusInv, RunsOK, PageRunsOK, srv'.ver \in Nat,
         Rearms \/ \E r \in reqs : Stores(r)
  PROVE  \E u \in 1..srv'.ver, n \in 0..srv'.run : NextInv(u, n)'
<1>1. PICK u : u = srv'.ver
  OBVIOUS
<1>2. CASE Rearms
  <2>1. PICK n, v : n = srv.run /\ v = srv.ver + 1
    OBVIOUS
  <2>2. /\ srv.state \in Active /\ srv'.state \notin Active /\ u = v + 1
        /\ srv'.run = n /\ srv'.listed = srv.listed /\ page' = page
        /\ known'.shown = known.shown
        /\ \A t \in 0..srv.ver + 1 : Reaches(t)'
        /\ \A m \in Telling' : m \in Telling \/ (m.ver = v /\ TellsAs(m, srv'))
    BY <1>1, <1>2, <2>1, TellingIs DEF Rearms, Away
  <2>3. n \in Nat /\ n > 0
    BY <2>1, <2>2 DEF RunsOK
  <2>4. v \in Nat /\ v > srv.ver /\ u \in 1..srv'.ver
    BY <1>1, <2>1, <2>2, TellingIs
  <2>5. \A m \in Telling' : m.ver \in Nat /\ m.ver < u
    BY <2>2, <2>4, TellingIs
  <2>6. known'.shown \in Nat /\ known'.shown < v
    BY <2>2, <2>4, TellingIs
  <2>7. srv'.listed => EndTold(u, n)'
    <3>1. Reaches(v)' /\ v = u - 1
      BY <2>1, <2>2, <2>4, TellingIs
    <3>2. \A m \in Telling' : m.ver = v => m.run = n /\ m.listed = srv'.listed /\ m.state \notin Active
      BY <2>2, <2>4, TellingIs DEF TellsAs
    <3>3. ASSUME srv'.listed PROVE \A m \in Telling' : m.ver = v => m.run = n /\ m.listed /\ m.state \notin Active
      BY <3>2, <3>3, Zenon
    <3>4. known'.shown # v
      BY <2>4, <2>6
    <3>. QED  BY <3>1, <3>3, <3>4 DEF EndTold
  <2>8. FetchesSince(u, n)'
    <3>1. ~EndedPage(page, n)
      BY <2>1, <2>2 DEF EndedPage, PageRunsOK
    <3>2. page.loaded # << >> => page.loaded[1] # n
      BY <2>1, <2>2 DEF PageRunsOK
    <3>. QED  BY <2>2, <3>1, <3>2 DEF FetchesSince
  <2>9. NextInv(u, n)'
    BY <2>2, <2>3, <2>4, <2>5, <2>6, <2>7, <2>8 DEF NextInv
  <2>. QED  BY <2>2, <2>3, <2>4, <2>9
<1>3. ASSUME NEW r \in reqs, Stores(r) PROVE NextInv(u, 0)' /\ u \in 1..srv'.ver /\ srv'.run \in Nat
  <2>1. PICK q : reqs' = Replace(r, q) /\ q.kind = "save" /\ q.pc = "handled" /\ q.own = u
    BY <1>1, <1>3 DEF Stores
  <2>2. /\ srv'.ver = srv.ver + 1 /\ Telling' \subseteq Telling /\ known'.shown = known.shown
        /\ srv'.run = srv.run
    BY <1>3 DEF Stores, Away
  <2>3. u \in Nat /\ u > srv.ver
    BY <1>1, <2>2, TellingIs
  <2>4. Reaches(u)'
    BY <2>1, <2>3 DEF Reaches, SavesSince, Replace
  <2>5. /\ \A m \in Telling' : m.ver \in Nat /\ m.ver < u
        /\ known'.shown \in Nat /\ known'.shown < u
    BY <2>2, <2>3, TellingIs
  <2>6. NextInv(u, 0)'
    BY <2>3, <2>4, <2>5 DEF NextInv
  <2>. QED  BY <1>1, <2>2, <2>3, <2>6, TellingIs DEF RunsOK
<1>4. ASSUME NEW r \in reqs, Stores(r)
      PROVE  \E n \in 0..srv'.run : NextInv(u, n)'
  BY <1>3, <1>4
<1>. QED  BY <1>2, <1>3, <1>4

\* The time of the next run is still that of version t, of no run or run n.
LEMMA NextGoesOn ==
  ASSUME StatusInv, RunsOK, PageRunsOK, srv'.ver \in Nat,
         NEW t \in 1..srv.ver, NEW n \in 0..srv.run, NextInv(t, n), GoesOn
  PROVE  NextInv(t, n)'
<1>1. PICK b : b = t - 1
  OBVIOUS
<1>2. /\ t \in Nat /\ t <= srv.ver /\ b \in 0..srv.ver /\ t \in 0..srv.ver /\ b < t
  BY <1>1, TellingIs
<1>3. /\ Away /\ Moves /\ srv'.run = srv.run /\ srv'.next = srv.next
      /\ srv'.state \in Active => srv.state \in Active
      /\ srv'.listed => srv.listed \/ (srv.state \in Active /\ \A u \in 0..srv.ver : Reaches(u)')
      /\ \A m \in Telling' : m \in Telling \/ (m.ver \in srv.ver..srv'.ver /\ m.next = srv'.next)
      /\ Reaches(t) => Reaches(t)'
      /\ Reaches(b) => Reaches(b)'
  BY <1>2 DEF GoesOn, ReachStays
<1>4. \A m \in Telling' : m.ver >= t => m.next = srv'.next
  BY <1>3 DEF NextInv
<1>5. known'.shown >= t => page'.next = None \/ page'.next = Set(srv'.next)
  BY <1>3 DEF NextInv, Away
<1>6. n = 0 \/ (srv'.run > n /\ srv'.listed) => Reaches(t)'
  BY <1>2, <1>3 DEF NextInv
<1>7. ASSUME n > 0, srv'.run = n
      PROVE  /\ srv'.state \notin Active
             /\ srv'.listed => EndTold(t, n)' /\ FetchesSince(t, n)'
  <2>1. srv.state \notin Active /\ srv'.state \notin Active
    BY <1>3, <1>7 DEF NextInv
  <2>2. ASSUME srv'.listed PROVE EndTold(t, n)' /\ FetchesSince(t, n)'
    <3>1. EndTold(t, n) /\ FetchesSince(t, n)
      BY <1>3, <1>7, <2>1, <2>2 DEF NextInv
    <3>2. Under("run") => Under("run")'
      BY <1>3 DEF Moves, Becomes, Replace, Under
    <3>3. \A m \in Telling' : m.ver = b => m \in Telling
      BY <1>2, <1>3, TellingIs
    <3>4. EndTold(t, n)'
      <4>1. /\ Reaches(b) /\ \A m \in Telling : m.ver = b => m.run = n /\ m.listed /\ m.state \notin Active
            /\ known.shown = b => EndedPage(page, n) \/ Under("run") \/ known.emptied
        BY <1>1, <3>1 DEF EndTold
      <4>2. /\ Reaches(b)' /\ \A m \in Telling' : m.ver = b => m.run = n /\ m.listed /\ m.state \notin Active
            /\ known'.shown = b => EndedPage(page', n) \/ Under("run")' \/ known'.emptied
        BY <1>3, <3>2, <3>3, <4>1 DEF Away
      <4>. QED  BY <1>1, <4>2 DEF EndTold
    <3>5. \A r \in reqs : \E q \in reqs' : q.seq = r.seq /\ q.kind = r.kind
      BY <1>3 DEF Moves, Becomes, Replace
    <3>6. \A q \in reqs' : q.pc = "answered" => q \in reqs \/ q.answer[1].ver >= t
      <4>1. srv'.ver >= t
        BY <1>2, <1>3, TellingIs DEF Away
      <4>. QED  BY <1>3, <4>1 DEF Moves, Becomes, Replace
    <3>7. FetchesSince(t, n)'
      BY <1>3, <3>1, <3>5, <3>6 DEF FetchesSince, Away
    <3>. QED  BY <3>4, <3>7
  <2>. QED  BY <2>1, <2>2
<1>. QED  BY <1>4, <1>5, <1>6, <1>7 DEF NextInv

LEMMA NextBegins ==
  ASSUME StatusInv, RunsOK, PageRunsOK, NEW t \in 1..srv.ver, NEW n \in 0..srv.run, NextInv(t, n), Begins
  PROVE  NextInv(t, n)'
<1>1. /\ Away /\ srv'.run = srv.run + 1 /\ ~srv'.listed /\ srv'.next = srv.next
      /\ Telling' \subseteq Telling /\ (Reaches(t) => Reaches(t)')
  BY TellingIs DEF Begins, ReachStays
<1>2. srv.run \in Nat /\ n # srv'.run
  BY <1>1 DEF RunsOK
<1>. QED  BY <1>1, <1>2 DEF NextInv, Away

\* What the fetch has come to, when the page has taken in m.
LEMMA FetchesAfter ==
  ASSUME StatusInv, RunsOK, PageRunsOK, NEW t \in Nat, NEW n \in Nat \ {0}, FetchesSince(t, n),
         NEW m \in Telling, Sees(m)
  PROVE  FetchesSince(t, n)'
<1>1. /\ known'.seen >= m.ver /\ known'.seen >= known.seen /\ known'.seen \in Nat
      /\ known'.missed = known.missed /\ reqs' \subseteq reqs
      /\ page'.loaded = page.loaded \/ (page'.loaded = Key(page) /\ Noted(m))
      /\ Refetches(page'.live = 0 /\ Noted(m))
      /\ \A r \in reqs : r \notin reqs' /\ r.kind = "details" /\ r.seq = page.live => page.live # 0 /\ Noted(m)
  BY DEF Sees
<1>2. m.ver \in Nat /\ known.seen \in Nat
  BY TellingIs
<1>3. CASE known'.seen >= t
  <2>1. EndedPage(page', n) /\ page'.live # 0 => \A r \in reqs' : r.seq = page'.live /\ r.pc = "answered" => r.answer[1].ver >= t
    <3>1. SUFFICES ASSUME EndedPage(page', n), page'.live # 0
                   PROVE  \A r \in reqs' : r.seq = page'.live /\ r.pc = "answered" => r.answer[1].ver >= t
      OBVIOUS
    <3>2. Fetching(page') = Fetching(page) /\ page'.live = page.live
      BY <1>1, <3>1 DEF Refetches
    <3>3. EndedPage(page, n)
      BY <3>1, <3>2 DEF Fetching, EndedPage
    <3>. QED  BY <1>1, <3>1, <3>2, <3>3 DEF FetchesSince
  <2>. QED  BY <1>3, <2>1 DEF FetchesSince
<1>4. CASE ~(known'.seen >= t)
  <2>1. m.ver < t /\ ~(known.seen >= t)
    BY <1>1, <1>2, <1>4
  <2>2. ~(Noted(m) /\ page.started = n)
    <3>1. SUFFICES ASSUME Noted(m), page.started = n PROVE FALSE
      OBVIOUS
    <3>2. ~Held(page) /\ page.live # 0
      BY <3>1 DEF Noted, PageRunsOK
    <3>3. EndedPage(page, n)
      BY <3>1, <3>2 DEF Held, EndedPage
    <3>4. m.ver >= t
      BY <3>1, <3>2, <3>3 DEF FetchesSince, Noted
    <3>. QED  BY <1>2, <2>1, <3>4
  <2>3. page'.loaded # << >> => page'.loaded[1] # n
    BY <1>1, <2>1, <2>2 DEF FetchesSince, Key
  <2>4. ASSUME EndedPage(page', n)
        PROVE  /\ \/ page'.due \/ known'.missed
                  \/ page'.live # 0 /\ \E r \in reqs' : r.kind = "details" /\ r.seq = page'.live
               /\ page'.live # 0 =>
                    \A r \in reqs' : r.seq = page'.live /\ r.pc = "answered" => r.answer[1].ver >= t
    <3>1. CASE page'.live = 0 /\ page'.due = (~Held(page') /\ Key(page') # page'.loaded)
      <4>1. ~Held(page') /\ Key(page')[1] = n /\ Key(page') # << >>
        BY <2>4 DEF EndedPage, Held, Key
      <4>2. Key(page') # page'.loaded
        BY <2>3, <4>1
      <4>. QED  BY <3>1, <4>1, <4>2
    <3>2. CASE /\ Fetching(page') = Fetching(page) /\ page'.due = page.due
               /\ page'.live = page.live \/ (page'.live = 0 /\ Noted(m))
      <4>1. EndedPage(page, n) /\ page.started = n
        BY <2>4, <3>2 DEF Fetching, EndedPage
      <4>2. ~Noted(m) /\ page'.live = page.live
        BY <2>2, <3>2, <4>1
      <4>3. \A r \in reqs : r.kind = "details" /\ r.seq = page.live => r \in reqs'
        BY <1>1, <4>2
      <4>4. \/ page.due \/ known.missed
            \/ page.live # 0 /\ \E r \in reqs : r.kind = "details" /\ r.seq = page.live
        BY <2>1, <4>1 DEF FetchesSince
      <4>5. page.live # 0 => \A r \in reqs : r.seq = page.live /\ r.pc = "answered" => r.answer[1].ver >= t
        BY <4>1 DEF FetchesSince
      <4>. QED  BY <1>1, <3>2, <4>2, <4>3, <4>4, <4>5
    <3>. QED  BY <1>1, <3>1, <3>2 DEF Refetches
  <2>. QED  BY <2>3, <2>4 DEF FetchesSince
<1>. QED  BY <1>3, <1>4

LEMMA NextSees ==
  ASSUME StatusInv, RunsOK, PageRunsOK, NEW t \in 1..srv.ver, NEW n \in 0..srv.run, NextInv(t, n),
         NEW m \in Telling, Sees(m)
  PROVE  NextInv(t, n)'
<1>1. PICK b : b = t - 1
  OBVIOUS
<1>2. t \in Nat /\ b \in 0..srv.ver /\ t \in 0..srv.ver
  BY <1>1, TellingIs
<1>3. /\ srv' = srv /\ Telling' \subseteq Telling /\ known'.shown = m.ver
      /\ page'.started = m.run /\ page'.listed = m.listed /\ page'.status = ProgressStatus(m)
      /\ page'.next = Set(m.next)
      /\ Reaches(t) => Reaches(t)'
      /\ Reaches(b) => Reaches(b)'
  BY <1>2 DEF Sees, ReachStays
<1>4. /\ \A x \in Telling' : x.ver >= t => x.next = srv'.next
      /\ known'.shown >= t => page'.next = None \/ page'.next = Set(srv'.next)
      /\ n = 0 \/ (srv'.run > n /\ srv'.listed) => Reaches(t)'
  BY <1>3 DEF NextInv
<1>5. ASSUME n > 0, srv'.run = n, srv.listed
      PROVE  EndTold(t, n)' /\ FetchesSince(t, n)'
  <2>1. EndTold(t, n) /\ FetchesSince(t, n) /\ n \in Nat \ {0}
    BY <1>3, <1>5 DEF NextInv, RunsOK
  <2>2. FetchesSince(t, n)'
    BY <1>2, <2>1, FetchesAfter
  <2>3. Reaches(b) /\ \A x \in Telling : x.ver = b => x.run = n /\ x.listed /\ x.state \notin Active
    BY <1>1, <2>1 DEF EndTold
  <2>4. m.ver = b => EndedPage(page', n)
    BY <1>3, <2>3, StatusTells DEF EndedPage
  <2>5. EndTold(t, n)'
    BY <1>1, <1>3, <2>3, <2>4 DEF EndTold
  <2>. QED  BY <2>2, <2>5
<1>6. n > 0 /\ srv'.run = n => srv'.state \notin Active
  BY <1>3 DEF NextInv
<1>. QED  BY <1>3, <1>4, <1>5, <1>6 DEF NextInv

LEMMA NextDoes ==
  ASSUME StatusInv, RunsOK, PageRunsOK, NEW t \in 1..srv.ver, NEW n \in 0..srv.run, NextInv(t, n), Does
  PROVE  NextInv(t, n)'
<1>1. PICK b : b = t - 1
  OBVIOUS
<1>2. t \in Nat /\ b \in 0..srv.ver /\ t \in 0..srv.ver
  BY <1>1, TellingIs
<1>3. /\ srv' = srv /\ Telling' \subseteq Telling /\ known'.shown = known.shown /\ known'.seen = known.seen
      /\ page'.started = page.started /\ page'.loaded = page.loaded
      /\ page'.next \in {page.next, None}
      /\ \/ page'.status = page.status /\ page'.listed = page.listed
         \/ page'.status = "running" /\ Under("run")'
      /\ Under("run") => Under("run")' \/ known'.emptied
      /\ known.emptied => known'.emptied
      /\ Reaches(t) => Reaches(t)'
      /\ Reaches(b) => Reaches(b)'
  BY <1>2 DEF Does, ReachStays
<1>4. /\ \A x \in Telling' : x.ver >= t => x.next = srv'.next
      /\ known'.shown >= t => page'.next = None \/ page'.next = Set(srv'.next)
      /\ n = 0 \/ (srv'.run > n /\ srv'.listed) => Reaches(t)'
  BY <1>3 DEF NextInv
<1>5. ASSUME n > 0, srv'.run = n, srv.listed
      PROVE  EndTold(t, n)' /\ FetchesSince(t, n)'
  <2>1. EndTold(t, n) /\ FetchesSince(t, n) /\ n \in Nat \ {0}
    BY <1>3, <1>5 DEF NextInv, RunsOK
  <2>2. EndedPage(page', n) => EndedPage(page, n) /\ page.started = n
    BY <1>3 DEF EndedPage
  <2>3. EndTold(t, n)'
    <3>1. EndedPage(page, n) => EndedPage(page', n) \/ Under("run")'
      BY <1>3 DEF EndedPage
    <3>. QED  BY <1>1, <1>3, <2>1, <3>1 DEF EndTold
  <2>4. page'.loaded # << >> /\ page'.loaded[1] = n => known'.seen >= t
    BY <1>3, <2>1 DEF FetchesSince
  <2>5. ASSUME EndedPage(page', n)
        PROVE  /\ \/ known'.seen >= t \/ page'.due \/ known'.missed
                  \/ page'.live # 0 /\ \E r \in reqs' : r.kind = "details" /\ r.seq = page'.live
               /\ page'.live # 0 =>
                    \A r \in reqs' : r.seq = page'.live /\ r.pc = "answered" => r.answer[1].ver >= t
    <3>1. /\ \/ known.seen >= t \/ page.due \/ known.missed
             \/ page.live # 0 /\ \E r \in reqs : r.kind = "details" /\ r.seq = page.live
          /\ page.live # 0 =>
               \A r \in reqs : r.seq = page.live /\ r.pc = "answered" => r.answer[1].ver >= t
      BY <2>1, <2>2, <2>5 DEF FetchesSince
    <3>2. CASE Fetches
      <4>1. PICK q : /\ reqs' = reqs \cup {q} /\ q.kind = "details" /\ q.pc = "handled"
                     /\ q.seq = known'.seq
        BY <3>2 DEF Fetches
      <4>2. page'.live = known'.seq /\ known'.seq = known.seq + 1
        BY <3>2 DEF Fetches
      <4>3. known.seq \in Nat /\ \A r \in reqs : r.seq \in 1..known.seq
        BY DEF PageRunsOK
      <4>4. page'.live # 0 /\ \A r \in reqs : r.seq # page'.live
        BY <4>2, <4>3
      <4>. QED  BY <4>1, <4>2, <4>4
    <3>3. CASE page'.live = 0 /\ page'.due = (~Held(page') /\ Key(page') # page'.loaded)
      <4>1. ~Held(page') /\ Key(page')[1] = n /\ Key(page') # << >>
        BY <2>1, <2>5 DEF EndedPage, Held, Key
      <4>2. Key(page') # page'.loaded \/ known'.seen >= t
        BY <2>4, <4>1
      <4>. QED  BY <3>3, <4>1, <4>2
    <3>4. CASE /\ Fetching(page') = Fetching(page) /\ page'.due = page.due
               /\ page'.live = page.live \/ (page'.live = 0 /\ known'.missed)
               /\ known.missed => known'.missed
               /\ ~Fetches
      <4>1. \/ reqs' \subseteq reqs
            \/ \E q : reqs' = reqs \cup {q} /\ q.pc \in {"asked", "handled"}
        BY DEF Does
      <4>2. \A r \in reqs : r \in reqs' \/ (r.kind = "details" /\ r.seq = page.live => known'.missed)
        BY DEF Does
      <4>3. CASE page'.live = 0 /\ known'.missed
        BY <4>3
      <4>4. CASE page'.live = page.live
        <5>1. page'.live # 0 =>
                    \A r \in reqs' : r.seq = page'.live /\ r.pc = "answered" => r.answer[1].ver >= t
          BY <3>1, <4>1, <4>4
        <5>. QED  BY <1>3, <3>1, <3>4, <4>2, <4>4, <5>1
      <4>. QED  BY <3>4, <4>3, <4>4
    <3>5. Fetches \/ (Refetches(page'.live = 0 /\ known'.missed) /\ (known.missed => known'.missed))
      BY DEF Does
    <3>. QED  BY <3>2, <3>3, <3>4, <3>5 DEF Refetches
  <2>6. FetchesSince(t, n)'
    BY <2>4, <2>5 DEF FetchesSince
  <2>. QED  BY <2>3, <2>6
<1>6. n > 0 /\ srv'.run = n => srv'.state \notin Active
  BY <1>3 DEF NextInv
<1>. QED  BY <1>3, <1>4, <1>5, <1>6 DEF NextInv

\* The invariant is kept by a step of any of the kinds.
LEMMA KindsKeep ==
  ASSUME StatusInv, TypedInv, SaveInv, StepKinds, srv'.ver \in Nat
  PROVE  SaveInv'
<1>1. StoredInv /\ RunsOK /\ PageRunsOK
  BY DEF SaveInv
<1>2. StoredInv' /\ RunsOK' /\ PageRunsOK'
  BY <1>1, StoredKeeps, RunsKeep
<1>3. \E u \in 1..srv'.ver : PlanInv(u)'
  <2>1. PICK t \in 1..srv.ver : PlanInv(t)
    BY DEF SaveInv
  <2>. QED  BY <1>1, <2>1, PlanKeeps
<1>4. \E u \in 1..srv'.ver, n \in 0..srv'.run : NextInv(u, n)'
  <2>1. PICK t \in 1..srv.ver, n \in 0..srv.run : NextInv(t, n)
    BY DEF SaveInv
  <2>2. CASE Rearms \/ \E r \in reqs : Stores(r)
    BY <1>1, <2>2, NextSet
  <2>3. ASSUME GoesOn \/ Begins \/ Does \/ \E m \in Telling : Sees(m)
        PROVE  NextInv(t, n)' /\ t \in 1..srv'.ver /\ n \in 0..srv'.run
    <3>1. NextInv(t, n)'
      BY <1>1, <2>1, <2>3, NextGoesOn, NextBegins, NextSees, NextDoes
    <3>2. srv'.ver >= srv.ver /\ (srv'.run = srv.run \/ srv'.run = srv.run + 1)
      BY <2>3, TellingIs DEF GoesOn, Begins, Does, Sees, Away
    <3>. QED  BY <1>1, <3>1, <3>2, TellingIs DEF RunsOK
  <2>. QED  BY <2>2, <2>3 DEF StepKinds
<1>. QED  BY <1>2, <1>3, <1>4 DEF SaveInv

-----------------------------------------------------------------------------
(* At rest, and at first *)

LEMMA UpdatedNext ==
  ASSUME NEW s, DOMAIN s = ServerFields, NEW b, NEW u, u = Updated(s, b)
  PROVE  /\ u.run = s.run /\ u.state = s.state /\ u.listed = s.listed
         /\ u.arm = IF ~b.enabled \/ b.next > 0 THEN s.arm ELSE s.arm + 1
         /\ u.next = IF ~b.enabled THEN 0 ELSE IF b.next > 0 THEN b.next
                     ELSE IF s.next > 0 THEN s.next ELSE u.arm
<1> DEFINE arm == IF ~b.enabled \/ b.next > 0 THEN s.arm ELSE s.arm + 1
           next == IF ~b.enabled THEN 0 ELSE IF b.next > 0 THEN b.next
                   ELSE IF s.next > 0 THEN s.next ELSE arm
           stored == ServerNormalized(b.settings)
<1>1. u = Changed([s EXCEPT !.enabled = b.enabled, !.interval = b.interval, !.next = next,
                            !.arm = arm, !.settings = stored])
  BY DEF Updated
<1> HIDE DEF arm, next, stored
<1>2. /\ u.run = s.run /\ u.state = s.state /\ u.listed = s.listed /\ u.arm = arm /\ u.next = next
  BY <1>1 DEF Changed, ServerFields
<1>. QED  BY <1>2 DEF arm, next

\* What the page and the server agree on at rest, a save would keep.
LEMMA RestKeeps == StatusInv /\ TypedInv /\ SaveInv => SaveWouldKeep
<1> SUFFICES ASSUME StatusInv, TypedInv, SaveInv, AtRest, UpToDate, ~known.local, ~known.edited,
                    ~known.missed, ~known.emptied
             PROVE  LET taken == NormalizeConfigurableSettings(page.settings)
                        saved == Updated(srv, SaveBody(taken))
                    IN  /\ saved.enabled = srv.enabled /\ saved.interval = srv.interval
                        /\ srv.listed \/ srv.run = 0 => saved.next = srv.next
                        /\ srv.settings.usedPercentThreshold # 1 =>
                             DraftOf(saved.settings) = DraftOf(srv.settings)
  BY DEF SaveWouldKeep
<1> DEFINE taken == NormalizeConfigurableSettings(page.settings)
           body == SaveBody(taken)
           saved == Updated(srv, body)
<1>1. /\ srv.ver \in Nat \ {0} /\ known.seen \in Nat /\ known.lost \in Nat
      /\ known.shown = known.seen /\ known.lost <= known.seen
      /\ DOMAIN srv = ServerFields
  BY TellingIs DEF UpToDate, StatusInv, Shape
<1>2. /\ reqs = {} /\ ~page.due /\ stream.open # "no" /\ Messages(stream) = {}
      /\ \A kind : ~Under(kind)
  BY DEF AtRest, Messages, Range, Under
<1>3. ASSUME NEW t \in Nat, Reaches(t) PROVE known.seen >= t /\ known.shown >= t
  BY <1>1, <1>2, <1>3 DEF Reaches, SavesSince
<1>4. PICK t \in 1..srv.ver : PlanInv(t)
  BY DEF SaveInv
<1>5. page.plan = PlanOf(srv) /\ page.settings = NormalizeConfigurableSettings(srv.settings)
  <2>1. known.shown >= t
    BY <1>1, <1>3, <1>4 DEF PlanInv
  <2>. QED  BY <1>2, <1>4, <2>1 DEF PlanInv
<1>6. body.enabled = srv.enabled /\ body.interval = srv.interval /\ body.settings = taken
      /\ body.next = IF srv.enabled /\ page.next # None THEN page.next[1] ELSE 0
  BY <1>5 DEF SaveBody, PlanOf
<1> HIDE DEF body
<1>7. saved.enabled = srv.enabled /\ saved.interval = srv.interval
      /\ saved.settings = ServerNormalized(taken)
  BY <1>1, <1>6, UpdatedIs
<1>8. ASSUME srv.listed \/ srv.run = 0
      PROVE  page.next = None \/ page.next = Set(srv.next)
  <2>1. PICK u \in 1..srv.ver, n \in 0..srv.run : NextInv(u, n)
    BY DEF SaveInv
  <2>2. srv.run \in Nat /\ n \in Nat /\ n <= srv.run
    BY DEF SaveInv, RunsOK
  <2>3. CASE known.shown >= u
    BY <2>1, <2>3 DEF NextInv
  <2>4. CASE ~(known.shown >= u)
    <3>1. n > 0 /\ srv.run = n /\ srv.listed
      BY <1>1, <1>3, <1>8, <2>1, <2>2, <2>4 DEF NextInv
    <3>2. EndTold(u, n) /\ FetchesSince(u, n)
      BY <2>1, <3>1 DEF NextInv
    <3>3. PICK b : b = u - 1
      OBVIOUS
    <3>4. b \in Nat /\ Reaches(b)
      BY <1>1, <3>2, <3>3 DEF EndTold
    <3>5. known.shown = b
      BY <1>1, <1>3, <2>4, <3>3, <3>4
    <3>6. EndedPage(page, n)
      BY <1>2, <3>2, <3>3, <3>5 DEF EndTold
    <3>7. known.seen >= u
      BY <1>2, <3>2, <3>6 DEF FetchesSince
    <3>. QED  BY <1>1, <2>4, <3>7
  <2>. QED  BY <2>3, <2>4
<1>9. ASSUME srv.listed \/ srv.run = 0 PROVE saved.next = srv.next
  <2>1. /\ srv.next \in Nat /\ (srv.enabled => srv.next > 0) /\ (~srv.enabled => srv.next = 0)
    BY DEF SaveInv, StoredInv
  <2>2. saved.next = IF ~body.enabled THEN 0 ELSE IF body.next > 0 THEN body.next
                     ELSE IF srv.next > 0 THEN srv.next ELSE saved.arm
    BY <1>1, UpdatedNext
  <2> HIDE DEF saved
  <2>3. body.next = 0 \/ body.next = srv.next
    BY <1>6, <1>8, <1>9 DEF Set
  <2>. QED  BY <1>6, <2>1, <2>2, <2>3
<1>10. ASSUME srv.settings.usedPercentThreshold # 1
       PROVE  saved.settings = srv.settings
  <2>1. SettingsOK(srv.settings) /\ InLimits(srv.settings)
    BY DEF TypedInv, SaveInv, StoredInv
  <2>2. NormalizeConfigurableSettings(srv.settings) = srv.settings
    BY <1>10, <2>1, StoredPasses
  <2>3. taken = srv.settings
    BY <1>5, <2>2
  <2>. QED  BY <1>7, <2>1, <2>3, ServerPasses
<1> HIDE DEF saved
<1>11. /\ saved.enabled = srv.enabled /\ saved.interval = srv.interval
       /\ srv.listed \/ srv.run = 0 => saved.next = srv.next
       /\ srv.settings.usedPercentThreshold # 1 => DraftOf(saved.settings) = DraftOf(srv.settings)
  BY <1>7, <1>9, <1>10
<1>. QED  BY <1>11 DEF saved, body, taken

LEMMA InitKeeps == PageInit => SaveInv
<1> SUFFICES ASSUME PageInit PROVE SaveInv
  OBVIOUS
<1>1. StatusInv /\ TypedInv
  BY InitIsInOrder, InitIsSettled
<1>2. PICK s \in Scenarios :
        srv = [ver |-> 1, state |-> s.start.state, run |-> IF s.start.state = "idle" THEN 0 ELSE 1,
               finished |-> IF s.start.state = "completed" THEN 1 ELSE 0,
               failed |-> FALSE, listed |-> (IF s.start.state = "idle" THEN 0 ELSE 1) = 1, listedAt |-> 0,
               rows |-> s.start.rows, manual |-> FALSE, enabled |-> s.start.enabled,
               interval |-> 360, next |-> IF s.start.enabled THEN 1 ELSE 0, arm |-> 1,
               settings |-> s.start.settings]
  BY DEF PageInit
<1>3. /\ srv.ver = 1 /\ srv.settings = s.start.settings /\ srv.enabled = s.start.enabled
      /\ srv.next = (IF s.start.enabled THEN 1 ELSE 0) /\ srv.arm = 1
      /\ srv.run = (IF srv.state = "idle" THEN 0 ELSE 1)
  BY <1>2
<1>4. /\ stream.open = "no" /\ stream.queue = << >> /\ stream.unsent = {} /\ Range(<< >>) = {}
      /\ \A r \in reqs : r.pc = "handled" /\ r.kind = "status" /\ r.seq = 1
  BY DEF PageInit, Range
<1>5. Telling = {}
  BY <1>4 DEF Telling, Messages, Answering
<1>6. /\ page.next = None /\ page.started = 0 /\ page.status = "idle" /\ page.loaded = << >> /\ ~page.due
      /\ page.live = 0
      /\ known.seq = 1 /\ known.shown = 0 /\ known.seen = 0
  BY DEF PageInit
<1>7. InLimits(srv.settings)
  <2>1. SettingsOK(s.start.settings) /\ ServerNormalized(s.start.settings) = s.start.settings
    BY SettingsAssumption
  <2>2. InLimits(ServerNormalized(s.start.settings))
    BY <2>1, ServerPasses
  <2>. QED  BY <1>3, <2>1, <2>2
<1>8. StoredInv
  BY <1>3, <1>4, <1>5, <1>6, <1>7 DEF StoredInv
<1>9. RunsOK
  BY <1>3, <1>5 DEF RunsOK, Active
<1>10. PageRunsOK
  BY <1>3, <1>4, <1>6 DEF PageRunsOK, Active
<1>11. \A t \in Nat : Reaches(t)
  BY <1>4 DEF Reaches
<1>12. PlanInv(1)
  BY <1>5, <1>6, <1>11 DEF PlanInv
<1>13. NextInv(1, 0)
  BY <1>5, <1>6, <1>11 DEF NextInv
<1>14. 1 \in 1..srv.ver /\ 0 \in 0..srv.run
  BY <1>3
<1>. QED  BY <1>8, <1>9, <1>10, <1>12, <1>13, <1>14 DEF SaveInv

-----------------------------------------------------------------------------
(* The steps of the server and of the stream *)

\* A step that leaves the server as it is has the page hear of it all the same.
LEMMA GoesReaches ==
  ASSUME StatusInv, Goes, srv' = srv,
         \A t \in 0..srv.ver : SavesSince(reqs, t) =>
           SavesSince(reqs', t) \/ known'.seen >= t \/ known'.lost >= t
  PROVE  ReachStays
<1>1. Delivered
  BY TellingIs DEF Goes, Quiet, News
<1>2. known'.lost \in Nat /\ known'.seen \in Nat
  BY DEF Goes, Versions
<1>3. /\ srv.ver \in Nat /\ known.lost \in Nat /\ known.seen \in Nat
      /\ \A m \in Messages(stream) : m.ver \in Nat /\ m.ver <= srv.ver
  BY TellingIs DEF Telling
<1>4. ASSUME NEW t \in 0..srv.ver, Reaches(t) PROVE Reaches(t)'
  <2>1. CASE stream.open = "no"
    <3>1. \A m \in Messages(stream') : m.ver \in Nat
      <4>1. Told
        BY TellingIs DEF Goes, Quiet, News
      <4>. QED  BY <4>1, TellingIs DEF Told, Telling
    <3>2. \A m \in Messages(stream') : m.ver >= srv.ver => m.ver >= t
      BY <1>3, <3>1
    <3>. QED  BY <1>1, <1>2, <1>3, <2>1, <3>2 DEF Delivered, Reaches
  <2>2. CASE known.lost >= t \/ known.seen >= t
    BY <1>1, <1>2, <1>3, <2>2 DEF Delivered, Reaches
  <2>3. ASSUME NEW m \in Messages(stream), m.ver >= t PROVE Reaches(t)'
    BY <1>1, <1>2, <1>3, <2>3 DEF Delivered, Reaches
  <2>4. CASE SavesSince(reqs, t)
    BY <2>4 DEF Reaches
  <2>. QED  BY <1>4, <2>1, <2>2, <2>3, <2>4 DEF Reaches
<1>. QED  BY <1>4 DEF ReachStays

LEMMA SavesStay ==
  ASSUME Moves, srv.ver \in Nat, srv'.ver \in Nat, srv'.ver >= srv.ver, NEW t \in 0..srv.ver,
         SavesSince(reqs, t)
  PROVE  SavesSince(reqs', t)
<1>1. PICK x \in reqs : /\ x.kind = "save" /\ x.own >= t /\ x.pc \in {"handled", "answered"}
                        /\ x.pc = "answered" => x.answer[1].ver >= t
  BY DEF SavesSince
<1>2. CASE reqs' = reqs
  BY <1>2
<1>3. ASSUME NEW r \in reqs, NEW q, reqs' = Replace(r, q), Becomes(r, q)
      PROVE  SavesSince(reqs', t)
  <2>1. srv'.ver >= t
    OBVIOUS
  <2>2. CASE x = r
    BY <1>1, <1>3, <2>1, <2>2 DEF SavesSince, Becomes, Replace
  <2>3. CASE x # r
    BY <1>1, <1>3, <2>3 DEF SavesSince, Replace
  <2>. QED  BY <2>2, <2>3
<1>. QED  BY <1>2, <1>3 DEF Moves

\* A step of the server without a message
LEMMA SilentReaches ==
  ASSUME StatusInv, Moves, stream' = stream, known' = known, srv'.ver \in Nat, srv'.ver >= srv.ver
  PROVE  ReachStays
<1>1. ASSUME NEW t \in 0..srv.ver, Reaches(t) PROVE Reaches(t)'
  BY <1>1, SavesStay, TellingIs DEF Reaches
<1>. QED  BY <1>1 DEF ReachStays

\* A broadcast reaches the page, or counts as lost.
LEMMA BroadcastReaches ==
  ASSUME StatusInv, NEW s, s.ver = srv.ver + 1, stream' = Sending(s), known'.lost = PassedBy(s)
  PROVE  /\ \A t \in 0..srv.ver + 1 : Reaches(t)'
         /\ Messages(stream') \subseteq Messages(stream) \cup {Snapshot(s, None)}
<1>1. StreamOK(stream)
  BY ShapeIs DEF StatusInv
<1>2. /\ StreamOK(stream') /\ stream'.open = stream.open
      /\ Messages(stream') \subseteq Messages(stream) \cup {Snapshot(s, None)}
      /\ stream.open = "on" => Snapshot(s, None) \in Messages(stream')
  BY <1>1, SendingIs
<1>3. Snapshot(s, None).ver = s.ver
  BY DEF Snapshot
<1>4. srv.ver \in Nat
  BY TellingIs
<1>5. ASSUME NEW t \in 0..srv.ver + 1 PROVE Reaches(t)'
  <2>1. CASE stream.open = "no"
    BY <1>2, <2>1 DEF Reaches
  <2>2. CASE stream.open = "on"
    BY <1>2, <1>3, <1>4, <2>2 DEF Reaches
  <2>3. CASE stream.open = "closed"
    BY <1>4, <2>3 DEF Reaches, PassedBy
  <2>. QED  BY <1>1, <2>1, <2>2, <2>3 DEF StreamOK
<1>. QED  BY <1>2, <1>5

LEMMA KnownAway ==
  ASSUME DOMAIN known = KnownFields, page' = page, srv'.ver >= srv.ver,
         \/ known' = known
         \/ \E lost : known' = [known EXCEPT !.lost = lost]
         \/ \E lost, foreign : known' = [known EXCEPT !.lost = lost, !.foreign = foreign]
  PROVE  Away
BY DEF Away, KnownFields

\* The run goes on as it is, or with its accounts listed, and the server tells so.
LEMMA BroadcastOn ==
  ASSUME StatusInv, Away, Moves, Answering(reqs') \subseteq Answering(reqs),
         NEW s, s.ver = srv.ver + 1, s.run = srv.run, SetupOf(s) = SetupOf(srv),
         s.next = srv.next, s.arm = srv.arm, s.state \in Active => srv.state \in Active,
         s.listed => srv.listed \/ srv.state \in Active,
         srv' = s, stream' = Sending(s), known'.lost = PassedBy(s)
  PROVE  GoesOn
<1>1. /\ \A t \in 0..srv.ver + 1 : Reaches(t)'
      /\ Messages(stream') \subseteq Messages(stream) \cup {Snapshot(s, None)}
  BY BroadcastReaches
<1>2. srv.ver \in Nat
  BY TellingIs
<1>3. \A t \in 0..srv.ver : Reaches(t)'
  BY <1>1, <1>2
<1>4. \A m \in Telling' : m \in Telling \/ (m.ver \in srv.ver..srv'.ver /\ TellsAs(m, srv') /\ m.next = srv'.next)
  <2>1. ASSUME NEW m \in Telling', m \notin Telling
        PROVE  m.ver \in srv.ver..srv'.ver /\ TellsAs(m, srv') /\ m.next = srv'.next
    <3>1. m = Snapshot(s, None)
      BY <1>1, <2>1 DEF Telling
    <3>. QED  BY <1>2, <3>1 DEF Snapshot, TellsAs, SetupOf
  <2>. QED  BY <2>1
<1>5. ReachStays
  BY <1>3 DEF ReachStays
<1>. QED  BY <1>3, <1>4, <1>5 DEF GoesOn

\* The run, the settings and the timer after what others do
LEMMA ControlOn ==
  ASSUME DOMAIN srv = ServerFields, NEW s, \E kind : s = Control(srv, kind), s # srv
  PROVE  /\ s.ver = srv.ver + 1 /\ s.run = srv.run /\ SetupOf(s) = SetupOf(srv)
         /\ s.next = srv.next /\ s.arm = srv.arm /\ s.listed = srv.listed /\ srv.state \in Active
<1>1. PICK kind : s = Control(srv, kind)
  OBVIOUS
<1>2. srv.state \in Active /\ \E state : s = Changed([srv EXCEPT !.state = state])
  BY <1>1 DEF Control, Active
<1>. QED  BY <1>2 DEF Changed, ServerFields, SetupOf

LEMMA ActedOn ==
  ASSUME DOMAIN srv = ServerFields, NEW s, \E item, action, succeeds : s = Acted(srv, item, action, succeeds)
  PROVE  /\ s.ver = srv.ver + 1 /\ s.run = srv.run /\ SetupOf(s) = SetupOf(srv)
         /\ s.next = srv.next /\ s.arm = srv.arm /\ s.listed = srv.listed /\ s.state = srv.state
<1>1. \E rows : s = Changed([srv EXCEPT !.rows = rows])
  BY DEF Acted
<1>. QED  BY <1>1 DEF Changed, ServerFields, SetupOf

LEMMA StartOn ==
  ASSUME DOMAIN srv = ServerFields, NEW manual, srv' = StartRun(srv, manual)
  PROVE  /\ srv'.ver = srv.ver + 1 /\ srv'.run = srv.run + 1 /\ ~srv'.listed
         /\ SetupOf(srv') = SetupOf(srv) /\ srv'.next = srv.next /\ srv'.arm = srv.arm
BY DEF StartRun, Changed, ServerFields, SetupOf

LEMMA GoesForward ==
  ASSUME StatusInv, Goes
  PROVE  srv'.ver \in Nat /\ srv'.ver >= srv.ver /\ DOMAIN page' = PageFields /\ DOMAIN known' = KnownFields
BY TellingIs DEF Goes, Quiet, News, Versions, Shape

\* A request whose handler changes nothing but the request, or that is answered
LEMMA HandleKind ==
  ASSUME StatusInv, StoredInv, Goes, NEW r \in reqs, Handle(r)
  PROVE  GoesOn \/ Begins \/ Stores(r)
<1>1. /\ DOMAIN r = RequestFields /\ DOMAIN srv = ServerFields /\ srv.ver \in Nat
      /\ DOMAIN known = KnownFields /\ srv'.ver \in Nat /\ srv'.ver >= srv.ver
      /\ r.pc = "asked" /\ page' = page
  BY GoesForward DEF StatusInv, Shape, Versions, Handle
<1>2. ASSUME r.kind # "save", NEW pc \in {"refused", "handled"}, NEW own,
             \/ reqs' = Replace(r, [r EXCEPT !.pc = pc])
             \/ reqs' = Replace(r, [r EXCEPT !.pc = pc, !.own = own])
      PROVE  Moves /\ Answering(reqs') \subseteq Answering(reqs)
  <2>1. \A q \in {[r EXCEPT !.pc = pc], [r EXCEPT !.pc = pc, !.own = own]} :
          Becomes(r, q) /\ q.pc # "answered"
    BY <1>1, <1>2 DEF Becomes, RequestFields
  <2>2. PICK q : reqs' = Replace(r, q) /\ Becomes(r, q) /\ q.pc # "answered"
    BY <1>2, <2>1
  <2>. QED  BY <2>2 DEF Moves, Answering, Replace
<1>3. ASSUME NEW s, r.kind # "save", reqs' = Replace(r, [r EXCEPT !.pc = "handled", !.own = s.ver]),
             Broadcasting(s), s.ver = srv.ver + 1, s.run = srv.run, SetupOf(s) = SetupOf(srv),
             s.next = srv.next, s.arm = srv.arm, s.state \in Active => srv.state \in Active,
             s.listed = srv.listed
      PROVE  GoesOn
  <2>1. Moves /\ Answering(reqs') \subseteq Answering(reqs)
    BY <1>2, <1>3
  <2>2. srv' = s /\ stream' = Sending(s) /\ known' = [known EXCEPT !.lost = PassedBy(s)]
    BY <1>3 DEF Broadcasting
  <2>3. Away /\ known'.lost = PassedBy(s)
    BY <1>1, <2>2, KnownAway DEF KnownFields
  <2>. QED  BY <1>3, <2>1, <2>2, <2>3, BroadcastOn
<1>4. ASSUME srv' = srv, stream' = stream, known' = known, Moves, Answering(reqs') \subseteq Answering(reqs)
      PROVE  GoesOn
  <2>1. Away
    BY <1>1, <1>4, KnownAway
  <2>2. ReachStays
    BY <1>1, <1>4, SilentReaches
  <2>. QED  BY <1>4, <2>1, <2>2 DEF GoesOn, Telling
<1>5. CASE r.kind = "run"
  <2>1. stream' = stream /\ known' = known
    BY <1>5 DEF Handle
  <2>2. CASE srv.state \in Active
    <3>1. reqs' = Replace(r, [r EXCEPT !.pc = "refused"]) /\ srv' = srv
      BY <1>5, <2>2 DEF Handle
    <3>. QED  BY <1>2, <1>4, <1>5, <2>1, <3>1
  <2>3. CASE srv.state \notin Active
    <3>1. reqs' = Replace(r, [r EXCEPT !.pc = "handled"]) /\ srv' = StartRun(srv, TRUE)
      BY <1>5, <2>3 DEF Handle
    <3>2. Moves /\ Answering(reqs') \subseteq Answering(reqs)
      BY <1>2, <1>5, <3>1
    <3>3. Away
      BY <1>1, <2>1, KnownAway
    <3>4. ReachStays
      BY <1>1, <2>1, <3>2, SilentReaches
    <3>. QED  BY <1>1, <2>1, <3>1, <3>2, <3>3, <3>4, StartOn DEF Begins, Telling
  <2>. QED  BY <2>2, <2>3
<1>6. CASE r.kind \in {"pause", "resume", "stop"}
  <2>1. PICK s : /\ s = Control(srv, r.kind)
                 /\ reqs' = Replace(r, [r EXCEPT !.pc = "handled", !.own = s.ver])
                 /\ IF s = srv THEN UNCHANGED <<srv, stream, known>> ELSE Broadcasting(s)
    BY <1>6 DEF Handle
  <2>2. CASE s = srv
    <3>1. Moves /\ Answering(reqs') \subseteq Answering(reqs)
      BY <1>2, <1>6, <2>1
    <3>. QED  BY <1>4, <2>1, <2>2, <3>1
  <2>3. CASE s # srv
    BY <1>1, <1>3, <1>6, <2>1, <2>3, ControlOn
  <2>. QED  BY <2>2, <2>3
<1>7. CASE r.kind = "act"
  <2>1. PICK s : /\ \E item, action, succeeds : s = Acted(srv, item, action, succeeds)
                 /\ reqs' = Replace(r, [r EXCEPT !.pc = "handled", !.own = s.ver])
                 /\ Broadcasting(s)
    BY <1>7 DEF Handle
  <2>. QED  BY <1>1, <1>3, <1>7, <2>1, ActedOn
<1>8. CASE r.kind = "save"
  <2>1. /\ srv' = Updated(srv, r.body[1]) /\ stream' = stream /\ known' = known
        /\ reqs' = Replace(r, [r EXCEPT !.pc = "handled", !.own = srv'.ver])
    BY <1>8 DEF Handle
  <2>2. PICK q : q = [r EXCEPT !.pc = "handled", !.own = srv'.ver]
    OBVIOUS
  <2>3. q.seq = r.seq /\ q.kind = r.kind /\ q.body = r.body /\ q.pc = "handled" /\ q.own = srv'.ver
    BY <1>1, <2>2 DEF RequestFields
  <2>4. Away
    BY <1>1, <2>1, KnownAway
  <2>5. Telling' \subseteq Telling
    BY <2>1, <2>2, <2>3 DEF Telling, Answering, Replace
  <2>6. srv'.ver = srv.ver + 1 /\ srv'.settings = ServerNormalized(r.body[1].settings)
        /\ srv'.enabled = r.body[1].enabled
    BY <1>1, <2>1, UpdatedIs
  <2>7. /\ srv'.run = srv.run /\ srv'.state = srv.state /\ srv'.listed = srv.listed
        /\ srv'.arm = IF ~r.body[1].enabled \/ r.body[1].next > 0 THEN srv.arm ELSE srv.arm + 1
        /\ srv'.next = IF ~r.body[1].enabled THEN 0 ELSE IF r.body[1].next > 0 THEN r.body[1].next
                       ELSE IF srv.next > 0 THEN srv.next ELSE srv'.arm
    BY <1>1, <2>1, UpdatedNext
  <2>8. ASSUME srv.next \in Nat, srv.arm \in Nat, r.body[1].next \in Nat
        PROVE  /\ srv'.next \in Nat /\ srv'.arm \in Nat
               /\ srv'.enabled => srv'.next > 0
               /\ ~srv'.enabled => srv'.next = 0
    BY <2>6, <2>7, <2>8
  <2>. QED  BY <1>1, <1>8, <2>1, <2>2, <2>3, <2>4, <2>5, <2>6, <2>7, <2>8 DEF Stores
<1>. QED  BY <1>5, <1>6, <1>7, <1>8 DEF Handle

LEMMA AnswerRequestKind ==
  ASSUME StatusInv, NEW r \in reqs, AnswerRequest(r)
  PROVE  GoesOn
<1>1. PICK m, details : /\ m = Snapshot(srv, details)
                        /\ reqs' = Replace(r, [r EXCEPT !.pc = "answered", !.answer = Set(m)])
  BY DEF AnswerRequest
<1>2. /\ DOMAIN r = RequestFields /\ DOMAIN known = KnownFields /\ r.pc = "handled"
      /\ UNCHANGED <<srv, stream, page, known>> /\ srv.ver \in Nat
  BY TellingIs DEF StatusInv, Shape, AnswerRequest
<1>3. PICK q : q = [r EXCEPT !.pc = "answered", !.answer = Set(m)]
  OBVIOUS
<1>4. /\ q.seq = r.seq /\ q.kind = r.kind /\ q.body = r.body /\ q.own = r.own /\ q.pc = "answered"
      /\ q.answer[1] = m
  BY <1>2, <1>3 DEF RequestFields, Set
<1>5. /\ m.ver = srv.ver /\ TellsAs(m, srv) /\ m.next = srv.next
  BY <1>1 DEF Snapshot, TellsAs, SetupOf
<1>6. Moves
  BY <1>1, <1>2, <1>3, <1>4, <1>5 DEF Moves, Becomes
<1>7. Telling' \subseteq Telling \cup {m}
  BY <1>1, <1>2, <1>3, <1>4 DEF Telling, Answering, Replace
<1>8. Away
  BY <1>2, KnownAway
<1>9. ReachStays
  BY <1>2, <1>6, SilentReaches
<1>. QED  BY <1>2, <1>5, <1>6, <1>7, <1>8, <1>9 DEF GoesOn

LEMMA ListsKind ==
  ASSUME StatusInv, ListsAccounts
  PROVE  GoesOn
<1>1. PICK s : /\ s = Changed([srv EXCEPT !.listed = TRUE, !.listedAt = srv.ver + 1])
               /\ Broadcasting(s) /\ UNCHANGED <<reqs, page>> /\ srv.state = "running"
  BY DEF ListsAccounts
<1>2. DOMAIN srv = ServerFields /\ DOMAIN known = KnownFields /\ srv.ver \in Nat
  BY TellingIs DEF StatusInv, Shape
<1>3. /\ s.ver = srv.ver + 1 /\ s.run = srv.run /\ SetupOf(s) = SetupOf(srv) /\ s.next = srv.next
      /\ s.arm = srv.arm /\ s.state = srv.state /\ srv.state \in Active
  BY <1>1, <1>2 DEF Changed, ServerFields, SetupOf, Active
<1>4. srv' = s /\ stream' = Sending(s) /\ known' = [known EXCEPT !.lost = PassedBy(s)]
  BY <1>1 DEF Broadcasting
<1>5. Away /\ known'.lost = PassedBy(s) /\ Moves
  <2>1. srv'.ver >= srv.ver
    BY <1>2, <1>3, <1>4
  <2>. QED  BY <1>1, <1>2, <1>4, <2>1, KnownAway DEF Moves, KnownFields
<1>. QED  BY <1>1, <1>3, <1>4, <1>5, BroadcastOn

LEMMA OthersKind ==
  ASSUME StatusInv, OthersAct \/ \E kind \in {"pause", "resume", "stop"} : OthersControl(kind)
  PROVE  GoesOn
<1>1. DOMAIN srv = ServerFields /\ DOMAIN known = KnownFields /\ srv.ver \in Nat
      /\ UNCHANGED <<reqs, page>>
  BY TellingIs DEF StatusInv, Shape, OthersAct, OthersControl
<1>2. PICK s : /\ srv' = s /\ stream' = Sending(s)
               /\ \/ known' = [known EXCEPT !.lost = PassedBy(s)]
                  \/ \E foreign : known' = [known EXCEPT !.lost = PassedBy(s), !.foreign = foreign]
               /\ \/ s # srv /\ \E kind : s = Control(srv, kind)
                  \/ \E item, action, succeeds : s = Acted(srv, item, action, succeeds)
  BY DEF OthersAct, OthersControl, Broadcasting
<1>3. /\ s.ver = srv.ver + 1 /\ s.run = srv.run /\ SetupOf(s) = SetupOf(srv) /\ s.next = srv.next
      /\ s.arm = srv.arm /\ s.listed = srv.listed /\ (s.state \in Active => srv.state \in Active)
  BY <1>1, <1>2, ControlOn, ActedOn
<1>4. Away /\ known'.lost = PassedBy(s) /\ Moves
  <2>1. srv'.ver >= srv.ver
    <3>1. srv' = s
      BY <1>2
    <3>. QED  BY <1>1, <1>3, <3>1
  <2>. QED  BY <1>1, <1>2, <2>1, KnownAway DEF Moves, KnownFields
<1>. QED  BY <1>1, <1>2, <1>3, <1>4, BroadcastOn

LEMMA StartsKind ==
  ASSUME StatusInv, TimerStarts \/ OthersStart
  PROVE  Begins
<1>1. PICK manual : srv' = StartRun(srv, manual)
  BY DEF TimerStarts, OthersStart
<1>2. DOMAIN srv = ServerFields /\ DOMAIN known = KnownFields /\ srv.ver \in Nat
      /\ UNCHANGED <<stream, reqs, page, known>>
  BY TellingIs DEF StatusInv, Shape, TimerStarts, OthersStart
<1>3. /\ srv'.ver = srv.ver + 1 /\ srv'.run = srv.run + 1 /\ ~srv'.listed
      /\ SetupOf(srv') = SetupOf(srv) /\ srv'.next = srv.next /\ srv'.arm = srv.arm
  BY <1>1, <1>2, StartOn
<1>4. Away /\ Moves /\ srv'.ver \in Nat
  BY <1>2, <1>3, KnownAway DEF Moves
<1>5. ReachStays
  BY <1>2, <1>3, <1>4, SilentReaches
<1>. QED  BY <1>2, <1>3, <1>4, <1>5 DEF Begins, Telling

LEMMA FinishKind ==
  ASSUME StatusInv, Finish
  PROVE  GoesOn \/ Rearms
<1>0. PICK state \in IF srv.state = "stopping" THEN {"stopped", "completed"}
                     ELSE IF srv.listed THEN {"completed", "partial"} ELSE {"failed"},
        rows \in IF srv.listed THEN Outcomes ELSE {<< >>} :
          LET s == Changed([srv EXCEPT !.state = state, !.finished = srv.run, !.rows = rows,
                                       !.failed = state # "completed"])
              rearm == s.enabled /\ ~s.manual
          IN  /\ (state = "completed" => srv.listed)
              /\ srv' = IF rearm THEN Changed([s EXCEPT !.arm = @ + 1, !.next = s.arm + 1]) ELSE s
              /\ stream' = Sending(s)
              /\ known' = [known EXCEPT !.lost = PassedBy(s)]
  BY Zenon DEF Finish
<1>1. PICK s :
        /\ s = Changed([srv EXCEPT !.state = state, !.finished = srv.run, !.rows = rows,
                                    !.failed = state # "completed"])
        /\ \/ srv' = s
           \/ s.enabled /\ srv' = Changed([s EXCEPT !.arm = @ + 1, !.next = s.arm + 1])
        /\ stream' = Sending(s)
        /\ known' = [known EXCEPT !.lost = PassedBy(s)]
        /\ state \in {"stopped", "completed", "partial", "failed"}
  BY <1>0
<1>2. /\ DOMAIN srv = ServerFields /\ DOMAIN known = KnownFields /\ srv.ver \in Nat
      /\ UNCHANGED <<reqs, page>> /\ srv.state \in Active
  BY TellingIs DEF StatusInv, Shape, Finish
<1>3. /\ DOMAIN s = ServerFields
      /\ s.ver = srv.ver + 1 /\ s.run = srv.run /\ SetupOf(s) = SetupOf(srv) /\ s.next = srv.next
      /\ s.arm = srv.arm /\ s.state = state /\ s.listed = srv.listed /\ s.enabled = srv.enabled
  BY <1>1, <1>2 DEF Changed, ServerFields, SetupOf
<1>4. s.state \notin Active
  BY <1>1, <1>3 DEF Active
<1>5. known'.lost = PassedBy(s) /\ Moves
  BY <1>1, <1>2 DEF Moves, KnownFields
<1>6. CASE srv' = s
  <2>2. srv'.ver >= srv.ver
    BY <1>2, <1>3, <1>6
  <2>1. Away
    BY <1>1, <1>2, <2>2, KnownAway
  <2>. QED  BY <1>1, <1>2, <1>3, <1>4, <1>5, <1>6, <2>1, BroadcastOn
<1>7. CASE s.enabled /\ srv' = Changed([s EXCEPT !.arm = @ + 1, !.next = s.arm + 1])
  <2>1. /\ srv'.ver = srv.ver + 2 /\ srv'.run = srv.run /\ SetupOf(srv') = SetupOf(srv)
        /\ srv'.listed = srv.listed /\ srv'.state = state
        /\ srv'.next = srv.arm + 1 /\ srv'.arm = srv.arm + 1
    <3>1. /\ srv'.ver = s.ver + 1 /\ srv'.run = s.run /\ SetupOf(srv') = SetupOf(s)
          /\ srv'.listed = s.listed /\ srv'.state = s.state
          /\ srv'.next = s.arm + 1 /\ srv'.arm = s.arm + 1
      BY <1>3, <1>7 DEF Changed, ServerFields, SetupOf
    <3>. QED  BY <1>2, <1>3, <3>1
  <2>6. srv'.ver >= srv.ver
    BY <1>2, <2>1
  <2>2. Away
    BY <1>1, <1>2, <2>6, KnownAway
  <2>3. /\ \A t \in 0..srv.ver + 1 : Reaches(t)'
        /\ Messages(stream') \subseteq Messages(stream) \cup {Snapshot(s, None)}
    BY <1>1, <1>3, <1>5, BroadcastReaches
  <2>4. /\ Snapshot(s, None).ver = srv.ver + 1 /\ Snapshot(s, None).next = srv.next
        /\ TellsAs(Snapshot(s, None), srv')
    BY <1>3, <2>1 DEF Snapshot, TellsAs, SetupOf
  <2>5. \A m \in Telling' :
          m \in Telling \/ (m.ver = srv.ver + 1 /\ TellsAs(m, srv') /\ m.next = srv.next)
    BY <1>2, <2>3, <2>4 DEF Telling
  <2>. QED  BY <1>2, <1>3, <1>4, <1>7, <2>1, <2>2, <2>3, <2>5 DEF Rearms
<1>. QED  BY <1>1, <1>6, <1>7

\* The stream, which leaves the server as it is
LEMMA StreamKind ==
  ASSUME StatusInv, Goes,
         Connect \/ SocketCloses \/ \E m \in stream.unsent : Send(m) \/ Drop(m)
  PROVE  GoesOn
<1>1. /\ DOMAIN known = KnownFields /\ StreamOK(stream) /\ UNCHANGED <<srv, reqs, page>>
      /\ srv.ver \in Nat /\ DOMAIN stream = {"open", "queue", "unsent"}
  BY ShapeIs, TellingIs DEF StatusInv, Connect, SocketCloses, Send, Drop, StreamOK, Shape
<1>2. Away /\ Moves
  <2>1. known' = known \/ \E lost : known' = [known EXCEPT !.lost = lost]
    BY DEF Connect, SocketCloses, Send, Drop
  <2>2. srv'.ver >= srv.ver
    BY <1>1
  <2>. QED  BY <1>1, <2>1, <2>2, KnownAway DEF Moves
<1>3. ReachStays
  BY <1>1, GoesReaches
<1>4. \A m \in Messages(stream') : m \in Messages(stream) \/ m = Snapshot(srv, None)
  <2>1. Range(<< >>) = {} /\ \A m : Range(<<m>>) = {m}
    BY DEF Range
  <2>2. CASE Connect
    <3>1. stream'.queue = <<Snapshot(srv, None)>> /\ stream'.unsent = stream.unsent
      BY <1>1, <2>2 DEF Connect
    <3>. QED  BY <2>1, <3>1 DEF Messages
  <2>3. CASE SocketCloses
    BY <2>1, <2>3 DEF SocketCloses, Messages
  <2>4. ASSUME NEW m \in stream.unsent, Send(m) PROVE <1>4!:
    <3>1. /\ stream'.unsent = stream.unsent \ {m}
          /\ stream'.queue = stream.queue \/ stream'.queue = Append(stream.queue, m)
      BY <1>1, <2>4 DEF Send
    <3>2. Range(Append(stream.queue, m)) = Range(stream.queue) \cup {m}
      BY <1>1, RangeOfQueue DEF StreamOK
    <3>. QED  BY <3>1, <3>2 DEF Messages
  <2>5. ASSUME NEW m \in stream.unsent, Drop(m) PROVE <1>4!:
    <3>1. stream'.unsent = stream.unsent \ {m} /\ stream'.queue = stream.queue
      BY <1>1, <2>5 DEF Drop
    <3>. QED  BY <3>1 DEF Messages
  <2>. QED  BY <2>2, <2>3, <2>4, <2>5
<1>5. Snapshot(srv, None).ver = srv.ver /\ TellsAs(Snapshot(srv, None), srv) /\ Snapshot(srv, None).next = srv.next
  BY DEF Snapshot, TellsAs, SetupOf
<1>. QED  BY <1>1, <1>2, <1>3, <1>4, <1>5 DEF GoesOn, Telling

-----------------------------------------------------------------------------
(* What the page takes in *)

\* The rest of what an answer or a message changes
LEMMA AppliedTakes ==
  ASSUME NEW p, DOMAIN p = PageFields, NEW m, NEW a, a = Applied(p, m)
  PROVE  /\ a.plan = PlanOf(m) /\ a.next = Set(m.next)
         /\ a.status = ProgressStatus(m) /\ a.started = m.run /\ a.listed = m.listed
         /\ a.filter = p.filter /\ a.pageNo = p.pageNo
         /\ a.loaded = p.loaded /\ a.live = p.live /\ a.due = p.due
<1> DEFINE refreshed == IF m.state \notin Active /\ m.finished > 0 THEN m.finished ELSE p.refreshed
           shown == IF m.details = None THEN p.result ELSE RunResult(m)
           taken == NormalizeConfigurableSettings(m.settings)
<1>1. a = [p EXCEPT !.settings = taken, !.draft = DraftOf(taken), !.plan = PlanOf(m),
                    !.next = Set(m.next), !.status = ProgressStatus(m), !.runStatus = RunStatus(m),
                    !.started = m.run, !.listed = m.listed, !.result = shown,
                    !.refreshed = refreshed]
  BY DEF Applied, PlanOf
<1> HIDE DEF taken, shown, refreshed
<1>. QED  BY <1>1 DEF PageFields

LEMMA SeenClears ==
  ASSUME NEW p, NEW m, DOMAIN known = KnownFields, NEW k, k = Seen(p, m)
  PROVE  k.local = FALSE /\ k.edited = FALSE /\ k.missed = known.missed /\ k.seq = known.seq
<1> DEFINE seen == Max({known.seen, m.ver})
           typed == IF p.open /\ Typed(Applied(p, m)) # Typed(p) THEN None ELSE known.typed
<1>1. k = [known EXCEPT !.shown = m.ver, !.seen = seen, !.local = FALSE, !.failed = FALSE,
                !.typed = typed, !.edited = FALSE,
                !.emptied = known.emptied /\ m.details = None,
                !.table = IF m.details = None THEN @ ELSE m.ver,
                !.newest = IF m.details = None THEN @ ELSE Max({@, m.ver}),
                !.opts = IF m.details = None THEN @ ELSE m.details[1].opts]
  BY DEF Seen
<1> HIDE DEF seen, typed
<1>. QED  BY <1>1 DEF KnownFields

\* The page takes in m, with the effects that follow; q is the page it takes it
\* in on, which has noted the fetch as done or is as it was.
LEMMA TakesIn ==
  ASSUME NEW m, NEW q, NEW a, DOMAIN a = PageFields, page' = Rendered(q, a),
         \/ q.loaded = page.loaded /\ q.live = page.live
         \/ q.loaded = Key(page) /\ q.live = 0 /\ Noted(m),
         Fetching(q) = Fetching(page), q.due = page.due,
         a.plan = PlanOf(m), a.next = Set(m.next), a.status = ProgressStatus(m),
         a.started = m.run, a.listed = m.listed, a.filter = q.filter, a.pageNo = q.pageNo,
         a.loaded = q.loaded, a.live = q.live, a.due = q.due
  PROVE  /\ page'.started = m.run /\ page'.listed = m.listed /\ page'.status = ProgressStatus(m)
         /\ page'.next = Set(m.next) /\ page'.plan = PlanOf(m) /\ page'.settings = a.settings
         /\ page'.loaded = page.loaded \/ (page'.loaded = Key(page) /\ Noted(m))
         /\ Refetches(page'.live = 0 /\ Noted(m))
<1> DEFINE p == Rendered(q, a)
<1>1. /\ p.settings = a.settings /\ p.plan = a.plan /\ p.next = a.next /\ p.loaded = a.loaded
      /\ p.status = a.status /\ p.started = a.started /\ p.listed = a.listed
      /\ p.filter = a.filter /\ p.pageNo = a.pageNo
      /\ IF Fetching(q) # Fetching(a)
         THEN p.live = 0 /\ p.due = (~Held(a) /\ Key(a) # a.loaded)
         ELSE p.live = a.live /\ p.due = a.due
  BY RenderedIs
<1> HIDE DEF p
<1>2. page' = p
  BY DEF p
<1>3. Held(p) = Held(a) /\ Key(p) = Key(a) /\ Fetching(p) = Fetching(a)
  BY <1>1 DEF Held, Key, Fetching
<1>4. \/ p.live = 0 /\ p.due = (~Held(p) /\ Key(p) # p.loaded)
      \/ /\ Fetching(p) = Fetching(page) /\ p.due = page.due
         /\ p.live = page.live \/ (p.live = 0 /\ Noted(m))
  BY <1>1, <1>3
<1>5. /\ p.started = m.run /\ p.listed = m.listed /\ p.status = ProgressStatus(m)
      /\ p.next = Set(m.next) /\ p.plan = PlanOf(m) /\ p.settings = a.settings
      /\ p.loaded = page.loaded \/ (p.loaded = Key(page) /\ Noted(m))
  BY <1>1
<1>. QED  BY <1>2, <1>4, <1>5 DEF Refetches

LEMMA ReceiveKind ==
  ASSUME StatusInv, srv' = srv, Telling' \subseteq Telling, ReachStays, reqs' \subseteq reqs,
         NEW m \in Telling, NEW q, DOMAIN q = PageFields, Receive(q, m),
         Fetching(q) = Fetching(page), q.filter = page.filter, q.due = page.due,
         \/ q.loaded = page.loaded /\ q.live = page.live
         \/ q.loaded = Key(page) /\ q.live = 0 /\ Noted(m),
         \A x \in reqs : x \notin reqs' /\ x.kind = "details" /\ x.seq = page.live =>
           page.live # 0 /\ Noted(m)
  PROVE  Sees(m)
<1>1. /\ DOMAIN page = PageFields /\ DOMAIN known = KnownFields /\ known.seen \in Nat /\ m.ver \in Nat
  BY TellingIs DEF StatusInv, Shape
<1> DEFINE a == Applied(q, m)
           k == Seen(q, m)
<1>2. DOMAIN a = PageFields /\ a.settings = NormalizeConfigurableSettings(m.settings)
  BY AppliedIs
<1>3. /\ a.plan = PlanOf(m) /\ a.next = Set(m.next) /\ a.status = ProgressStatus(m)
      /\ a.started = m.run /\ a.listed = m.listed /\ a.filter = q.filter /\ a.pageNo = q.pageNo
      /\ a.loaded = q.loaded /\ a.live = q.live /\ a.due = q.due
  BY AppliedTakes
<1>4. k.shown = m.ver /\ k.seen \in Nat /\ k.seen >= m.ver /\ k.seen >= known.seen
  BY <1>1, SeenIs
<1>5. k.missed = known.missed /\ k.seq = known.seq
  BY <1>1, SeenClears
<1>6. page' = Rendered(q, a) /\ known' = k
  BY DEF Receive
<1> HIDE DEF a, k
<1>7. /\ page'.started = m.run /\ page'.listed = m.listed /\ page'.status = ProgressStatus(m)
      /\ page'.next = Set(m.next) /\ page'.plan = PlanOf(m) /\ page'.settings = a.settings
      /\ page'.loaded = page.loaded \/ (page'.loaded = Key(page) /\ Noted(m))
      /\ Refetches(page'.live = 0 /\ Noted(m))
  <2>1. \/ q.loaded = page.loaded /\ q.live = page.live
        \/ q.loaded = Key(page) /\ q.live = 0 /\ Noted(m)
    OBVIOUS
  <2>2. page' = Rendered(q, a) /\ DOMAIN a = PageFields
    BY <1>2, <1>6
  <2>. QED  BY <1>1, <1>3, <2>1, <2>2, TakesIn
<1>. QED  BY <1>2, <1>4, <1>5, <1>6, <1>7 DEF Sees

\* An answer the page takes in is seen, so nothing the page was to hear of is lost.
LEMMA AnswerReaches ==
  ASSUME StatusInv, Goes, srv' = srv, stream' = stream, NEW r \in reqs, r.pc = "answered",
         reqs' = reqs \ {r}, known'.seen \in Nat, known'.seen >= r.answer[1].ver
  PROVE  ReachStays /\ Telling' \subseteq Telling /\ r.answer[1] \in Telling
<1>1. r.answer[1] \in Telling /\ r.answer[1].ver \in Nat /\ srv.ver \in Nat
  BY AnswerIs, TellingIs
<1>2. Answering(reqs') \subseteq Answering(reqs)
  BY DEF Answering
<1>3. ASSUME NEW t \in 0..srv.ver, SavesSince(reqs, t)
      PROVE  SavesSince(reqs', t) \/ known'.seen >= t
  <2>1. PICK x \in reqs : /\ x.kind = "save" /\ x.own >= t /\ x.pc \in {"handled", "answered"}
                          /\ x.pc = "answered" => x.answer[1].ver >= t
    BY <1>3 DEF SavesSince
  <2>2. CASE x = r
    BY <1>1, <2>1, <2>2
  <2>3. CASE x # r
    BY <2>1, <2>3 DEF SavesSince
  <2>. QED  BY <2>2, <2>3
<1>4. ReachStays
  BY <1>3, GoesReaches
<1>. QED  BY <1>1, <1>2, <1>4 DEF Telling

LEMMA ReceiveSeen ==
  ASSUME StatusInv, NEW m \in Telling, NEW q, Receive(q, m)
  PROVE  known'.seen \in Nat /\ known'.seen >= m.ver
<1>1. DOMAIN known = KnownFields /\ known.seen \in Nat /\ m.ver \in Nat
  BY TellingIs DEF StatusInv, Shape
<1>. QED  BY <1>1, SeenIs DEF Receive

LEMMA AnsweredKind ==
  ASSUME StatusInv, Goes, NEW r \in reqs, Answered(r)
  PROVE  \E m \in Telling : Sees(m)
<1>1. /\ r.pc = "answered" /\ r.kind # "details" /\ reqs' = reqs \ {r} /\ stream' = stream
      /\ srv' = srv /\ Receive(page, r.answer[1])
  BY DEF Answered
<1>2. r.answer[1] \in Telling /\ DOMAIN page = PageFields
  BY <1>1, AnswerIs
<1>3. known'.seen \in Nat /\ known'.seen >= r.answer[1].ver
  BY <1>1, <1>2, ReceiveSeen
<1>4. ReachStays /\ Telling' \subseteq Telling
  BY <1>1, <1>3, AnswerReaches
<1>. QED  BY <1>1, <1>2, <1>4, ReceiveKind

LEMMA DetailsKind ==
  ASSUME StatusInv, PageRunsOK, Goes, NEW r \in reqs, DetailsArrive(r)
  PROVE  \E m \in Telling : Sees(m)
<1> DEFINE loaded == [page EXCEPT !.loaded = Key(page), !.live = 0]
           m == r.answer[1]
<1>1. /\ r.pc = "answered" /\ reqs' = reqs \ {r} /\ stream' = stream /\ srv' = srv
      /\ Receive(IF page.live = r.seq THEN loaded ELSE page, m)
  BY DEF DetailsArrive
<1>2. m \in Telling /\ DOMAIN page = PageFields /\ r.seq # 0
  BY <1>1, AnswerIs DEF PageRunsOK
<1>3. /\ DOMAIN loaded = PageFields /\ loaded.loaded = Key(page) /\ loaded.live = 0
      /\ Fetching(loaded) = Fetching(page) /\ loaded.filter = page.filter /\ loaded.due = page.due
  BY <1>2 DEF Fetching, PageFields
<1>4. page.live = r.seq => page.live # 0 /\ Noted(m)
  BY <1>1, <1>2 DEF Noted
<1> HIDE DEF loaded, m
<1>5. PICK q : Receive(q, m) /\ ((q = loaded /\ page.live = r.seq) \/ q = page)
  BY <1>1
<1>6. known'.seen \in Nat /\ known'.seen >= m.ver
  BY <1>2, <1>5, ReceiveSeen
<1>7. ReachStays /\ Telling' \subseteq Telling
  BY <1>1, <1>6, AnswerReaches DEF m
<1>8. \A x \in reqs : x \notin reqs' /\ x.kind = "details" /\ x.seq = page.live =>
        page.live # 0 /\ Noted(m)
  BY <1>1, <1>4
<1>9. CASE q = loaded /\ page.live = r.seq
  BY <1>1, <1>2, <1>3, <1>4, <1>5, <1>7, <1>8, <1>9, ReceiveKind
<1>10. CASE q = page
  BY <1>1, <1>2, <1>5, <1>7, <1>8, <1>10, ReceiveKind
<1>. QED  BY <1>5, <1>9, <1>10

LEMMA MessageKind ==
  ASSUME StatusInv, Goes, MessageArrives
  PROVE  \E m \in Telling : Sees(m)
<1>1. /\ stream.queue # << >> /\ stream' = [stream EXCEPT !.queue = Tail(@)]
      /\ Receive(page, Head(stream.queue)) /\ srv' = srv /\ reqs' = reqs
  BY DEF MessageArrives
<1>2. StreamOK(stream) /\ DOMAIN page = PageFields
  BY ShapeIs DEF StatusInv, Shape
<1>3. Range(stream.queue) = Range(Tail(stream.queue)) \cup {Head(stream.queue)}
  BY <1>1, <1>2, RangeOfQueue DEF StreamOK
<1>4. stream'.queue = Tail(stream.queue) /\ stream'.unsent = stream.unsent
  BY <1>1, <1>2 DEF StreamOK
<1>5. Head(stream.queue) \in Telling /\ Telling' \subseteq Telling
  BY <1>1, <1>3, <1>4 DEF Telling, Messages
<1>6. ReachStays
  BY <1>1, GoesReaches
<1>. QED  BY <1>1, <1>2, <1>5, <1>6, ReceiveKind

\* A dialog that was open shows the browser's copy then: that is what was saved,
\* or it is noted as a copy that differs.
LEMMA SaveKind ==
  ASSUME StatusInv, TypedInv, StoredInv, Goes, NEW r \in reqs, SaveArrives(r)
  PROVE  \E m \in Telling : Sees(m)
<1> DEFINE m == r.answer[1]
           p == [page EXCEPT !.open = FALSE]
           a == Applied(p, m)
           closed == Localised(a, browser)
           applied == Applied(page, m)
           k == Seen(page, m)
           local == page.open /\ browser # r.body[1].settings
<1>1. /\ r.pc = "answered" /\ r.kind = "save" /\ reqs' = reqs \ {r} /\ stream' = stream /\ srv' = srv
      /\ page' = Rendered(page, IF page.open THEN closed ELSE applied)
      /\ known' = [k EXCEPT !.typed = None, !.local = local]
  BY DEF SaveArrives
<1>2. /\ DOMAIN page = PageFields /\ DOMAIN known = KnownFields /\ known.seen \in Nat
      /\ m \in Telling /\ m.ver \in Nat
  BY <1>1, AnswerIs, TellingIs DEF StatusInv, Shape
<1> HIDE DEF m
<1>3. /\ DOMAIN k = KnownFields /\ k.shown = m.ver /\ k.seen \in Nat /\ k.seen >= m.ver
      /\ k.seen >= known.seen
  BY <1>2, SeenIs
<1>4. k.missed = known.missed /\ k.seq = known.seq
  BY <1>2, SeenClears
<1>5. /\ DOMAIN p = PageFields /\ p.filter = page.filter /\ p.pageNo = page.pageNo
      /\ p.loaded = page.loaded /\ p.live = page.live /\ p.due = page.due /\ p.open = FALSE
  BY <1>2 DEF PageFields
<1> HIDE DEF p, k
<1>6. /\ DOMAIN a = PageFields
      /\ a.plan = PlanOf(m) /\ a.next = Set(m.next) /\ a.status = ProgressStatus(m)
      /\ a.started = m.run /\ a.listed = m.listed /\ a.filter = page.filter /\ a.pageNo = page.pageNo
      /\ a.loaded = page.loaded /\ a.live = page.live /\ a.due = page.due
  <2>1. DOMAIN a = PageFields
    BY <1>5, AppliedIs
  <2>2. a = Applied(p, m)
    OBVIOUS
  <2> HIDE DEF a
  <2>3. /\ a.plan = PlanOf(m) /\ a.next = Set(m.next) /\ a.status = ProgressStatus(m)
        /\ a.started = m.run /\ a.listed = m.listed /\ a.filter = p.filter /\ a.pageNo = p.pageNo
        /\ a.loaded = p.loaded /\ a.live = p.live /\ a.due = p.due
    BY <1>5, <2>2, AppliedTakes
  <2>. QED  BY <1>5, <2>1, <2>3
<1>7. /\ DOMAIN applied = PageFields /\ applied.settings = NormalizeConfigurableSettings(m.settings)
      /\ applied.plan = PlanOf(m) /\ applied.next = Set(m.next) /\ applied.status = ProgressStatus(m)
      /\ applied.started = m.run /\ applied.listed = m.listed
      /\ applied.filter = page.filter /\ applied.pageNo = page.pageNo
      /\ applied.loaded = page.loaded /\ applied.live = page.live /\ applied.due = page.due
  <2>1. DOMAIN applied = PageFields /\ applied.settings = NormalizeConfigurableSettings(m.settings)
    BY <1>2, AppliedIs
  <2>2. applied = Applied(page, m)
    OBVIOUS
  <2> HIDE DEF applied
  <2>3. /\ applied.plan = PlanOf(m) /\ applied.next = Set(m.next)
        /\ applied.status = ProgressStatus(m) /\ applied.started = m.run /\ applied.listed = m.listed
        /\ applied.filter = page.filter /\ applied.pageNo = page.pageNo
        /\ applied.loaded = page.loaded /\ applied.live = page.live /\ applied.due = page.due
    BY <1>2, <2>2, AppliedTakes
  <2>. QED  BY <2>1, <2>3
<1> HIDE DEF a, applied
<1>8. /\ DOMAIN closed = PageFields /\ closed.settings = LoadConfigurableSettings(Clean, browser)
      /\ closed.plan = PlanOf(m) /\ closed.next = Set(m.next) /\ closed.status = ProgressStatus(m)
      /\ closed.started = m.run /\ closed.listed = m.listed
      /\ closed.filter = page.filter /\ closed.pageNo = page.pageNo
      /\ closed.loaded = page.loaded /\ closed.live = page.live /\ closed.due = page.due
  BY <1>6, LocalisedIs
<1> HIDE DEF closed
<1>9. PICK n : /\ page' = Rendered(page, n) /\ DOMAIN n = PageFields
               /\ n.plan = PlanOf(m) /\ n.next = Set(m.next) /\ n.status = ProgressStatus(m)
               /\ n.started = m.run /\ n.listed = m.listed
               /\ n.filter = page.filter /\ n.pageNo = page.pageNo
               /\ n.loaded = page.loaded /\ n.live = page.live /\ n.due = page.due
               /\ \/ page.open /\ n.settings = LoadConfigurableSettings(Clean, browser)
                  \/ n.settings = NormalizeConfigurableSettings(m.settings)
  <2>1. CASE page.open
    BY <1>1, <1>8, <2>1
  <2>2. CASE ~page.open
    BY <1>1, <1>7, <2>2
  <2>. QED  BY <2>1, <2>2
<1>10. /\ page'.started = m.run /\ page'.listed = m.listed /\ page'.status = ProgressStatus(m)
       /\ page'.next = Set(m.next) /\ page'.plan = PlanOf(m) /\ page'.settings = n.settings
       /\ page'.loaded = page.loaded \/ (page'.loaded = Key(page) /\ Noted(m))
       /\ Refetches(page'.live = 0 /\ Noted(m))
  BY <1>9, TakesIn
<1>11. /\ known'.shown = m.ver /\ known'.seen \in Nat /\ known'.seen >= m.ver
       /\ known'.seen >= known.seen /\ known'.missed = known.missed /\ known'.seq = known.seq
       /\ known'.local = local
  BY <1>1, <1>3, <1>4 DEF KnownFields
<1>12. \/ known'.local
       \/ page'.settings = NormalizeConfigurableSettings(m.settings)
       \/ page'.settings = NormalizeConfigurableSettings(srv.settings)
  <2>1. ASSUME page.open, ~local, n.settings = LoadConfigurableSettings(Clean, browser)
        PROVE  n.settings = NormalizeConfigurableSettings(srv.settings)
    <3>1. browser = r.body[1].settings
      BY <2>1
    <3>2. BodyStays(r)
      BY <1>1 DEF StoredInv
    <3>3. browser = srv.settings /\ InLimits(srv.settings) /\ srv.settings.usedPercentThreshold # 1
      BY <1>1, <3>1, <3>2 DEF BodyStays
    <3>4. SettingsOK(srv.settings)
      BY DEF TypedInv
    <3>. QED  BY <2>1, <3>3, <3>4, StoredPasses
  <2>2. CASE local
    BY <1>11, <2>2
  <2>3. CASE ~local
    BY <1>9, <1>10, <2>1, <2>3
  <2>. QED  BY <2>2, <2>3
<1>13. ReachStays /\ Telling' \subseteq Telling
  BY <1>1, <1>11, AnswerReaches DEF m
<1>14. \A x \in reqs : x \notin reqs' /\ x.kind = "details" /\ x.seq = page.live =>
         page.live # 0 /\ Noted(m)
  BY <1>1
<1> HIDE DEF local
<1>. QED  BY <1>1, <1>2, <1>10, <1>11, <1>12, <1>13, <1>14 DEF Sees

-----------------------------------------------------------------------------
(* What the user and the effects do *)

\* The page after the effects that follow
LEMMA RenderKind ==
  ASSUME NEW p, DOMAIN p = PageFields, page' = Rendered(page, p)
  PROVE  /\ page'.settings = p.settings /\ page'.plan = p.plan /\ page'.next = p.next
         /\ page'.loaded = p.loaded /\ page'.status = p.status /\ page'.started = p.started
         /\ page'.listed = p.listed
         /\ \/ page'.live = 0 /\ page'.due = (~Held(page') /\ Key(page') # page'.loaded)
            \/ Fetching(page') = Fetching(page) /\ page'.live = p.live /\ page'.due = p.due
<1> DEFINE n == Rendered(page, p)
<1>1. /\ n.settings = p.settings /\ n.plan = p.plan /\ n.next = p.next /\ n.loaded = p.loaded
      /\ n.status = p.status /\ n.started = p.started /\ n.listed = p.listed
      /\ n.filter = p.filter /\ n.pageNo = p.pageNo
      /\ IF Fetching(page) # Fetching(p)
         THEN n.live = 0 /\ n.due = (~Held(p) /\ Key(p) # p.loaded)
         ELSE n.live = p.live /\ n.due = p.due
  BY RenderedIs
<1> HIDE DEF n
<1>2. Held(n) = Held(p) /\ Key(n) = Key(p) /\ Fetching(n) = Fetching(p)
  BY <1>1 DEF Held, Key, Fetching
<1>3. page' = n
  BY DEF n
<1>. QED  BY <1>1, <1>2, <1>3

\* The page alone changes.
LEMMA ChangeKind ==
  ASSUME StatusInv, Goes, srv' = srv, stream' = stream, reqs' = reqs,
         NEW p, DOMAIN p = PageFields, page' = Rendered(page, p),
         p.started = page.started, p.loaded = page.loaded, p.next = page.next,
         p.status = page.status, p.listed = page.listed, p.live = page.live, p.due = page.due,
         known'.shown = known.shown, known'.seen = known.seen, known'.seq = known.seq,
         known'.missed = known.missed, known'.emptied = known.emptied,
         ~known'.local /\ ~known'.edited =>
           ~known.local /\ ~known.edited /\ p.plan = page.plan /\ p.settings = page.settings
  PROVE  Does
<1>1. /\ page'.settings = p.settings /\ page'.plan = p.plan /\ page'.next = p.next
      /\ page'.loaded = p.loaded /\ page'.status = p.status /\ page'.started = p.started
      /\ page'.listed = p.listed
      /\ \/ page'.live = 0 /\ page'.due = (~Held(page') /\ Key(page') # page'.loaded)
         \/ Fetching(page') = Fetching(page) /\ page'.live = p.live /\ page'.due = p.due
  BY RenderKind
<1>2. Refetches(page'.live = 0 /\ known'.missed)
  BY <1>1 DEF Refetches
<1>3. ReachStays /\ Telling' = Telling
  BY GoesReaches DEF Telling
<1>4. Under("run")' = Under("run") /\ Under("save")' = Under("save")
  BY DEF Under
<1>5. ~known'.local /\ ~known'.edited /\ ~Under("save")' =>
        /\ ~known.local /\ ~known.edited /\ ~Under("save")
        /\ page'.plan = page.plan /\ page'.settings = page.settings
  BY <1>1, <1>4
<1>. QED  BY <1>1, <1>2, <1>3, <1>4, <1>5 DEF Does

\* Nothing happens, but to the copy in the browser.
LEMMA IdleKind ==
  ASSUME StatusInv, Goes, UNCHANGED <<srv, stream, reqs, page, known>>
  PROVE  Does
<1>1. ReachStays /\ Telling' = Telling
  BY GoesReaches DEF Telling
<1>2. Refetches(page'.live = 0 /\ known'.missed)
  BY DEF Refetches
<1>3. Under("run")' = Under("run") /\ Under("save")' = Under("save")
  BY DEF Under
<1>. QED  BY <1>1, <1>2, <1>3 DEF Does

LEMMA TableKind ==
  ASSUME StatusInv, Goes,
         \/ \E f \in Filters : ClickFilter(f)
         \/ \E n \in 1..page.pageNo + 1 : ClickPage(n)
  PROVE  Does
<1>1. /\ DOMAIN page = PageFields
      /\ srv' = srv /\ stream' = stream /\ reqs' = reqs /\ known' = known
  BY PageUnchanged DEF ClickFilter, ClickPage
<1>2. PICK p : /\ page' = Rendered(page, p)
               /\ \/ \E f : p = [page EXCEPT !.filter = f, !.pageNo = 1]
                  \/ \E n : p = [page EXCEPT !.pageNo = n]
  BY DEF ClickFilter, ClickPage
<1>3. /\ DOMAIN p = PageFields /\ p.started = page.started /\ p.loaded = page.loaded
      /\ p.next = page.next /\ p.status = page.status /\ p.listed = page.listed
      /\ p.live = page.live /\ p.due = page.due /\ p.plan = page.plan /\ p.settings = page.settings
  BY <1>1, <1>2 DEF PageFields
<1>. QED  BY <1>1, <1>2, <1>3, ChangeKind

LEMMA DialogKind ==
  ASSUME StatusInv, Goes, OpenDialog \/ CloseDialog \/ ConfigChanges \/ Edit \/ ResetSettings
  PROVE  Does
<1>1. DOMAIN page = PageFields /\ DOMAIN known = KnownFields
  BY PageUnchanged
<1>2. srv' = srv /\ stream' = stream /\ reqs' = reqs
  BY DEF OpenDialog, CloseDialog, ConfigChanges, Edit, Edited, ResetSettings
<1> DEFINE Stays(p) == /\ DOMAIN p = PageFields /\ p.started = page.started /\ p.loaded = page.loaded
                       /\ p.next = page.next /\ p.status = page.status /\ p.listed = page.listed
                       /\ p.live = page.live /\ p.due = page.due
           Kept == /\ known'.shown = known.shown /\ known'.seen = known.seen
                   /\ known'.seq = known.seq /\ known'.missed = known.missed
                   /\ known'.emptied = known.emptied
           Says(p) == ~known'.local /\ ~known'.edited =>
                        /\ ~known.local /\ ~known.edited
                        /\ p.plan = page.plan /\ p.settings = page.settings
           Render(p) == page' = Rendered(page, p) /\ Stays(p) /\ Says(p)
<1>3. ASSUME NEW p, Render(p), Kept PROVE Does
  BY <1>2, <1>3, ChangeKind
<1>4. CASE OpenDialog
  <2> DEFINE p == [page EXCEPT !.open = TRUE, !.draft = DraftOf(page.settings)]
  <2>1. page' = Rendered(page, p) /\ \E typed : known' = [known EXCEPT !.typed = typed]
    BY <1>4 DEF OpenDialog
  <2>2. Stays(p) /\ p.plan = page.plan /\ p.settings = page.settings
    BY <1>1 DEF PageFields
  <2> HIDE DEF p
  <2>3. Kept /\ known'.local = known.local /\ known'.edited = known.edited
    BY <1>1, <2>1 DEF KnownFields
  <2>4. Render(p)
    BY <2>1, <2>2, <2>3
  <2>. QED  BY <1>3, <2>3, <2>4
<1>5. CASE CloseDialog \/ ConfigChanges
  <2>1. PICK p : /\ page' = Rendered(page, Localised(p, browser))
                 /\ p = page \/ p = [page EXCEPT !.open = FALSE]
    BY <1>5 DEF CloseDialog, ConfigChanges
  <2>2. /\ \/ known' = [known EXCEPT !.typed = None, !.local = TRUE]
           \/ known' = [known EXCEPT !.local = TRUE]
    BY <1>5 DEF CloseDialog, ConfigChanges
  <2>3. Stays(p)
    BY <1>1, <2>1 DEF PageFields
  <2>4. Stays(Localised(p, browser))
    BY <2>3, LocalisedIs
  <2>5. Kept /\ known'.local
    BY <1>1, <2>2 DEF KnownFields
  <2>6. Render(Localised(p, browser))
    BY <2>1, <2>4, <2>5
  <2>. QED  BY <1>3, <2>5, <2>6
<1>6. CASE Edit
  <2>1. PICK p : /\ Edited(p)
                 /\ \E draft, plan : p = [page EXCEPT !.draft = draft, !.plan = plan]
    BY <1>1, <1>6, EditIs
  <2>2. Stays(p) /\ p.settings = page.settings /\ page' = Rendered(page, p)
    BY <1>1, <2>1 DEF PageFields, Edited
  <2>3. \E typed : known' = [known EXCEPT !.edited = @ \/ p.plan # page.plan, !.typed = typed]
    BY <2>1 DEF Edited
  <2>4. Kept /\ known'.local = known.local /\ known'.edited = (known.edited \/ p.plan # page.plan)
    BY <1>1, <2>3 DEF KnownFields
  <2>5. ~known'.edited => ~known.edited /\ p.plan = page.plan
    BY <2>4
  <2>6. Render(p)
    BY <2>2, <2>4, <2>5
  <2>. QED  BY <1>3, <2>4, <2>6
<1>7. CASE ResetSettings
  <2> DEFINE p == [page EXCEPT !.settings = Defaults, !.draft = DraftOf(Defaults)]
  <2>1. page' = Rendered(page, p) /\ \E typed : known' = [known EXCEPT !.typed = typed, !.local = TRUE]
    BY <1>7 DEF ResetSettings
  <2>2. Stays(p)
    BY <1>1 DEF PageFields
  <2> HIDE DEF p
  <2>3. Kept /\ known'.local
    BY <1>1, <2>1 DEF KnownFields
  <2>4. Render(p)
    BY <2>1, <2>2, <2>3
  <2>. QED  BY <1>3, <2>3, <2>4
<1>. QED  BY <1>4, <1>5, <1>6, <1>7

\* A request of the page is new, and numbered as such.
LEMMA RequestIs ==
  ASSUME StatusInv, Goes, srv' = srv, stream' = stream,
         NEW kind, NEW details, NEW body, Ask(kind, details, body)
  PROVE  /\ ReachStays /\ Telling' \subseteq Telling
         /\ \A k : Under(k) => Under(k)'
         /\ \E q : /\ reqs' = reqs \cup {q} /\ q.kind = kind /\ q.body = body
                   /\ q.pc = IF kind = "details" THEN "handled" ELSE "asked"
                   /\ q.seq = known.seq + 1
<1> DEFINE q == Request(kind, details, body)
<1>1. /\ q.kind = kind /\ q.body = body /\ q.seq = known.seq + 1
      /\ q.pc = IF kind = "details" THEN "handled" ELSE "asked"
  BY DEF Request
<1>2. reqs' = reqs \cup {q}
  BY DEF Ask
<1> HIDE DEF q
<1>3. \A t \in 0..srv.ver : SavesSince(reqs, t) => SavesSince(reqs', t)
  BY <1>2 DEF SavesSince
<1>4. ReachStays
  BY <1>3, GoesReaches
<1>5. q.pc # "answered"
  BY <1>1
<1>6. Telling' \subseteq Telling
  BY <1>2, <1>5 DEF Telling, Answering
<1>7. \A k : Under(k) => Under(k)'
  BY <1>2 DEF Under
<1>. QED  BY <1>1, <1>2, <1>4, <1>6, <1>7

LEMMA AskedTells ==
  ASSUME DOMAIN known = KnownFields
  PROVE  /\ DOMAIN Asked = KnownFields /\ Asked.seq = known.seq + 1
         /\ Asked.shown = known.shown /\ Asked.seen = known.seen /\ Asked.missed = known.missed
         /\ Asked.emptied = known.emptied /\ Asked.local = known.local /\ Asked.edited = known.edited
BY DEF Asked, KnownFields

\* A button: a run that is asked for is shown at once.
LEMMA ButtonKind ==
  ASSUME StatusInv, Goes, ClickRun \/ ClickPause \/ ClickStop \/ ClickAct
  PROVE  Does
<1>1. /\ srv' = srv /\ stream' = stream /\ known' = Asked
      /\ DOMAIN page = PageFields /\ DOMAIN known = KnownFields
  BY PageUnchanged DEF ClickRun, ClickPause, ClickStop, ClickAct
<1>2. PICK kind, details, body :
        /\ Ask(kind, details, body) /\ kind \in {"run", "resume", "pause", "stop", "act"}
        /\ \/ page' = page
           \/ /\ kind = "run"
              /\ page' = Rendered(page, [page EXCEPT !.result = None, !.runStatus = "running",
                                                     !.status = "running", !.listed = FALSE, !.pageNo = 1])
  <2>1. CASE ClickRun
    BY <2>1 DEF ClickRun
  <2>2. CASE ClickPause \/ ClickStop \/ ClickAct
    BY <2>2 DEF ClickPause, ClickStop, ClickAct
  <2>. QED  BY <2>1, <2>2
<1>3. /\ ReachStays /\ Telling' \subseteq Telling
      /\ \A k : Under(k) => Under(k)'
      /\ \E q : /\ reqs' = reqs \cup {q} /\ q.kind = kind /\ q.body = body
                /\ q.pc = IF kind = "details" THEN "handled" ELSE "asked"
                /\ q.seq = known.seq + 1
  BY <1>1, <1>2, RequestIs
<1>4. PICK q : /\ reqs' = reqs \cup {q} /\ q.kind = kind /\ q.pc = "asked" /\ q.seq = known.seq + 1
  BY <1>2, <1>3
<1>5. /\ known'.shown = known.shown /\ known'.seen = known.seen /\ known'.seq = known.seq + 1
      /\ known'.missed = known.missed /\ known'.emptied = known.emptied
      /\ known'.local = known.local /\ known'.edited = known.edited
  BY <1>1, AskedTells
<1>6. (Under("run") => Under("run")') /\ (Under("save") => Under("save")')
  BY <1>3
<1>7. /\ page'.started = page.started /\ page'.loaded = page.loaded /\ page'.next = page.next
      /\ page'.plan = page.plan /\ page'.settings = page.settings
      /\ \/ page'.status = page.status /\ page'.listed = page.listed
         \/ page'.status = "running" /\ Under("run")'
      /\ Refetches(page'.live = 0 /\ known'.missed)
  <2>1. CASE page' = page
    BY <2>1 DEF Refetches
  <2>2. CASE kind = "run" /\ page' = Rendered(page, [page EXCEPT !.result = None, !.runStatus = "running",
                                       !.status = "running", !.listed = FALSE, !.pageNo = 1])
    <3>1. PICK p : p = [page EXCEPT !.result = None, !.runStatus = "running",
                                    !.status = "running", !.listed = FALSE, !.pageNo = 1]
      OBVIOUS
    <3>2. /\ DOMAIN p = PageFields /\ p.started = page.started /\ p.loaded = page.loaded
          /\ p.next = page.next /\ p.plan = page.plan /\ p.settings = page.settings
          /\ p.status = "running" /\ p.live = page.live /\ p.due = page.due
      BY <1>1, <3>1 DEF PageFields
    <3>3. page' = Rendered(page, p)
      BY <2>2, <3>1
    <3>4. /\ page'.settings = p.settings /\ page'.plan = p.plan /\ page'.next = p.next
          /\ page'.loaded = p.loaded /\ page'.status = p.status /\ page'.started = p.started
          /\ \/ page'.live = 0 /\ page'.due = (~Held(page') /\ Key(page') # page'.loaded)
             \/ Fetching(page') = Fetching(page) /\ page'.live = p.live /\ page'.due = p.due
      BY <3>2, <3>3, RenderKind
    <3>5. Under("run")'
      BY <1>4, <2>2 DEF Under
    <3>. QED  BY <3>2, <3>4, <3>5 DEF Refetches
  <2>. QED  BY <1>2, <2>1, <2>2
<1>8. \E x : /\ reqs' = reqs \cup {x} /\ x.pc \in {"asked", "handled"}
             /\ x.seq = known'.seq /\ known'.seq = known.seq + 1
             /\ x.kind = "save" => ~Under("save") /\ x.pc = "asked" /\ BodyStays(x)
  BY <1>2, <1>4, <1>5
<1>9. \A r \in reqs : r \in reqs'
  BY <1>4
<1>. QED  BY <1>1, <1>3, <1>5, <1>6, <1>7, <1>8, <1>9 DEF Does

LEMMA FetchKind ==
  ASSUME StatusInv, Goes, FetchDetails
  PROVE  Does
<1>1. /\ srv' = srv /\ stream' = stream /\ known' = [Asked EXCEPT !.missed = FALSE]
      /\ DOMAIN page = PageFields /\ DOMAIN known = KnownFields
      /\ Ask("details", Set(Opts(page)), NoBody) /\ page.due
      /\ page' = [page EXCEPT !.due = FALSE, !.live = known.seq + 1]
  BY PageUnchanged DEF FetchDetails
<1>2. /\ ReachStays /\ Telling' \subseteq Telling
      /\ \A k : Under(k) => Under(k)'
      /\ \E q : /\ reqs' = reqs \cup {q} /\ q.kind = "details" /\ q.pc = "handled"
                /\ q.seq = known.seq + 1
  BY <1>1, RequestIs
<1>3. PICK q : /\ reqs' = reqs \cup {q} /\ q.kind = "details" /\ q.pc = "handled"
               /\ q.seq = known.seq + 1
  BY <1>2
<1>4. /\ known'.shown = known.shown /\ known'.seen = known.seen /\ known'.seq = known.seq + 1
      /\ known'.emptied = known.emptied
      /\ known'.local = known.local /\ known'.edited = known.edited
  BY <1>1, AskedTells DEF KnownFields
<1>5. /\ page'.started = page.started /\ page'.loaded = page.loaded /\ page'.next = page.next
      /\ page'.plan = page.plan /\ page'.settings = page.settings
      /\ page'.status = page.status /\ page'.listed = page.listed
      /\ page'.due = FALSE /\ page'.live = known.seq + 1 /\ Fetching(page') = Fetching(page)
  BY <1>1 DEF PageFields, Fetching
<1>6. Fetches
  BY <1>1, <1>3, <1>4, <1>5 DEF Fetches
<1>7. (Under("run") => Under("run")') /\ (Under("save") => Under("save")')
  BY <1>2
<1>8. \E x : /\ reqs' = reqs \cup {x} /\ x.pc \in {"asked", "handled"}
             /\ x.seq = known'.seq /\ known'.seq = known.seq + 1
             /\ x.kind = "save" => ~Under("save") /\ x.pc = "asked" /\ BodyStays(x)
  BY <1>3, <1>4
<1>9. \A r \in reqs : r \in reqs'
  BY <1>3
<1>. QED  BY <1>1, <1>2, <1>4, <1>5, <1>6, <1>7, <1>8, <1>9 DEF Does

LEMMA ClickSaveKind ==
  ASSUME StatusInv, TypedInv, StoredInv, Goes, ClickSave
  PROVE  Does
<1> DEFINE taken ==
             NormalizeConfigurableSettings(Over(page.draft, [confirmations |-> page.confirmations]))
           body == SaveBody(taken)
<1>1. /\ page' = page /\ srv' = srv /\ stream' = stream /\ DraftValid(page.draft) /\ ~Under("save")
      /\ \/ reqs' = reqs /\ known' = known
         \/ Ask("save", None, Set(body)) /\ known' = [Asked EXCEPT !.local = FALSE]
  BY DEF ClickSave
<1>2. DOMAIN page = PageFields /\ DOMAIN known = KnownFields
  BY PageUnchanged
<1>3. InLimits(taken) /\ taken.usedPercentThreshold # 1
  BY <1>1, DraftInLimits DEF TypedInv, DialogOK
<1> HIDE DEF taken
<1>4. body.settings = taken /\ body.next \in Nat
  BY DEF SaveBody, StoredInv
<1> HIDE DEF body
<1>5. CASE reqs' = reqs /\ known' = known
  BY <1>1, <1>5, IdleKind
<1>6. CASE Ask("save", None, Set(body)) /\ known' = [Asked EXCEPT !.local = FALSE]
  <2>1. /\ ReachStays /\ Telling' \subseteq Telling
        /\ \A k : Under(k) => Under(k)'
        /\ \E q : /\ reqs' = reqs \cup {q} /\ q.kind = "save" /\ q.body = Set(body)
                  /\ q.pc = "asked" /\ q.seq = known.seq + 1
    BY <1>1, <1>6, RequestIs
  <2>2. PICK q : /\ reqs' = reqs \cup {q} /\ q.kind = "save" /\ q.body = Set(body)
                 /\ q.pc = "asked" /\ q.seq = known.seq + 1
    BY <2>1
  <2>3. /\ known'.shown = known.shown /\ known'.seen = known.seen /\ known'.seq = known.seq + 1
        /\ known'.missed = known.missed /\ known'.emptied = known.emptied
    BY <1>2, <1>6, AskedTells DEF KnownFields
  <2>4. BodyStays(q)
    BY <1>3, <1>4, <2>2 DEF BodyStays, Set
  <2>5. Under("save")' /\ (Under("run") => Under("run")')
    BY <2>1, <2>2 DEF Under
  <2>6. Refetches(page'.live = 0 /\ known'.missed)
    BY <1>1 DEF Refetches
  <2>7. \E x : /\ reqs' = reqs \cup {x} /\ x.pc \in {"asked", "handled"}
               /\ x.seq = known'.seq /\ known'.seq = known.seq + 1
               /\ x.kind = "save" => ~Under("save") /\ x.pc = "asked" /\ BodyStays(x)
    BY <1>1, <2>2, <2>3, <2>4
  <2>8. \A r \in reqs : r \in reqs'
    BY <2>2
  <2>. QED  BY <1>1, <2>1, <2>3, <2>5, <2>6, <2>7, <2>8 DEF Does
<1>. QED  BY <1>1, <1>5, <1>6

LEMMA FailKind ==
  ASSUME StatusInv, Goes, NEW r \in reqs, Fail(r)
  PROVE  Does
<1> DEFINE p == CASE r.kind = "run" -> [page EXCEPT !.runStatus = "error"]
                  [] r.kind = "status" -> [page EXCEPT !.next = None]
                  [] OTHER -> IF r.seq = page.live THEN [page EXCEPT !.live = 0] ELSE page
           lost == IF r.kind = "save" THEN Max({known.lost, r.own}) ELSE known.lost
           emptied == known.emptied \/ r.kind = "run"
           missed == known.missed \/ r.seq = page.live
           local == known.local \/ r.kind = "save"
<1>1. /\ reqs' = reqs \ {r} /\ srv' = srv /\ stream' = stream /\ page' = Rendered(page, p)
      /\ \E failed, foreign :
           known' = [known EXCEPT !.failed = failed, !.emptied = emptied, !.missed = missed,
                                  !.foreign = foreign, !.lost = lost, !.local = local]
  <2>1. reqs' = reqs \ {r} /\ srv' = srv /\ stream' = stream /\ page' = Rendered(page, p)
    BY DEF Fail
  <2> DEFINE failed == known.failed \/ r.kind = "run"
             foreign == IF r.kind = "act" THEN Max({known.foreign, r.own}) ELSE known.foreign
  <2>2. known' = [known EXCEPT !.failed = failed, !.emptied = emptied, !.missed = missed,
                               !.foreign = foreign, !.lost = lost, !.local = local]
    BY DEF Fail
  <2> HIDE DEF p, lost, failed, emptied, missed, foreign, local
  <2>. QED  BY <2>1, <2>2
<1>2. /\ DOMAIN page = PageFields /\ DOMAIN known = KnownFields /\ srv.ver \in Nat
      /\ known.lost \in Nat /\ r.own \in Nat
  BY TellingIs DEF StatusInv, Shape
<1>3. /\ DOMAIN p = PageFields /\ p.started = page.started /\ p.loaded = page.loaded
      /\ p.status = page.status /\ p.listed = page.listed /\ p.due = page.due
      /\ p.plan = page.plan /\ p.settings = page.settings
      /\ p.next \in {page.next, None}
      /\ p.live = page.live \/ (p.live = 0 /\ missed)
  BY <1>2 DEF PageFields
<1>4. r.kind = "save" => lost \in Nat /\ lost >= r.own
  <2>1. \A x, y \in Nat : Max({x, y}) \in Nat /\ Max({x, y}) >= y
    BY MaxOfTwo
  <2>. QED  BY <1>2, <2>1
<1> HIDE DEF p, lost, emptied, missed, local
<1>5. /\ known'.shown = known.shown /\ known'.seen = known.seen /\ known'.seq = known.seq
      /\ known'.edited = known.edited /\ known'.lost = lost
      /\ known'.emptied = emptied /\ known'.missed = missed /\ known'.local = local
  BY <1>1, <1>2 DEF KnownFields
<1>6. /\ page'.settings = p.settings /\ page'.plan = p.plan /\ page'.next = p.next
      /\ page'.loaded = p.loaded /\ page'.status = p.status /\ page'.started = p.started
      /\ page'.listed = p.listed
      /\ \/ page'.live = 0 /\ page'.due = (~Held(page') /\ Key(page') # page'.loaded)
         \/ Fetching(page') = Fetching(page) /\ page'.live = p.live /\ page'.due = p.due
  BY <1>1, <1>3, RenderKind
<1>7. Refetches(page'.live = 0 /\ known'.missed)
  BY <1>3, <1>5, <1>6 DEF Refetches
<1>8. ASSUME NEW t \in 0..srv.ver, SavesSince(reqs, t)
      PROVE  SavesSince(reqs', t) \/ known'.lost >= t
  <2>1. PICK x \in reqs : /\ x.kind = "save" /\ x.own >= t /\ x.pc \in {"handled", "answered"}
                          /\ x.pc = "answered" => x.answer[1].ver >= t
    BY <1>8 DEF SavesSince
  <2>2. CASE x = r
    BY <1>2, <1>4, <1>5, <2>1, <2>2
  <2>3. CASE x # r
    BY <1>1, <2>1, <2>3 DEF SavesSince
  <2>. QED  BY <2>2, <2>3
<1>9. ReachStays
  BY <1>1, <1>8, GoesReaches
<1>10. Telling' \subseteq Telling
  BY <1>1 DEF Telling, Answering
<1>11. Under("run") => Under("run")' \/ known'.emptied
  BY <1>1, <1>5 DEF Under, emptied
<1>12. /\ known.emptied => known'.emptied
       /\ known.missed => known'.missed
       /\ r.seq = page.live => known'.missed
  BY <1>5 DEF emptied, missed
<1>13. ~known'.local => ~known.local /\ r.kind # "save"
  BY <1>5 DEF local
<1>14. ~known'.local /\ ~known'.edited /\ ~Under("save")' =>
         /\ ~known.local /\ ~known.edited /\ ~Under("save")
         /\ page'.plan = page.plan /\ page'.settings = page.settings
  <2>1. r.kind # "save" /\ ~Under("save")' => ~Under("save")
    BY <1>1 DEF Under
  <2>. QED  BY <1>3, <1>5, <1>6, <1>13, <2>1
<1>15. reqs' \subseteq reqs /\ \A x \in reqs : x \in reqs' \/ (x.kind = "details" /\ x.seq = page.live => known'.missed)
  BY <1>1, <1>12
<1>. QED  BY <1>1, <1>3, <1>5, <1>6, <1>7, <1>9, <1>10, <1>11, <1>12, <1>14, <1>15 DEF Does

LEMMA StepKind ==
  ASSUME StatusInv, TypedInv, SaveInv, Goes, [PageNext]_pageVars
  PROVE  StepKinds
<1>0. StoredInv /\ PageRunsOK
  BY DEF SaveInv
<1>1. CASE Event
  <2>1. PICK group : Happens(group)
    BY <1>1 DEF Event
  <2>2. CASE UNCHANGED <<srv, stream, reqs, page, browser, known>>
    BY <2>2, IdleKind DEF StepKinds
  <2>3. CASE ClickRun \/ ClickPause \/ ClickStop \/ ClickAct
    BY <2>3, ButtonKind DEF StepKinds
  <2>4. CASE \/ \E f \in Filters : ClickFilter(f)
             \/ \E n \in 1..page.pageNo + 1 : ClickPage(n)
    BY <2>4, TableKind DEF StepKinds
  <2>5. CASE OpenDialog \/ CloseDialog \/ ConfigChanges \/ Edit \/ ResetSettings
    BY <2>5, DialogKind DEF StepKinds
  <2>6. CASE ClickSave
    BY <1>0, <2>6, ClickSaveKind DEF StepKinds
  <2>7. CASE TimerStarts \/ OthersStart
    BY <2>7, StartsKind DEF StepKinds
  <2>8. CASE OthersAct \/ \E kind \in {"pause", "resume", "stop"} : OthersControl(kind)
    BY <2>8, OthersKind DEF StepKinds
  <2>9. CASE Fault
    BY <2>9, StreamKind, FailKind DEF Fault, StepKinds
  <2>. QED  BY <2>1, <2>2, <2>3, <2>4, <2>5, <2>6, <2>7, <2>8, <2>9 DEF Happens
<1>2. CASE Step
  <2>1. ASSUME NEW r \in reqs,
               Handle(r) \/ AnswerRequest(r) \/ Answered(r) \/ DetailsArrive(r) \/ SaveArrives(r) \/ Refused(r)
        PROVE  StepKinds
    BY <1>0, <2>1, HandleKind, AnswerRequestKind, AnsweredKind, DetailsKind, SaveKind, FailKind
       DEF Refused, StepKinds
  <2>. QED  BY <1>2, <2>1, StreamKind, ListsKind, FinishKind, MessageKind, FetchKind DEF Step, StepKinds
<1>3. CASE UNCHANGED pageVars
  BY <1>3, IdleKind DEF pageVars, StepKinds
<1>. QED  BY <1>1, <1>2, <1>3 DEF PageNext

(***************************************************************************)
(* At rest, a dialog that is opened and saved untouched leaves the         *)
(* schedule of the server, the time of the next run and the settings as    *)
(* they are, whatever runs, saves, answers and messages have crossed, but  *)
(* for the exceptions the property names.                                  *)
(***************************************************************************)
THEOREM UntouchedIsKept == PageSpec => []SaveWouldKeep
<1> DEFINE PageInv == StatusInv /\ TypedInv /\ SaveInv
<1>1. PageInit => PageInv
  BY InitIsInOrder, InitIsSettled, InitKeeps
<1>2. PageInv /\ [PageNext]_pageVars => PageInv'
  <2> SUFFICES ASSUME PageInv, [PageNext]_pageVars PROVE PageInv'
    OBVIOUS
  <2>1. Goes
    BY StepGoes
  <2>2. StatusInv' /\ TypedInv'
    BY <2>1, GoesKeeps, StepSettled, SettledKeeps
  <2>3. StepKinds
    BY <2>1, StepKind
  <2>4. SaveInv'
    BY <2>1, <2>3, KindsKeep, GoesForward
  <2>. QED  BY <2>2, <2>4
<1>3. PageInv => SaveWouldKeep
  BY RestKeeps
<1>. QED  BY <1>1, <1>2, <1>3, PTL DEF PageSpec
===============================================================================
