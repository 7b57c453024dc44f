-------------------------- MODULE InspectionDecisions --------------------------
(***************************************************************************)
(* What one inspection of one account decides: the answers of the          *)
(* provider, read by the provider's inspector and the decision functions,  *)
(* and the automatic action the settings draw from the result.             *)
(*                                                                         *)
(* A response is its status (0: no response after the retries) and what    *)
(* its body is good for:                                                   *)
(*   "low", "over"   quota data under, or at and over, the threshold       *)
(*   "blank"         quota windows without a used percentage               *)
(*   "empty"         well formed, without quota windows                    *)
(*   "content"       content generated for a deep probe                    *)
(*   "exhausted"     a text that says the quota is exhausted               *)
(*   "garbled"       anything else                                         *)
(* An answer is whether the due token refresh failed, the responses of the *)
(* quota URLs in the order they are tried, and those of the deep probe     *)
(* (none when the project id is missing).                                  *)
(***************************************************************************)
EXTENDS Integers, Sequences

Action   == {"keep", "disable", "enable", "delete"}
Response == [status : Nat, body : {"low", "over", "blank", "empty", "content", "exhausted", "garbled"}]
Answer   == [refreshFails : BOOLEAN, quota : Seq(Response), deep : Seq(Response)]
Result   == [action : Action, quota : BOOLEAN, error : BOOLEAN, status : Nat, disabled : BOOLEAN]

IsAccountErrorStatus(status) == status \in {400, 401, 403, 404}
IsSuccess(status) == status \in 200..299

Used(body)    == IF body \in {"low", "over"} THEN body ELSE "none"
Parses(body)  == body \in {"low", "over", "blank", "empty"}
HasData(body) == body \in {"low", "over", "blank"}

Decided(action, quota, status, disabled) ==
  [action |-> action, quota |-> quota, error |-> FALSE, status |-> status, disabled |-> disabled]

\* A probe error keeps the account, with the error and the status in its result.
Failed(status, disabled) ==
  [action |-> "keep", quota |-> FALSE, error |-> TRUE, status |-> status, disabled |-> disabled]

AuthErrorDecision(status, disabled) ==
  Decided(IF disabled THEN "keep" ELSE "disable", FALSE, status, disabled)

QuotaDecision(used, hasData, status, disabled) ==
  LET over == used = "over"
  IN  Decided(CASE over -> IF disabled THEN "keep" ELSE "disable"
                [] ~over /\ disabled /\ hasData -> "enable"
                [] OTHER -> "keep", over, status, disabled)

CodexDecision(status, used, isQuota, disabled) ==
  CASE status = 401 -> Decided("delete", FALSE, status, disabled)
    [] status # 401 /\ IsAccountErrorStatus(status) -> AuthErrorDecision(status, disabled)
    [] OTHER ->
         IF isQuota \/ used = "over"
         THEN Decided(IF disabled THEN "keep" ELSE "disable", TRUE, status, disabled)
         ELSE Decided(IF status = 200 /\ disabled THEN "enable" ELSE "keep", FALSE, status, disabled)

\* One quota request, judged by its status, its body and the quota decision.
InspectPlain(r, disabled) ==
  CASE r.status = 0 -> Failed(0, disabled)
    [] r.status # 0 /\ ~IsSuccess(r.status) ->
         IF IsAccountErrorStatus(r.status) THEN AuthErrorDecision(r.status, disabled)
                                           ELSE Failed(r.status, disabled)
    [] OTHER ->
         IF Parses(r.body) THEN QuotaDecision(Used(r.body), HasData(r.body), r.status, disabled)
                           ELSE Failed(r.status, disabled)

\* The profile request that follows tells the plan and decides nothing.
InspectClaude(r, disabled) == InspectPlain(r, disabled)
InspectKimi(r, disabled)   == InspectPlain(r, disabled)
InspectXAI(r, disabled)    == InspectPlain(r, disabled)

InspectCodex(r, disabled) ==
  IF r.status = 0 THEN Failed(0, disabled)
  ELSE CodexDecision(r.status, Used(r.body),
                     r.status = 402 \/ r.body = "exhausted" \/ Used(r.body) = "over", disabled)

Classify(r) ==
  CASE r.status = 0 -> "transient"
    [] IsSuccess(r.status) -> IF r.body = "content" THEN "success" ELSE "transient"
    [] IsAccountErrorStatus(r.status) -> "auth"
    [] OTHER -> IF r.status = 402 \/ r.body = "exhausted" THEN "quota" ELSE "transient"

First(s, Test(_)) == LET hits == {i \in DOMAIN s : Test(s[i])}
                     IN  CHOOSE i \in hits : \A j \in hits : i <= j
LastWhere(s, Test(_)) == LET hits == {i \in DOMAIN s : Test(s[i])}
                     IN  CHOOSE i \in hits : \A j \in hits : i >= j

\* Mutant of DeepProbe: a quota failure of a disabled account keeps the enable decision.
DeepProbe_KeepsEnable(decision, deep, disabled) ==
  LET Settled(r) == Classify(r) # "transient"
      r == deep[First(deep, Settled)]
  IN  IF deep = << >> \/ disabled \/ ~\E i \in DOMAIN deep : Settled(deep[i]) THEN decision
      ELSE CASE Classify(r) = "success" -> [decision EXCEPT !.status = r.status]
             [] Classify(r) = "auth"    -> AuthErrorDecision(r.status, disabled)
             [] Classify(r) = "quota"   -> Decided("disable", TRUE, r.status, disabled)

\* applyAntigravityDeepProbe: the first URL whose response settles it; a
\* transient failure of all of them keeps the account and reports an error.
DeepProbe(decision, deep, disabled) ==
  LET Settled(r)  == Classify(r) # "transient"
      Answered(r) == r.status # 0
  IN  IF deep = << >> THEN decision
      ELSE IF \E i \in DOMAIN deep : Settled(deep[i])
      THEN LET r == deep[First(deep, Settled)]
           IN  CASE Classify(r) = "success" -> [decision EXCEPT !.status = r.status]
                 [] Classify(r) = "auth"    -> AuthErrorDecision(r.status, disabled)
                 [] Classify(r) = "quota"   ->
                      Decided(IF disabled THEN "keep" ELSE "disable", TRUE, r.status, disabled)
      ELSE [decision EXCEPT !.action = "keep", !.error = TRUE,
              !.status = IF \E i \in DOMAIN deep : Answered(deep[i])
                         THEN deep[LastWhere(deep, Answered)].status ELSE @]

\* inspectAntigravity: the first quota URL that answers with groups decides;
\* without one, the last account error does. The deep probe follows only a
\* known usage under the threshold.
InspectAntigravity(answer, deepEnabled, disabled) ==
  LET Good(r)   == IsSuccess(r.status) /\ Parses(r.body)
      Denied(r) == IsAccountErrorStatus(r.status)
      urls      == answer.quota
  IN  IF \E i \in DOMAIN urls : Good(urls[i])
      THEN LET r == urls[First(urls, Good)]
               d == QuotaDecision(Used(r.body), Used(r.body) # "none", r.status, disabled)
           IN  IF deepEnabled /\ Used(r.body) # "none" /\ ~d.quota
               THEN DeepProbe(d, answer.deep, disabled) ELSE d
      ELSE IF \E i \in DOMAIN urls : Denied(urls[i])
      THEN AuthErrorDecision(urls[LastWhere(urls, Denied)].status, disabled)
      ELSE Failed(0, disabled)

\* inspectAccount: a due refresh that fails ends the inspection.
Inspect(provider, answer, deepEnabled, disabled) ==
  IF answer.refreshFails THEN Failed(0, disabled)
  ELSE CASE provider = "antigravity" -> InspectAntigravity(answer, deepEnabled, disabled)
         [] provider = "claude" -> InspectClaude(Head(answer.quota), disabled)
         [] provider = "codex"  -> InspectCodex(Head(answer.quota), disabled)
         [] provider = "kimi"   -> InspectKimi(Head(answer.quota), disabled)
         [] provider = "xai"    -> InspectXAI(Head(answer.quota), disabled)
         [] OTHER -> Failed(0, disabled)

-----------------------------------------------------------------------------
(* The automatic action a result calls for.                                *)

Category == {"account-invalid", "request-error", "quota", "recovery", "action"}

IsAccountInvalid(r) == ~r.quota /\ IsAccountErrorStatus(r.status)
IsRequestError(r)   == ~r.quota /\ r.error /\ ~IsAccountInvalid(r)

ActionForError(r, wanted) ==
  IF wanted = "delete" \/ (wanted = "disable" /\ ~r.disabled) THEN wanted ELSE "none"

\* Mutant of AutoActionFor: a quota decision is acted on whatever it says.
AutoActionFor_AnyQuota(r, settings) ==
  CASE IsAccountInvalid(r) -> ActionForError(r, settings.invalid)
    [] IsRequestError(r)   -> ActionForError(r, settings.requestError)
    [] OTHER ->
         IF r.quota /\ settings.quotaDisable THEN "disable"
         ELSE IF settings.recovery THEN "enable" ELSE "none"

AutoActionFor(r, settings) ==
  CASE IsAccountInvalid(r) -> ActionForError(r, settings.invalid)
    [] IsRequestError(r)   -> ActionForError(r, settings.requestError)
    [] OTHER ->
         IF r.action = "disable" /\ r.quota /\ settings.quotaDisable THEN "disable"
         ELSE IF r.action = "enable" /\ settings.recovery THEN "enable" ELSE "none"

CategoryOf(r, action) ==
  CASE IsAccountInvalid(r) -> "account-invalid"
    [] IsRequestError(r)   -> "request-error"
    [] OTHER -> IF r.quota THEN "quota" ELSE IF action = "enable" THEN "recovery" ELSE "action"
=============================================================================
