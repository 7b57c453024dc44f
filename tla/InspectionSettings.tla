--------------------------- MODULE InspectionSettings ---------------------------
(* The settings of the account inspection as the page and the server read them: *)
(* each side has its own defaults, limits and normalisation, the page keeps a   *)
(* copy in the browser and edits a draft.                                       *)
(*                                                                              *)
(* Numbers are integers, and Unset is one that is missing or no number. The     *)
(* choices that each side takes over as they are (deep probe, its model, quota  *)
(* mode, the two quota policies) are one field, policies.                       *)
EXTENDS Integers

Unset == -1000

Providers == {"antigravity", "claude", "codex", "kimi", "xai"}
AutoErrorActions == {"none", "disable", "delete"}

Defaults ==
  [targetType |-> "all", workers |-> 4, deleteWorkers |-> 4, timeout |-> 15000, retries |-> 0,
   usedPercentThreshold |-> 100, sampleSize |-> 0, confirmations |-> 1,
   accountInvalid |-> "none", requestError |-> "none", policies |-> "off"]

NoMax == 1000000

Limits ==
  [workers |-> [min |-> 1, max |-> 8], deleteWorkers |-> [min |-> 1, max |-> 4],
   timeout |-> [min |-> 3000, max |-> 30000], retries |-> [min |-> 0, max |-> 1],
   usedPercentThreshold |-> [min |-> 0, max |-> 100],
   sampleSize |-> [min |-> 0, max |-> NoMax], confirmations |-> [min |-> 1, max |-> 5],
   interval |-> [min |-> 1, max |-> NoMax]]

NumberFields == {"workers", "deleteWorkers", "timeout", "retries", "usedPercentThreshold",
                 "sampleSize", "confirmations"}
SettingsFields == NumberFields \cup {"targetType", "accountInvalid", "requestError", "policies"}

\* The fields of one record, and of another those it lacks
Over(upper, lower) ==
  [f \in DOMAIN upper \cup DOMAIN lower |-> IF f \in DOMAIN upper THEN upper[f] ELSE lower[f]]

Bounded(v, low, high) == IF v < low THEN low ELSE IF v > high THEN high ELSE v

AutoErrorAction(a) == IF a \in AutoErrorActions THEN a ELSE "none"
TargetType(t) == IF t \in Providers \cup {"all"} THEN t ELSE "all"

\* Settings as they may be read: some of the fields, and numbers where they are.
Numeric(settings) == \A f \in DOMAIN settings \cap NumberFields : settings[f] \in Int

\* What a field of settings may hold that were normalised
Allows(f, v) ==
  CASE f \in NumberFields -> v \in Int
    [] f = "targetType" -> v \in Providers \cup {"all"}
    [] f \in {"accountInvalid", "requestError"} -> v \in AutoErrorActions
    [] OTHER -> TRUE

SettingsOK(settings) ==
  DOMAIN settings = SettingsFields /\ \A f \in SettingsFields : Allows(f, settings[f])

-----------------------------------------------------------------------------
(* The page *)

\* A value below the minimum is replaced by the fallback, or by the minimum
\* where clampBelowMin says so.
ClampInteger(v, fallback, bounds, clampBelowMin) ==
  IF v = Unset \/ (v < bounds.min /\ ~clampBelowMin) THEN fallback
  ELSE Bounded(v, bounds.min, bounds.max)

\* A threshold up to 1 is taken for a fraction of the whole.
NormalizeThreshold(v) ==
  IF v = Unset \/ v < 0 THEN Unset ELSE IF v = 1 THEN 100 ELSE v

NormalizeConfigurableSettings(input) ==
  LET merged == Over(input, Defaults)
      threshold == NormalizeThreshold(merged.usedPercentThreshold)
      workers == ClampInteger(merged.workers, Defaults.workers, Limits.workers, FALSE)
      Clamped(f, below) == ClampInteger(merged[f], Defaults[f], Limits[f], below)
  IN  [targetType |-> TargetType(merged.targetType),
       workers |-> workers,
       deleteWorkers |-> ClampInteger(merged.deleteWorkers, workers, Limits.deleteWorkers, FALSE),
       timeout |-> Clamped("timeout", TRUE),
       retries |-> Clamped("retries", FALSE),
       usedPercentThreshold |-> IF threshold = Unset THEN Defaults.usedPercentThreshold
                                ELSE Bounded(threshold, 0, 100),
       sampleSize |-> Clamped("sampleSize", FALSE),
       confirmations |-> Clamped("confirmations", TRUE),
       accountInvalid |-> AutoErrorAction(merged.accountInvalid),
       requestError |-> AutoErrorAction(merged.requestError),
       policies |-> merged.policies]

\* What the page reads without an answer of the server: the copy in the browser,
\* if there is one, over the section "clean" of the configuration.
LoadConfigurableSettings(clean, local) == NormalizeConfigurableSettings(Over(local, clean))

\* toSettingsDraft: the dialog does not show the confirmations.
DraftOf(settings) == [f \in DOMAIN settings \ {"confirmations"} |-> settings[f]]

\* parseIntegerInRange, and the rule of the threshold
InRange(v, bounds) == v # Unset /\ v >= bounds.min /\ v <= bounds.max

\* Mutant of DraftValid: the workers are not looked at.
DraftValidButWorkers(draft) ==
  \A f \in {"deleteWorkers", "timeout", "retries", "sampleSize", "usedPercentThreshold"} :
    InRange(draft[f], Limits[f])

DraftValid(draft) ==
  \A f \in {"workers", "deleteWorkers", "timeout", "retries", "sampleSize", "usedPercentThreshold"} :
    InRange(draft[f], Limits[f])

HasAutoExecutePolicies(settings) ==
  settings.policies # "off" \/ settings.accountInvalid # "none" \/ settings.requestError # "none"

-----------------------------------------------------------------------------
(* The server: normalizeAccountInspectionSchedule *)
ServerNormalized(settings) ==
  LET OrDefault(f) == IF settings[f] <= 0 THEN Defaults[f] ELSE settings[f]
      workers == Bounded(OrDefault("workers"), 1, 8)
      deleteWorkers == IF settings.deleteWorkers <= 0 THEN workers ELSE settings.deleteWorkers
  IN  [targetType |-> TargetType(settings.targetType),
       workers |-> workers,
       deleteWorkers |-> Bounded(deleteWorkers, 1, 4),
       timeout |-> Bounded(OrDefault("timeout"), 3000, 30000),
       retries |-> Bounded(settings.retries, 0, 1),
       usedPercentThreshold |-> Bounded(settings.usedPercentThreshold, 0, 100),
       sampleSize |-> Bounded(settings.sampleSize, 0, NoMax),
       confirmations |-> Bounded(OrDefault("confirmations"), 1, 5),
       accountInvalid |-> AutoErrorAction(settings.accountInvalid),
       requestError |-> AutoErrorAction(settings.requestError),
       policies |-> settings.policies]
=============================================================================
