---------------------------- MODULE UsagePayload ----------------------------
(***************************************************************************)
(* How the browser keeps a payload of usage details within its limit       *)
(* (useUsageData.ts): the details past the newest Retention are dropped    *)
(* once there are more than Retention + TrimBuffer.  A quickselect finds   *)
(* the last detail to keep.  A payload maps <<endpoint, model>> to the     *)
(* model's details, oldest first; order lists its keys.                    *)
(***************************************************************************)
EXTENDS Integers, Sequences, SequencesExt

CONSTANTS Retention, TrimBuffer

ASSUME RetentionAssumption == Retention \in Nat \ {0} /\ TrimBuffer \in Nat

CountDetails(p) == Len(FlattenSeq([k \in DOMAIN p.order |-> p.details[p.order[k]]]))

\* Every detail with its key and its place in the payload.
Refs(p) ==
    LET keyed(key) == [k \in DOMAIN p.details[key] |-> [key |-> key, time |-> p.details[key][k].time, detail |-> p.details[key][k]]]
        all == FlattenSeq([k \in DOMAIN p.order |-> keyed(p.order[k])])
    IN  [k \in DOMAIN all |-> [key |-> all[k].key, time |-> all[k].time, detail |-> all[k].detail, index |-> k]]

AheadOf(a, b) == a.time > b.time \/ (a.time = b.time /\ a.index > b.index)

Swap(s, i, j) == [s EXCEPT ![i] = s[j], ![j] = s[i]]

\* partitionUsageDetailRefs: <<the refs, where the pivot went>>.
Partition(s, left, right, pivot) ==
    LET moved == Swap(s, pivot, right)
        step(acc, k) == IF AheadOf(acc[1][k], s[pivot]) THEN <<Swap(acc[1], acc[2], k), acc[2] + 1>> ELSE acc
        done == FoldLeft(step, <<moved, left>>, [k \in 1..right - left |-> left + k - 1])
    IN  <<Swap(done[1], done[2], right), done[2]>>

\* selectUsageDetailRef: the ref that would be at the target of the sorted refs.
RECURSIVE SelectBetween(_, _, _, _)
SelectBetween(s, target, left, right) ==
    LET part == Partition(s, left, right, left + (right - left) \div 2)
    IN  IF left > right THEN s[target]
        ELSE IF part[2] = target THEN part[1][target]
        ELSE IF target < part[2] THEN SelectBetween(part[1], target, left, part[2] - 1)
        ELSE SelectBetween(part[1], target, part[2] + 1, right)
SelectRef(s, target) == SelectBetween(s, target, 1, Len(s))

\* trimUsagePayloadDetails: the models keep their order, each its details oldest first.
Trim(p) ==
    IF CountDetails(p) <= Retention + TrimBuffer THEN [p EXCEPT !.count = CountDetails(p)]
    ELSE LET refs == Refs(p)
             cutoff == SelectRef(refs, Retention)
             retained == SelectSeq(refs, LAMBDA r : ~AheadOf(cutoff, r))
             sorted == SortSeq(retained, AheadOf)
             of(key) == SelectSeq(sorted, LAMBDA r : r.key = key)
             details(key) == [k \in DOMAIN of(key) |-> Reverse(of(key))[k].detail]
             kept == SelectSeq(p.order, LAMBDA key : of(key) # <<>>)
         IN  [p EXCEPT !.order = kept, !.details = [key \in ToSet(kept) |-> details(key)],
                       !.count = Len(retained), !.limited = TRUE]

\* The keys of both payloads: endpoint by endpoint, a new model after the endpoint's old ones.
MergedOrder(current, next) ==
    LET all == current.order \o SelectSeq(next.order, LAMBDA key : key \notin ToSet(current.order))
        First(k) == \A j \in 1..k - 1 : all[j][1] # all[k][1]
        firsts == SelectSeq([k \in DOMAIN all |-> k], First)
    IN  FlattenSeq([e \in DOMAIN firsts |-> SelectSeq(all, LAMBDA key : key[1] = all[firsts[e]][1])])

\* mergeUsagePayload: nothing of a payload that is no newer; else the details follow the old ones.
Merge(current, next) ==
    LET of(p, key) == IF key \in DOMAIN p.details THEN p.details[key] ELSE <<>>
        order == MergedOrder(current, next)
    IN  IF next.latest <= current.latest THEN current
        ELSE Trim([order |-> order, details |-> [key \in ToSet(order) |-> of(current, key) \o of(next, key)],
                   requests |-> current.requests + next.requests, latest |-> next.latest,
                   count |-> current.count + next.count, limited |-> current.limited \/ next.limited])
=============================================================================
