------------------------------ MODULE AskQuota ------------------------------
(***************************************************************************)
(* The monthly quota in front of ask, search and batch, and the log that   *)
(* meters them.                                                            *)
(*                                                                         *)
(* enforceQuotaGate reads the owner's policy and then usage.log, twice: for *)
(* the member and for the workspace.  The units are appended to the log    *)
(* when the answer is there, in the background for ask and search.  Calls  *)
(* that overlap therefore do not see each other's units, and what bounds   *)
(* the meter is the cap and the number of calls alive at once.  The        *)
(* streaming route passes no gate and records nothing.                     *)
(***************************************************************************)
EXTENDS Naturals, FiniteSets, FiniteSetsExt

CONSTANTS
    Members,       \* user ids
    QuotaCalls,    \* calls of the four routes alive at once, their recordings included
    Puts,          \* calls of PUT /v1/workspace-quota alive at once
    BatchSizes,          \* sizes of a batch
    Limits,        \* limits an owner sets
    DefaultLimit,  \* DEFAULT_FREE_LIMIT
    MaxMonth,      \* bound: the month
    MaxUnits,      \* bound: units of one member in one month
    Unlimited, Keep, Truncated, NoCall

ASSUME QuotaAssumption ==
    /\ BatchSizes \cup Limits \cup {DefaultLimit} \subseteq Nat \ {0} /\ MaxMonth \in Nat
    /\ 1 \in BatchSizes /\ IsFiniteSet(BatchSizes) /\ IsFiniteSet(QuotaCalls) /\ QuotaCalls # {}
    /\ MaxUnits \in Nat /\ Unlimited \notin Nat

VARIABLES
    policy,     \* workspace-quota.json, or Truncated between truncation and write
    put,        \* each PUT: NoCall, or what it is about to write
    metered,    \* usage.log: units by month, in all and of each member
    cutShort,   \* usage.log ends in part of a line
    month,      \* periodOf(Date.now())
    qcall,      \* each call: NoCall, or where it is
    widest,     \* history: the largest limit a call was admitted under, by month
    widestOf    \* history: the same for the member's own limit

quotaVars == <<policy, put, metered, cutShort, month, qcall, widest, widestOf>>

MaxBatch == Max(BatchSizes)
Months == 0..MaxMonth
Policy(workspace, member) == [workspace |-> workspace, member |-> member]
QCall(member, units, limits, period, mine, step) ==
    [member |-> member, units |-> units, limits |-> limits,
     period |-> period, mine |-> mine, step |-> step]

\* An absent file means the free tier for the workspace and no limit of a member's own.
Defaults == Policy(DefaultLimit, Unlimited)

QuotaInit ==
    /\ policy = Defaults
    /\ put = [o \in Puts |-> NoCall]
    /\ metered = [m \in Months |-> [all |-> 0, of |-> [u \in Members |-> 0]]]
    /\ cutShort = FALSE
    /\ month = 0
    /\ qcall = [c \in QuotaCalls |-> NoCall]
    /\ widest = [m \in Months |-> MaxBatch]
    /\ widestOf = [m \in Months |-> [u \in Members |-> MaxBatch]]

QAt(c, step) == qcall[c] # NoCall /\ qcall[c].step = step
QMove(c, limits, period, mine, step) ==
    qcall' = [qcall EXCEPT ![c] = QCall(@.member, @.units, limits, period, mine, step)]
QReturn(c) == qcall' = [qcall EXCEPT ![c] = NoCall]

\* effectiveUserLimit, as the gate passes it on: no limit of a member's own is the default
MemberLimit(p) == IF p.member = Unlimited THEN DefaultLimit ELSE p.member

\* (mutant) the limit must not be reached, however many units are asked for
FitsOne(used, units, limit) == limit = Unlimited \/ used < limit

Fits(used, units, limit) == limit = Unlimited \/ used + units <= limit

\* The wider of two limits
Wider(a, b) == IF Unlimited \in {a, b} THEN Unlimited ELSE Max({a, b})

-----------------------------------------------------------------------------
(* The gate.                                                               *)

\* An ask or a search is one unit, a batch one for each row.
BeginCall(c) ==
    /\ qcall[c] = NoCall
    /\ \E u \in Members, n \in BatchSizes :
         qcall' = [qcall EXCEPT ![c] = QCall(u, n, NoCall, 0, 0, "policy")]
    /\ UNCHANGED <<policy, put, metered, cutShort, month, widest, widestOf>>

\* POST /v1/ask/stream goes straight on, and is no unit.
BeginStream(c) ==
    /\ qcall[c] = NoCall
    /\ \E u \in Members :
         qcall' = [qcall EXCEPT ![c] = QCall(u, 0, NoCall, 0, 0, "running")]
    /\ UNCHANGED <<policy, put, metered, cutShort, month, widest, widestOf>>

\* The month is taken here.  A policy that does not parse is a 500.
ReadQuotaPolicy(c) ==
    /\ QAt(c, "policy")
    /\ IF policy = Truncated THEN QReturn(c)
       ELSE QMove(c, Policy(policy.workspace, MemberLimit(policy)), month, 0, "mine")
    /\ UNCHANGED <<policy, put, metered, cutShort, month, widest, widestOf>>

ReadMine(c) ==
    /\ QAt(c, "mine")
    /\ LET k == qcall[c] IN
       QMove(c, k.limits, k.period, metered[k.period].of[k.member], "workspace")
    /\ UNCHANGED <<policy, put, metered, cutShort, month, widest, widestOf>>

\* Both limits must leave room for the units, or the answer is a 429.
Admit(c) ==
    /\ QAt(c, "workspace")
    /\ LET k == qcall[c] IN
       IF /\ Fits(metered[k.period].all, k.units, k.limits.workspace)
          /\ Fits(k.mine, k.units, k.limits.member)
       THEN /\ QMove(c, NoCall, 0, 0, "running")
            /\ widest' = [widest EXCEPT ![k.period] = Wider(@, k.limits.workspace)]
            /\ widestOf' = [widestOf EXCEPT ![k.period][k.member] = Wider(@, k.limits.member)]
       ELSE QReturn(c) /\ UNCHANGED <<widest, widestOf>>
    /\ UNCHANGED <<policy, put, metered, cutShort, month>>

-----------------------------------------------------------------------------
(* The meter.                                                              *)

\* The answer is there; what it costs is dated now.  A stream costs nothing.
Answered(c) ==
    /\ QAt(c, "running")
    /\ IF qcall[c].units = 0 THEN QReturn(c) ELSE QMove(c, NoCall, month, 0, "append")
    /\ UNCHANGED <<policy, put, metered, cutShort, month, widest, widestOf>>

\* Ask has the answer in its cache or a gate withholds it; any of them throws.
NotMetered(c) ==
    /\ QAt(c, "running")
    /\ QReturn(c)
    /\ UNCHANGED <<policy, put, metered, cutShort, month, widest, widestOf>>

\* A line appended to part of a line is lost with it: readers skip what does not parse.
AppendUsage(c) ==
    /\ QAt(c, "append")
    /\ LET k == qcall[c]
           used == metered[k.period]
       IN
       /\ used.of[k.member] + k.units <= MaxUnits
       /\ metered' = IF cutShort THEN metered
                     ELSE [metered EXCEPT ![k.period] =
                         [all |-> used.all + k.units,
                          of |-> [used.of EXCEPT ![k.member] = @ + k.units]]]
    /\ cutShort' = FALSE
    /\ QReturn(c)
    /\ UNCHANGED <<policy, put, month, widest, widestOf>>

\* A failed append is swallowed; part of the line may be in the file.
AppendUsageFails(c) ==
    /\ QAt(c, "append")
    /\ cutShort' \in {cutShort, TRUE}
    /\ QReturn(c)
    /\ UNCHANGED <<policy, put, metered, month, widest, widestOf>>

-----------------------------------------------------------------------------
(* The owner's policy: read, truncated, written.                           *)

ReadPut(o) ==
    /\ put[o] = NoCall /\ policy # Truncated
    /\ \E w, m \in Limits \cup {Unlimited, Keep} :
         put' = [put EXCEPT ![o] =
             [next |-> Policy(IF w = Keep THEN policy.workspace ELSE w,
                              IF m = Keep THEN policy.member ELSE m),
              step |-> "open"]]
    /\ UNCHANGED <<policy, metered, cutShort, month, qcall, widest, widestOf>>

OpenPut(o) ==
    /\ put[o] # NoCall /\ put[o].step = "open"
    /\ policy' = Truncated
    /\ put' = [put EXCEPT ![o].step = "write"]
    /\ UNCHANGED <<metered, cutShort, month, qcall, widest, widestOf>>

WritePut(o) ==
    /\ put[o] # NoCall /\ put[o].step = "write"
    /\ policy' = put[o].next
    /\ put' = [put EXCEPT ![o] = NoCall]
    /\ UNCHANGED <<metered, cutShort, month, qcall, widest, widestOf>>

-----------------------------------------------------------------------------
NextMonth ==
    /\ month < MaxMonth
    /\ month' = month + 1
    /\ UNCHANGED <<policy, put, metered, cutShort, qcall, widest, widestOf>>

\* Recordings that were under way are lost, one of them perhaps half done.
QuotaCrash ==
    /\ qcall' = [c \in QuotaCalls |-> NoCall]
    /\ put' = [o \in Puts |-> NoCall]
    /\ \/ cutShort' = cutShort
       \/ cutShort' = TRUE /\ \E c \in QuotaCalls : QAt(c, "append")
    /\ UNCHANGED <<policy, metered, month, widest, widestOf>>

QuotaStep(c) ==
    \/ BeginCall(c) \/ BeginStream(c) \/ ReadQuotaPolicy(c) \/ ReadMine(c) \/ Admit(c)
    \/ Answered(c) \/ NotMetered(c) \/ AppendUsage(c) \/ AppendUsageFails(c)
PutStep(o) == ReadPut(o) \/ OpenPut(o) \/ WritePut(o)
QuotaNext ==
    \/ \E c \in QuotaCalls : QuotaStep(c)
    \/ \E o \in Puts : PutStep(o)
    \/ NextMonth \/ QuotaCrash

QuotaSpec == QuotaInit /\ [][QuotaNext]_quotaVars

-----------------------------------------------------------------------------
Policies == [workspace : Limits \cup {DefaultLimit, Unlimited},
             member : Limits \cup {DefaultLimit, Unlimited}]

QuotaTypeOK ==
    /\ policy \in Policies \cup {Truncated} /\ month \in Months /\ cutShort \in BOOLEAN
    /\ \A o \in Puts : put[o] # NoCall => put[o].next \in Policies
    /\ metered \in [Months -> [all : Nat, of : [Members -> 0..MaxUnits]]]
    /\ \A c \in QuotaCalls : qcall[c] # NoCall =>
         /\ qcall[c].step \in {"policy", "mine", "workspace", "running", "append"}
         /\ qcall[c].limits \in Policies \cup {NoCall} /\ qcall[c].period \in Months

\* What a month's calls cost beyond a limit is what the calls alive beside the
\* last one cost (workspace-quota.ts:11, features.md:835): a limit is passed only
\* by calls that overlap, in the workspace and for each member, whatever is set
\* meanwhile, and whichever month a call began in.
MetersAreBounded ==
    LET beside == MaxBatch * (Cardinality(QuotaCalls) - 1) IN
    \A m \in Months :
        /\ widest[m] = Unlimited \/ metered[m].all <= widest[m] + beside
        /\ \A u \in Members : metered[m].of[u] <= widestOf[m][u] + beside

\* (violated) At its limit a workspace starts no stream either (features.md:835).
StreamsStopAtTheLimit ==
    [][\A c \in QuotaCalls :
         QAt(c, "running")' /\ qcall[c] = NoCall
         => policy = Truncated \/ policy.workspace = Unlimited \/ metered[month].all < policy.workspace]_quotaVars
=============================================================================
