------------------------------ MODULE Preload ------------------------------
(***************************************************************************)
(* The preloader: a task of the worker's event loop that looks at what the *)
(* queue will need (_preload_demand), asks each host what it has in memory *)
(* (ps), plans (plan_actions) and carries the plan out, one call after the *)
(* other.  Meanwhile jobs are submitted, dispatched to the hosts and end,  *)
(* and Ollama loads and drops models on its own account.                   *)
(*                                                                         *)
(* Memory is counted in units.  All models can be preloaded, and no alias  *)
(* or size on disk is known: the code never records one.                   *)
(***************************************************************************)
EXTENDS Pool, Filter, Integers

CONSTANTS
  Jobs,            \* numbers, in the order of the queue; they are the pool's Calls
  Concurrency, Lookahead,
  PollLimit, WideLimit,  \* LIMITs of the list of due rows and of the store-wide one
  MaxConcurrent,   \* actions of a plan
  UnloadUnused,    \* preload_unload_unused
  Size, Vram,      \* memory a model needs; memory a host has
  Margin,          \* safety margin, in percent
  Budgets, NoBudget,          \* values of preload_vram_budget_bytes
  UnknownSize,     \* preload_unknown_size_bytes, or NoSize
  NoSize,
  Second,          \* durations are multiples of a second's Second-th part
  KeepAlive, PolicyKeep, MaxKeep,  \* keep_alive of a job, or 0; of the configuration
  MaxFaults        \* bound: calls and RPCs that fail

ASSUME JobsAssumption == Jobs = 1 .. Cardinality(Jobs) /\ Calls = Jobs
ASSUME HostOrderAssumption == IsFiniteSet(Hosts) /\ Hosts = 1 .. Cardinality(Hosts)
ASSUME LimitsAssumption ==
  /\ Concurrency \in Nat /\ Lookahead \in Nat /\ MaxConcurrent \in Int /\ MaxFaults \in Nat
  /\ PollLimit \in Nat /\ WideLimit \in Nat
ASSUME MemoryAssumption ==
  /\ Size \in [Models -> Nat \ {0}] /\ Vram \in [Hosts -> Nat] /\ Margin \in 0 .. 100
  /\ NoBudget \notin Nat /\ NoSize \notin Nat /\ Budgets \subseteq Nat \cup {NoBudget}
ASSUME KeepAssumption ==
  /\ Second \in Nat \ {0}
  /\ KeepAlive \in [Jobs -> Int] /\ PolicyKeep \in Int /\ MaxKeep \in Int

VARIABLES
  job,       \* job[j]: new, queued, starting (in flight, not yet claimed), running, done
  resident,  \* resident[h]: the models in h's memory
  budget,    \* preload_vram_budget_bytes
  known,     \* observed_vram: the models whose size was seen
  hardCap,   \* hardCap[h]: what h held when it ran out of memory, or NoBudget
  shunned,   \* cooldown_until, in ticks
  tick,      \* the tick in progress: what it has read, and what is left to do
  asked,     \* history: the jobs that were due when the tick read the queue
  faults

preloadVars == <<resident, budget, known, hardCap, shunned, tick, asked>>
vars == <<poolVars, job, preloadVars, faults>>

NoDemand == [processing |-> <<>>, next |-> <<>>, soon |-> <<>>, wide |-> {}]
NoTick == [step |-> "idle", demand |-> NoDemand, views |-> <<>>, plan |-> <<>>]

Least(a, b) == IF a < b THEN a ELSE b
Most(a, b) == IF a > b THEN a ELSE b
SetMax(S) == CHOOSE x \in S : \A y \in S : y =< x
Elems(s) == {s[i] : i \in DOMAIN s}
Sum(S) == LET total[T \in SUBSET S] ==
                IF T = {} THEN 0
                ELSE LET m == CHOOSE m \in T : TRUE IN Size[m] + total[T \ {m}]
          IN total[S]

\* S in the order of the queue.
InOrder(S) == Kept([j \in 1 .. Cardinality(Jobs) |-> j], S)

In(states) == {j \in Jobs : job[j] \in states}
ModelsOf(S) == {Model[j] : j \in S}

-----------------------------------------------------------------------------
(* What is wanted.                                                         *)

\* What list returns of the rows S.
First(n, S) == {j \in S : Cardinality({k \in S : k < j}) < n}

\* _preload_demand: jobs in flight are not demand, but those that are not claimed
\* yet still stand in the lists, also in that which store_wide_models is made from.
Demand ==
  LET listed == In({"queued", "starting"})
      ready == InOrder(First(PollLimit, listed) \cap In({"queued"}))
      free == Concurrency - Cardinality(In({"starting", "running"}))
      from == Most(0, free)
  IN [processing |-> InOrder(In({"running"})),
      next |-> SubSeq(ready, 1, Least(from, Len(ready))),
      soon |-> SubSeq(ready, from + 1, Least(from + Lookahead, Len(ready))),
      wide |-> ModelsOf(In({"running"}) \cup First(WideLimit, listed))]

-----------------------------------------------------------------------------
(* The plan: pure functions of a demand d and the views v of the hosts.    *)

\* The models that next and soon name, each once and in order.
Wanted(d) ==
  LET js == d.next \o d.soon
      upto[i \in 0 .. Len(js)] ==
        IF i = 0 THEN <<>>
        ELSE IF Model[js[i]] \in Elems(upto[i - 1]) THEN upto[i - 1]
             ELSE Append(upto[i - 1], Model[js[i]])
  IN upto[Len(js)]

NextModels(d) == ModelsOf(Elems(d.next))
StoreWide(d) == d.wide \cup ModelsOf(Elems(d.processing) \cup Elems(d.next) \cup Elems(d.soon))

Busy(v, h) == v[h].busy > 0
Has(v, h, m) == m \in Elems(v[h].loaded)
Used(v, h) ==
  LET loaded == v[h].loaded
      upto[i \in 0 .. Len(loaded)] == IF i = 0 THEN 0 ELSE upto[i - 1] + Size[loaded[i]]
  IN upto[Len(loaded)]

Total(h) == IF budget # NoBudget THEN budget ELSE hardCap[h]
Usable(v, h) ==
  IF Total(h) = NoBudget THEN 0
  ELSE Most(0, ((Total(h) * (100 - Margin)) \div 100) - Used(v, h))

\* estimate_vram
Estimate(m) == IF m \in known THEN Size[m] ELSE UnknownSize

\* format_keep_alive: whole seconds, the half way to the even one.
Rounded(n) ==
  LET whole == n \div Second
      rest == 2 * (n % Second)
  IN IF rest > Second \/ (rest = Second /\ whole % 2 = 1) THEN whole + 1 ELSE whole
Formatted(n) == IF n =< 0 THEN Second ELSE Second * Rounded(n)

\* keep_alive_for: to Ollama, 0 means "drop it at once" and less "for ever".
KeepAliveFor(d, m) ==
  LET policy == IF PolicyKeep = 0 THEN 300 * Second ELSE PolicyKeep
      longest == IF MaxKeep =< 0 THEN 1800 * Second ELSE MaxKeep
      given == {KeepAlive[j] : j \in {i \in Elems(d.next \o d.soon) : Model[i] = m}}
      chosen == Least(longest, SetMax({policy} \cup {n \in given : n > 0}))
  IN Formatted(IF chosen =< 0 THEN policy ELSE chosen)

\* What a preload sends: if that came to 0, the configured value as it is.
PreloadKeep(d, m) == LET keep == KeepAliveFor(d, m) IN IF keep = 0 THEN PolicyKeep ELSE keep

\* place_model, for a model that no host has: the first idle host, one that served
\* the model recently before the others.
Place(v, m) ==
  LET idle == {h \in DOMAIN v : ~Busy(v, h) /\ shunned[m][h] = 0}
      warm == {h \in idle : m \in v[h].recent}
      from == IF warm = {} THEN idle ELSE warm
  IN IF from = {} THEN NoHost ELSE CHOOSE h \in from : \A k \in from : h =< k

Unknown(v) == \A k \in DOMAIN v : Total(k) = NoBudget

\* Mutant: the free memory is compared before the margin is taken off.
FitsNoMargin(v, h, m, d) ==
  IF Unknown(v) THEN m \in NextModels(d) \/ d.next = <<>>
  ELSE IF Estimate(m) = NoSize THEN m \in NextModels(d)
  ELSE Estimate(m) =< Total(h) - Used(v, h)

\* May m go to h?  Without any total only one guess is made, see Preloads.
Fits(v, h, m, d) ==
  IF Unknown(v) THEN m \in NextModels(d) \/ d.next = <<>>
  ELSE IF Estimate(m) = NoSize THEN m \in NextModels(d)
  ELSE Estimate(m) =< Usable(v, h)

Act(op, m, h, keep) == [op |-> op, model |-> m, host |-> h, keep |-> keep]

Cap == Most(1, MaxConcurrent)
FirstOnes(acts) == SubSeq(acts, 1, Least(Cap, Len(acts)))

\* Idle hosts keep what next or soon will need.
RefreshesOf(d, v, h) ==
  LET keep == Kept(v[h].loaded, Elems(Wanted(d))) IN
  IF Busy(v, h) THEN <<>>
  ELSE [i \in DOMAIN keep |-> Act("refresh", keep[i], h, KeepAliveFor(d, keep[i]))]

Refreshes(d, v) ==
  LET upto[h \in 0 .. Len(v)] == IF h = 0 THEN <<>> ELSE upto[h - 1] \o RefreshesOf(d, v, h)
  IN FirstOnes(upto[Len(v)])

Reserved(acts) == {acts[i].host : i \in DOMAIN acts}

\* Then the wanted models that no host has are loaded, one per host.
MayPreload(d, v, m, out) ==
  LET h == Place(v, m) IN
  /\ Len(out) < Cap
  /\ \A k \in DOMAIN v : ~Has(v, k, m)
  /\ h # NoHost /\ h \notin Reserved(out)
  /\ Fits(v, h, m, d)
  /\ Unknown(v) => ~\E i \in DOMAIN out : out[i].op = "preload"

Preloads(d, v, acts) ==
  LET ms == Wanted(d)
      upto[i \in 0 .. Len(ms)] ==
        IF i = 0 THEN acts
        ELSE IF MayPreload(d, v, ms[i], upto[i - 1])
             THEN Append(upto[i - 1],
                         Act("preload", ms[i], Place(v, ms[i]), PreloadKeep(d, ms[i])))
             ELSE upto[i - 1]
  IN upto[Len(ms)]

\* Then idle hosts with nothing to do drop the first model that nobody wants.
Unwanted(d, v, h) == Kept(v[h].loaded, Models \ StoreWide(d))

MayUnload(d, v, h, out) ==
  /\ UnloadUnused /\ Len(out) < Cap
  /\ ~Busy(v, h) /\ h \notin Reserved(out)
  /\ Unwanted(d, v, h) # <<>>

Unloads(d, v, acts) ==
  LET upto[h \in 0 .. Len(v)] ==
        IF h = 0 THEN acts
        ELSE IF MayUnload(d, v, h, upto[h - 1])
             THEN Append(upto[h - 1], Act("unload", Head(Unwanted(d, v, h)), h, 0))
             ELSE upto[h - 1]
  IN upto[Len(v)]

\* plan_actions
Plan(d, v) == FirstOnes(Unloads(d, v, Preloads(d, v, Refreshes(d, v))))

-----------------------------------------------------------------------------
(* The tick.                                                               *)

ReadQueue ==
  /\ tick.step = "idle"
  /\ tick' = [NoTick EXCEPT !.step = "ps", !.demand = Demand]
  /\ asked' = In({"queued", "starting", "running"})
  /\ UNCHANGED <<poolVars, job, resident, budget, known, hardCap, shunned, faults>>

Orders(S) == {s \in [1 .. Cardinality(S) -> S] : Elems(s) = S}

\* ps of the next host.  The load is read when it answers; the plan follows the
\* last answer without another await.
AskHost ==
  /\ tick.step = "ps"
  /\ LET h == Len(tick.views) + 1
         view(loaded) == [busy |-> inflight[h], loaded |-> loaded, recent |-> Recent(h)]
         next(loaded) == Append(tick.views, view(loaded))
         moved(v) == IF Len(v) < Cardinality(Hosts) THEN [tick EXCEPT !.views = v]
                     ELSE LET plan == Plan(tick.demand, v) IN
                          IF plan = <<>> THEN NoTick
                          ELSE [tick EXCEPT !.step = "act", !.views = v, !.plan = plan]
     IN \/ \E loaded \in Orders(resident[h]) :
             /\ known' = known \cup resident[h]
             /\ tick' = moved(next(loaded))
             /\ UNCHANGED faults
        \/ /\ faults < MaxFaults
           /\ faults' = faults + 1
           /\ tick' = moved(next(<<>>))
           /\ UNCHANGED known
  /\ UNCHANGED <<poolVars, job, resident, budget, hardCap, shunned, asked>>

\* The test of the host's load looks at the view that the plan was made from.
SendAction ==
  /\ tick.step = "act"
  /\ tick' = [tick EXCEPT !.step = "rpc"]
  /\ UNCHANGED <<poolVars, job, resident, budget, known, hardCap, shunned, asked, faults>>

NextAction ==
  tick' = IF Len(tick.plan) = 1 THEN NoTick
          ELSE [tick EXCEPT !.step = "act", !.plan = Tail(@)]

\* What Ollama may do to make room for m, if m fits at all.
Loads(h, m) ==
  LET fitting == {R \in SUBSET (resident[h] \cup {m}) : m \in R /\ Sum(R) =< Vram[h]}
  IN IF fitting = {} THEN {resident[h]} ELSE fitting

InUse(h) == {Model[j] : j \in {i \in Jobs : lease[i] = h}}
After(a) == IF a.op = "unload"
            THEN {resident[a.host] \ ({a.model} \ InUse(a.host))}
            ELSE Loads(a.host, a.model)

SetResident(h, R) == resident' = [resident EXCEPT ![h] = R]

ActionDone ==
  /\ tick.step = "rpc"
  /\ LET a == Head(tick.plan) IN
       /\ \E R \in After(a) : SetResident(a.host, R)
       /\ IF a.op = "preload" THEN Note(a.host, a.model) ELSE UNCHANGED recent
  /\ NextAction
  /\ UNCHANGED <<inflight, cooling, lease, job, budget, known, hardCap, shunned, asked, faults>>

\* It raised, or timed out and was carried out all the same.
ActionFailed ==
  /\ tick.step = "rpc" /\ faults < MaxFaults
  /\ faults' = faults + 1
  /\ LET a == Head(tick.plan) IN
       \E oom \in {FALSE, a.op # "unload"} :
         /\ shunned' = [shunned EXCEPT ![a.model][a.host] = IF oom THEN 2 ELSE 1]
         /\ hardCap' = IF oom THEN [hardCap EXCEPT ![a.host] = Used(tick.views, a.host)]
                       ELSE hardCap
         /\ IF oom THEN UNCHANGED resident
            ELSE \E R \in After(a) \cup {resident[a.host]} : SetResident(a.host, R)
  /\ NextAction
  /\ UNCHANGED <<poolVars, job, budget, known, asked>>

-----------------------------------------------------------------------------
(* Around it: jobs, Ollama and time.                                       *)

SetJob(j, s) == job' = [job EXCEPT ![j] = s]

Submit(j) ==
  /\ job[j] = "new"
  /\ SetJob(j, "queued")
  /\ UNCHANGED <<poolVars, preloadVars, faults>>

Dispatch(j) ==
  /\ job[j] = "queued" /\ Cardinality(In({"starting", "running"})) < Concurrency
  /\ SetJob(j, "starting")
  /\ UNCHANGED <<poolVars, preloadVars, faults>>

\* The claim, and the lease of a host, whose Ollama loads the model.
StartCall(j) ==
  /\ job[j] = "starting"
  /\ SetJob(j, "running")
  /\ Lease(j)
  /\ \E R \in Loads(lease'[j], Model[j]) : SetResident(lease'[j], R)
  /\ UNCHANGED <<budget, known, hardCap, shunned, tick, asked, faults>>

EndCall(j) ==
  /\ job[j] = "running"
  /\ SetJob(j, "done")
  /\ \/ Served(j) /\ UNCHANGED faults
     \/ /\ faults < MaxFaults /\ faults' = faults + 1
        /\ Failed(j) \/ Abandoned(j)
  /\ UNCHANGED preloadVars

\* A model's keep_alive runs out.
Expire(h) ==
  /\ \E m \in resident[h] \ InUse(h) : SetResident(h, resident[h] \ {m})
  /\ UNCHANGED <<poolVars, job, budget, known, hardCap, shunned, tick, asked, faults>>

PassTime ==
  /\ \E m \in Models, h \in Hosts : cooling[m][h] + shunned[m][h] > 0
  /\ PoolTick
  /\ shunned' = [m \in Models |-> [h \in Hosts |-> Most(0, shunned[m][h] - 1)]]
  /\ UNCHANGED <<job, resident, budget, known, hardCap, tick, asked, faults>>

-----------------------------------------------------------------------------

Init ==
  /\ PoolInit
  /\ job = [j \in Jobs |-> "new"]
  /\ resident = [h \in Hosts |-> {}]
  /\ budget \in Budgets
  /\ known = {} /\ hardCap = [h \in Hosts |-> NoBudget]
  /\ shunned = [m \in Models |-> [h \in Hosts |-> 0]]
  /\ tick = NoTick /\ asked = {} /\ faults = 0

TickStep == ReadQueue \/ AskHost \/ SendAction \/ ActionDone \/ ActionFailed

Next ==
  \/ TickStep
  \/ \E j \in Jobs : Submit(j) \/ Dispatch(j) \/ StartCall(j) \/ EndCall(j)
  \/ \E h \in Hosts : Expire(h)
  \/ PassTime

Spec == Init /\ [][Next]_vars

-----------------------------------------------------------------------------
(* Properties.                                                             *)

Action == [op : {"refresh", "preload", "unload"}, model : Models, host : Hosts, keep : Int]

TypeOK ==
  /\ PoolTypeOK
  /\ job \in [Jobs -> {"new", "queued", "starting", "running", "done"}]
  /\ resident \in [Hosts -> SUBSET Models]
  /\ budget \in Budgets /\ known \subseteq Models
  /\ hardCap \in [Hosts -> Nat \cup {NoBudget}]
  /\ shunned \in [Models -> [Hosts -> 0 .. 2]]
  /\ tick.step \in {"idle", "ps", "act", "rpc"}
  /\ tick.plan \in Seq(Action) /\ Len(tick.plan) =< Cap
  /\ asked \subseteq Jobs /\ faults \in Nat

Planned(op) == {a \in Elems(tick.plan) : a.op = op}

\* No plan overfills a host: what it has, as ps said, and what the plan adds stay
\* within the budget less the margin, however many actions the plan has.
PlanFits ==
  \A h \in Hosts :
    LET added == {a.model : a \in {b \in Planned("preload") : b.host = h}} IN
    added # {} /\ added \subseteq known /\ Total(h) # NoBudget =>
      (Used(tick.views, h) + Sum(added)) * 100 =< Total(h) * (100 - Margin)

\* No plan drops a model that a job needed that was due when the queue was read,
\* also if the job was between its dispatch and its claim, as long as the list that
\* the tick reads has them all.
PlanKeepsWanted ==
  Cardinality(asked) =< WideLimit =>
    \A a \in Planned("unload") : a.model \notin ModelsOf(asked)

\* A duration that rounds to nothing: half a second or less.
Brief(n) == 0 < n /\ 2 * n =< Second
BriefFor(m) ==
  \/ Brief(MaxKeep) \/ Brief(PolicyKeep)
  \/ PolicyKeep < 0 /\ \E j \in Jobs : Model[j] = m /\ Brief(KeepAlive[j])
Lasting(a) == a.keep > 0 \/ a.op = "unload" \/ BriefFor(a.model)

\* keep_alive never means "drop at once" or "for ever", however negative, zero and
\* positive values of jobs and configuration are combined, except where it comes
\* from a duration of half a second or less; only an unload says 0 otherwise.
PlanKeepsFinitely == \A a \in Elems(tick.plan) : Lasting(a)

PlanIsSound == PlanFits /\ PlanKeepsWanted /\ PlanKeepsFinitely
=============================================================================
