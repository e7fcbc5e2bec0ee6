----------------------------- MODULE AlertRules -----------------------------
(* Alert rules with their thresholds, lookup tables and SIEM connections: the  *)
(* operations that dashboard requests, command lines, the chat agent and the   *)
(* watchers run on the files of JsonStores, each in several steps.             *)
EXTENDS JsonStores

CONSTANTS
  RuleId,    \* the ids uuid4 can return; none is returned twice
  Def,       \* rule definitions a payload can hold (see Definition)
  Alert,     \* alerts: [src |-> value of the group_by field, sev |-> severity]
  Table,     \* names of lookup tables
  Provider,  \* ids of connections added on the dashboard
  Batches,   \* the rule files that are imported: sequences of definitions
  Window,    \* threshold.window_minutes, in ticks
  Count,     \* threshold.count
  MaxTime,   \* bound on the clock
  MaxOps,    \* bound on the operations started
  Seeds,     \* the rules files an instance starts with
  Mixes      \* the sets of operations an instance combines, one set per behaviour

VARIABLES
  now,       \* the clock
  started,   \* operations started so far
  loads,     \* loads of the counters so far; the last one's number
  mix,       \* the operations of this behaviour
  used,      \* rule ids handed out
  recorded,  \* history: every match an evaluation counted, saved or not
  returned,  \* history: the counted matches of evaluations that returned
  fired,     \* history: the threshold rules reported as triggered
  kept,      \* history: what was acknowledged as added, with no removal begun
  dropped,   \* history: rules whose removal was begun / was acknowledged
  torn       \* history: the files whose writer died between truncation and text

files == <<disk, tmp, job, raced>>
history == <<recorded, returned, fired, kept, dropped>>
ruleVars == <<disk, tmp, job, raced, now, started, loads, mix, torn, used, recorded,
              returned, fired, kept, dropped>>

NoTable == "no table"
NoKey   == "no key"    \* marks the table itself: an empty table exists

(* What a file, its temporary file and a copy of it may hold.                  *)
Content(f) == CASE f = "rules"     -> [id : RuleId, def : Def]
                [] f = "state"     -> [rule : RuleId, def : Def, src : {a.src : a \in Alert},
                                       sev : {a.sev : a \in Alert}, num : Nat, at : Nat]
                [] f = "lookup"    -> [table : Table, key : {a.src : a \in Alert} \cup {NoKey}]
                [] f = "providers" -> Provider

ASSUME RulesAssumption ==
  /\ Window \in Nat /\ Count \in Nat \ {0} /\ MaxTime \in Nat /\ MaxOps \in Nat
  /\ \A a \in Alert : a = [src |-> a.src, sev |-> a.sev]
  /\ \A d \in Def : d.fault \in {"none", "rule_error", "value_error"}
  /\ \A rs \in Seeds : rs \subseteq Content("rules") /\ IsFiniteSet(rs)
  /\ \A b \in Batches : b \in Seq(Def)

(* A torn file and a missing one are told apart from every content.            *)
ASSUME DiskAssumption ==
  /\ Torn # NoFile
  /\ \A f \in Store : Torn \notin SUBSET Content(f) /\ NoFile \notin SUBSET Content(f)

-----------------------------------------------------------------------------
(* evaluate_condition and evaluate_match: the definitions of an instance ask  *)
(* for a severity (op "in") and may ask for a watchlist (op "in_lookup").     *)
Matches(d, a) ==
  /\ a.sev \in d.sevs
  /\ d.table = NoTable \/ [table |-> d.table, key |-> a.src] \in Load("lookup")

(* _apply_threshold: the bucket of the alert's group keeps what is not older   *)
(* than the window and gains this match.                                       *)
InWindow(e, at) == at - e.at <= Window

Bucket(state, r, a) == {e \in state : e.rule = r.id /\ e.src = a.src}

Entry(p, r, at) == [rule |-> r.id, def |-> r.def, src |-> job[p].alert.src,
                    sev |-> job[p].alert.sev, num |-> job[p].num, at |-> at]

(* evaluate_rule for the rules that matched: buckets of different rules are   *)
(* disjoint, so the order of the loop does not matter.                         *)
AppliedAllKept(state, p, rs) ==   \* mutant: old entries are not dropped
  state \cup {Entry(p, r, job[p].at) : r \in rs}

AppliedAll(state, p, rs) ==
  {e \in state : \A r \in rs : e \in Bucket(state, r, job[p].alert) => InWindow(e, job[p].at)}
    \cup {Entry(p, r, job[p].at) : r \in rs}

MetBeyond(state, p, r) ==   \* mutant: > for >=
  Cardinality(Bucket(state, r, job[p].alert)) > Count

Met(state, p, r) == Cardinality(Bucket(state, r, job[p].alert)) >= Count

-----------------------------------------------------------------------------
Ready(p, op) == /\ job[p].op = "idle" /\ op \in mix /\ started < MaxOps
                /\ started' = started + 1

Work(p, op, f, pos, copy) ==
  [NoJob EXCEPT !.op = op, !.file = f, !.pos = pos, !.copy = copy]

(* evaluate_all reads the rules; without an enabled one it returns at once. *)
EvaluateAll(p, a) ==
  LET enabled == {r \in Load("rules") : r.def.enabled} IN
  /\ Ready(p, "evaluate")
  /\ job' = IF enabled = {} THEN job
            ELSE [job EXCEPT ![p] = [Work(p, "evaluate", "state", "load", {})
                                     EXCEPT !.alert = a, !.rules = enabled]]
  /\ UNCHANGED <<disk, tmp, raced, now, loads, mix, torn, used, history>>

(* ... then the counters, and the clock once for all rules, ... *)
LoadState(p) ==
  /\ job[p].op = "evaluate" /\ job[p].pos = "load"
  /\ job' = [job EXCEPT ![p].pos = "match", ![p].copy = Load("state"), ![p].at = now,
                        ![p].num = loads + 1]
  /\ loads' = loads + 1
  /\ NoteRace(p, "state")
  /\ UNCHANGED <<disk, tmp, now, started, mix, torn, used, history>>

(* ... applies every enabled rule; the result waits for the save to succeed. *)
ApplyRules(p) ==
  LET matched == {r \in job[p].rules : Matches(r.def, job[p].alert)}
      counted == {r \in matched : r.def.threshold}
      after   == AppliedAll(job[p].copy, p, counted)
  IN
  /\ job[p].op = "evaluate" /\ job[p].pos = "match"
  /\ job' = [job EXCEPT ![p].pos = "open", ![p].copy = after, ![p].rules = counted,
                        ![p].hits = {Entry(p, r, job[p].at) :
                                       r \in {s \in counted : Met(after, p, s)}}]
  /\ recorded' = recorded \cup {Entry(p, r, job[p].at) : r \in counted}
  /\ UNCHANGED <<disk, tmp, raced, now, started, loads, mix, torn, used, returned, fired, kept, dropped>>

Evaluated(p) ==
  /\ job[p].op = "evaluate" /\ job[p].pos = "saved"
  /\ returned' = returned \cup {Entry(p, r, job[p].at) : r \in job[p].rules}
  /\ fired' = fired \cup job[p].hits
  /\ job' = [job EXCEPT ![p] = NoJob]
  /\ UNCHANGED <<disk, tmp, raced, now, started, loads, mix, torn, used, recorded, kept, dropped>>

(* The save failed with FileNotFoundError: the callers of evaluate_all go on   *)
(* without rule matches, a request answers 500, an import stops.               *)
Failed(p) ==
  /\ job[p].pos = "failed" /\ ~(job[p].op = "delete" /\ job[p].file = "state")
  /\ job' = [job EXCEPT ![p] = NoJob]
  /\ UNCHANGED <<disk, tmp, raced, now, started, loads, mix, torn, used, history>>

-----------------------------------------------------------------------------
(* The rules file.  create_rule and update_rule load, then validate: nothing   *)
(* is saved for a payload that does not pass.                                  *)
Sound(d) == d.fault = "none"

Edits(p, op, f, copy, items) ==
  /\ job' = [job EXCEPT ![p] = [Work(p, op, f, "open", copy) EXCEPT !.items = items]]
  /\ NoteRace(p, f)

Refused == UNCHANGED <<job, raced>>

CreateRule(p, d) ==
  /\ Ready(p, "create")
  /\ \/ /\ Sound(d)
        /\ \E r \in RuleId \ used :
             /\ used' = used \cup {r}
             /\ Edits(p, "create", "rules", Load("rules") \cup {[id |-> r, def |-> d]}, {r})
     \/ ~Sound(d) /\ Refused /\ UNCHANGED used
  /\ UNCHANGED <<disk, tmp, now, loads, mix, torn, history>>

Replaced(rs, r, d) == {x \in rs : x.id # r} \cup {[id |-> r, def |-> d]}

UpdateRuleAnyway(p, r, d) ==   \* mutant: without the lookup of the id
  /\ Ready(p, "update")
  /\ IF Sound(d) THEN Edits(p, "update", "rules", Replaced(Load("rules"), r, d), {})
     ELSE Refused
  /\ UNCHANGED <<disk, tmp, now, loads, mix, torn, used, history>>

UpdateRule(p, r, d) ==
  /\ Ready(p, "update")
  /\ IF Sound(d) /\ \E x \in Load("rules") : x.id = r
       THEN Edits(p, "update", "rules", Replaced(Load("rules"), r, d), {})
       ELSE Refused
  /\ UNCHANGED <<disk, tmp, now, loads, mix, torn, used, history>>

(* delete_rule: after the rules, its counters, best-effort. *)
DeleteRule(p, r) ==
  /\ Ready(p, "delete")
  /\ IF \E x \in Load("rules") : x.id = r
       THEN /\ Edits(p, "delete", "rules", {x \in Load("rules") : x.id # r}, {r})
            /\ dropped' = dropped \cup {<<"begun", r>>}
            /\ kept' = kept \ {<<"rules", r>>}
       ELSE Refused /\ UNCHANGED <<kept, dropped>>
  /\ UNCHANGED <<disk, tmp, now, loads, mix, torn, used, recorded, returned, fired>>

DropCounters(p) ==
  LET mine == {e \in Load("state") : e.rule \in job[p].items}
      j    == [job[p] EXCEPT !.file = "state", !.copy = Load("state") \ mine,
                             !.pos = IF mine = {} THEN "saved" ELSE "open"]
  IN
  /\ job[p].op = "delete" /\ job[p].file = "rules" /\ job[p].pos = "saved"
  /\ job' = [job EXCEPT ![p] = j]
  /\ raced' = IF mine = {} \/ ~Contended(p, "state") THEN raced ELSE raced \cup {"state"}
  /\ UNCHANGED <<disk, tmp, now, started, loads, mix, torn, used, history>>

RuleDeleted(p) ==
  /\ job[p].op = "delete" /\ job[p].file = "state" /\ job[p].pos \in {"saved", "failed"}
  /\ dropped' = dropped \cup {<<"done", r>> : r \in job[p].items}
  /\ job' = [job EXCEPT ![p] = NoJob]
  /\ UNCHANGED <<disk, tmp, raced, now, started, loads, mix, torn, used, recorded, returned, fired, kept>>

(* A successful create, update, upsert or add answers its caller. *)
Answered(p) ==
  /\ job[p].op \in {"create", "update", "upsert", "remove", "connect", "disconnect"}
  /\ job[p].pos = "saved"
  /\ kept' = kept \cup {<<job[p].file, x>> : x \in job[p].items}
  /\ job' = [job EXCEPT ![p] = NoJob]
  /\ UNCHANGED <<disk, tmp, raced, now, started, loads, mix, torn, used, recorded, returned, fired, dropped>>

-----------------------------------------------------------------------------
(* import_rules takes a snapshot of the names once, then creates, updates or   *)
(* skips one definition after another; each is a load and a save of its own.   *)
ImportRules(p, batch, over) ==
  /\ Ready(p, "import")
  /\ job' = [job EXCEPT ![p] = [Work(p, "import", "rules", "item", {}) EXCEPT
                !.names = {[name |-> r.def.name, id |-> r.id] : r \in Load("rules")},
                !.rest = batch, !.over = over]]
  /\ UNCHANGED <<disk, tmp, raced, now, loads, mix, torn, used, history>>

Known(p, d) == {n \in job[p].names : n.name = d.name}

(* The next definition is passed over: a known name without "overwrite", a    *)
(* RuleError, or an update of a rule that is gone (reported as updated).       *)
PassOver(p) ==
  LET d == Head(job[p].rest) IN
  /\ job[p].op = "import" /\ job[p].pos \in {"item", "saved"} /\ job[p].rest # <<>>
  /\ \/ Known(p, d) # {} /\ ~job[p].over
     \/ /\ Known(p, d) = {} \/ job[p].over
        /\ d.fault = "rule_error" \/ /\ Known(p, d) # {}
                                     /\ \A x \in Load("rules") : \A n \in Known(p, d) : x.id # n.id
  /\ job' = [job EXCEPT ![p].rest = Tail(@), ![p].pos = "item"]
  /\ UNCHANGED <<disk, tmp, raced, now, started, loads, mix, torn, used, history>>

(* float() and int() of a threshold raise ValueError, which is no RuleError:   *)
(* the batch ends here.                                                        *)
ImportStops(p) ==
  LET d == Head(job[p].rest) IN
  /\ job[p].op = "import" /\ job[p].pos \in {"item", "saved"} /\ job[p].rest # <<>>
  /\ d.fault = "value_error"
  /\ \/ Known(p, d) = {}
     \/ job[p].over /\ \E x \in Load("rules"), n \in Known(p, d) : x.id = n.id
  /\ job' = [job EXCEPT ![p] = NoJob]
  /\ UNCHANGED <<disk, tmp, raced, now, started, loads, mix, torn, used, history>>

ImportOne(p) ==
  LET d == Head(job[p].rest) IN
  /\ job[p].op = "import" /\ job[p].pos \in {"item", "saved"} /\ job[p].rest # <<>>
  /\ Sound(d)
  /\ \/ /\ Known(p, d) = {}
        /\ \E r \in RuleId \ used :
             /\ used' = used \cup {r}
             /\ job' = [job EXCEPT ![p].pos = "open", ![p].rest = Tail(@),
                          ![p].copy = Load("rules") \cup {[id |-> r, def |-> d]},
                          ![p].names = @ \cup {[name |-> d.name, id |-> r]},
                          ![p].items = @ \cup {r}]
     \/ /\ job[p].over
        /\ \E n \in Known(p, d) :
             /\ \E x \in Load("rules") : x.id = n.id
             /\ job' = [job EXCEPT ![p].pos = "open", ![p].rest = Tail(@),
                                   ![p].copy = Replaced(Load("rules"), n.id, d)]
        /\ UNCHANGED used
  /\ NoteRace(p, "rules")
  /\ UNCHANGED <<disk, tmp, now, started, loads, mix, torn, history>>

Imported(p) ==
  /\ job[p].op = "import" /\ job[p].pos \in {"item", "saved"} /\ job[p].rest = <<>>
  /\ kept' = kept \cup {<<"rules", r>> : r \in {s \in job[p].items : <<"begun", s>> \notin dropped}}
  /\ job' = [job EXCEPT ![p] = NoJob]
  /\ UNCHANGED <<disk, tmp, raced, now, started, loads, mix, torn, used, recorded, returned, fired, dropped>>

-----------------------------------------------------------------------------
(* upsert_lookup_entry creates the table when it is missing. *)
UpsertEntry(p, t, k) ==
  /\ Ready(p, "upsert")
  /\ Edits(p, "upsert", "lookup", Load("lookup") \cup {[table |-> t, key |-> NoKey],
                                                       [table |-> t, key |-> k]},
           {[table |-> t, key |-> k]})
  /\ UNCHANGED <<disk, tmp, now, loads, mix, torn, used, history>>

(* create_lookup_table raises KeyError for a table that exists. *)
CreateTableAnew(p, t) ==   \* mutant: without the check that it exists
  /\ Ready(p, "upsert")
  /\ Edits(p, "upsert", "lookup",
           {e \in Load("lookup") : e.table # t} \cup {[table |-> t, key |-> NoKey]},
           {[table |-> t, key |-> NoKey]})
  /\ UNCHANGED <<disk, tmp, now, loads, mix, torn, used, history>>

CreateTable(p, t) ==
  /\ Ready(p, "upsert")
  /\ IF [table |-> t, key |-> NoKey] \in Load("lookup") THEN Refused
     ELSE Edits(p, "upsert", "lookup", Load("lookup") \cup {[table |-> t, key |-> NoKey]},
                {[table |-> t, key |-> NoKey]})
  /\ UNCHANGED <<disk, tmp, now, loads, mix, torn, used, history>>

Withdraw(gone) == kept' = {x \in kept : x \notin {<<"lookup", e>> : e \in gone}}

(* delete_lookup_entry and delete_lookup_table: False when there is nothing. *)
RemoveEntries(p, gone) ==
  /\ Ready(p, "remove")
  /\ IF gone = {} THEN Refused /\ UNCHANGED kept
     ELSE Edits(p, "remove", "lookup", Load("lookup") \ gone, {}) /\ Withdraw(gone)
  /\ UNCHANGED <<disk, tmp, now, loads, mix, torn, used, recorded, returned, fired, dropped>>

DeleteEntry(p, t, k) ==
  RemoveEntries(p, {e \in Load("lookup") : e = [table |-> t, key |-> k]})

DeleteTable(p, t) == RemoveEntries(p, {e \in Load("lookup") : e.table = t})

-----------------------------------------------------------------------------
(* siem_providers.py; the connections that .env seeds are never stored. *)
AddProvider(p, x) ==
  /\ Ready(p, "connect") /\ x \notin used /\ used' = used \cup {x}
  /\ Edits(p, "connect", "providers", Load("providers") \cup {x}, {x})
  /\ UNCHANGED <<disk, tmp, now, loads, mix, torn, history>>

RemoveProvider(p, x) ==
  /\ Ready(p, "disconnect")
  /\ IF x \in Load("providers")
       THEN /\ Edits(p, "disconnect", "providers", Load("providers") \ {x}, {})
            /\ kept' = kept \ {<<"providers", x>>}
       ELSE Refused /\ UNCHANGED kept
  /\ UNCHANGED <<disk, tmp, now, loads, mix, torn, used, recorded, returned, fired, dropped>>

-----------------------------------------------------------------------------
Tick == /\ now < MaxTime /\ now' = now + 1
        /\ UNCHANGED <<disk, tmp, job, raced, started, loads, mix, torn, used, history>>

(* A process ends in the middle of an operation.  A rename protects the file;  *)
(* the connections are written in place and stay truncated.                    *)
Crash(p) ==
  /\ "crash" \in mix /\ job[p].op # "idle"
  /\ torn' = torn \cup {f \in InPlace : Holds(p, f) /\ job[p].pos = "write"}
  /\ job' = [job EXCEPT ![p] = NoJob]
  /\ UNCHANGED <<disk, tmp, raced, now, started, loads, mix, used, history>>

RulesInit ==
  /\ \E rs \in Seeds : /\ disk = [f \in Store |-> IF f = "rules" THEN rs ELSE {}]
                       /\ used = {r.id : r \in rs}
                       /\ kept = {<<"rules", r.id>> : r \in rs}
  /\ mix \in Mixes
  /\ tmp = [f \in Store |-> NoFile] /\ job = [p \in Proc |-> NoJob] /\ raced = {} /\ torn = {}
  /\ now = 0 /\ started = 0 /\ loads = 0
  /\ recorded = {} /\ returned = {} /\ fired = {} /\ dropped = {}

Saves(p) == SaveStep(p) /\ UNCHANGED <<now, started, loads, mix, torn, used, history>>

(* The routes and command lines: rules, watchlists, connections. *)
BeginsRules(p) ==
  \/ \E a \in Alert : EvaluateAll(p, a)
  \/ \E d \in Def : CreateRule(p, d)
  \/ \E r \in RuleId, d \in Def : UpdateRule(p, r, d)
  \/ \E r \in RuleId : DeleteRule(p, r)
  \/ \E b \in Batches, over \in BOOLEAN : ImportRules(p, b, over)

BeginsLookup(p) ==
  \E t \in Table :
    \/ CreateTable(p, t) \/ DeleteTable(p, t)
    \/ \E a \in Alert : UpsertEntry(p, t, a.src) \/ DeleteEntry(p, t, a.src)

BeginsProviders(p) == \E x \in Provider : AddProvider(p, x) \/ RemoveProvider(p, x)

Begins(p) == BeginsRules(p) \/ BeginsLookup(p) \/ BeginsProviders(p)

GoesOn(p) ==
  \/ LoadState(p) \/ ApplyRules(p) \/ Evaluated(p) \/ Failed(p)
  \/ DropCounters(p) \/ RuleDeleted(p) \/ Answered(p)
  \/ PassOver(p) \/ ImportStops(p) \/ ImportOne(p) \/ Imported(p)
  \/ Saves(p)

RulesNext == Tick \/ \E p \in Proc : Begins(p) \/ GoesOn(p) \/ Crash(p)

RulesSpec == RulesInit /\ [][RulesNext]_ruleVars

-----------------------------------------------------------------------------
(* A threshold rule is reported as triggered only when, in the window before   *)
(* this alert, at least Count matching alerts of the same group were counted   *)
(* for it (rules.py:16-20), however the unlocked evaluations interleave.       *)
ThresholdIsSound ==
  \A e \in fired :
    Cardinality({x \in recorded : /\ x.rule = e.rule /\ x.src = e.src
                                  /\ x.at <= e.at /\ InWindow(x, e.at)}) >= Count

(* Conversely no alarm is missed: when no two writers ever had the counters at *)
(* the same time, an evaluation that is the Count-th of its window triggers    *)
(* its rule (rules.py:441-472, 543-554).                                       *)
AloneNoAlarmMissed ==
  "state" \notin raced =>
    \A e \in returned :
      \/ e \in fired \/ <<"begun", e.rule>> \in dropped
      \/ Cardinality({x \in returned : /\ x.rule = e.rule /\ x.src = e.src
                                       /\ x.num <= e.num /\ InWindow(x, e.at)}) < Count

(* A file loses what it acknowledged only when two writers have had it at the  *)
(* same time: a crash of one, alone, leaves every acknowledged rule and entry  *)
(* on disk (the rename of _save, rules.py:113-117), and the counts of          *)
(* evaluations that returned.  The connections, which siem_providers.py:111    *)
(* truncates in place, are lost by a lone crash too, but only in that window.  *)
InFile(f, x) == IF f = "rules" THEN \E r \in Load(f) : r.id = x ELSE x \in Load(f)

AloneNothingLost ==
  /\ \A k \in kept : \/ k[1] \in raced \/ InFile(k[1], k[2])
                     \/ \E p \in Proc : Holds(p, k[1]) /\ job[p].fd = "disk"
                     \/ k[1] \in InPlace \cap torn
  /\ \A e \in returned : \/ "state" \in raced \/ <<"begun", e.rule>> \in dropped
                         \/ ~InWindow(e, now) \/ e \in Load("state")

(* The persistent store of connections (siem_providers.py:2): one that was     *)
(* acknowledged outlives a crash of the only process that writes the file.     *)
ConnectionsOutliveCrashes ==
  "providers" \notin raced =>
    \A x \in Provider : <<"providers", x>> \in kept =>
      \/ InFile("providers", x)
      \/ \E p \in Proc : Holds(p, "providers") /\ job[p].fd = "disk"

(* A rule whose deletion was acknowledged is never in the file again, unless   *)
(* two writers had the file at the same time (rules.py:225-242).               *)
AloneDeletedStaysDeleted ==
  "rules" \notin raced => \A r \in RuleId : <<"done", r>> \in dropped => ~InFile("rules", r)

(* Every counted alert is one the rule AS IT FIRED matches: "N matching        *)
(* alerts" (rules.py:16-18).  An update keeps the counters of the definition   *)
(* it replaces.                                                                *)
CountsOwnMatches ==
  \A e \in fired :
    Cardinality({x \in recorded : /\ x.rule = e.rule /\ x.src = e.src
                                  /\ InWindow(x, e.at) /\ x.sev \in e.def.sevs}) >= Count
=============================================================================
