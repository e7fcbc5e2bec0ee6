-------------------------- MODULE AlertRulesProofs --------------------------
(* Proofs about the rule files: a threshold rule that fires was met, and what  *)
(* one writer at a time guarantees.                                            *)
EXTENDS AlertRules, FiniteSetTheorems, TLAPS

-----------------------------------------------------------------------------
(* The types.                                                                  *)
Ops == {"idle", "evaluate", "create", "update", "delete", "import", "upsert", "remove",
        "connect", "disconnect"}
Alerts == [src : {a.src : a \in Alert}, sev : {a.sev : a \in Alert}]
Contents == UNION {Content(f) : f \in Store}
Items == RuleId \cup Content("lookup") \cup Provider

Jobs ==
  [op : Ops, file : Store, copy : SUBSET Contents, num : Nat, at : Nat,
   pos : Holding \cup {"idle", "load", "failed", "item"}, fd : {"none", "tmp", "disk", "gone"},
   alert : Alerts \cup {[src |-> "none", sev |-> "none"]}, rules : SUBSET Content("rules"),
   hits : SUBSET Content("state"), items : SUBSET Items,
   names : SUBSET [name : {d.name : d \in Def}, id : RuleId], rest : Seq(Def), over : BOOLEAN]

(* An operation is on its own file, and on nothing else.                       *)
Own(j, ids) ==
  /\ j.copy \in SUBSET Content(j.file)
  /\ j.op = "evaluate" => j.file = "state" /\ j.alert \in Alerts
  /\ j.op \in {"create", "update", "import"} => j.file = "rules"
  /\ j.op = "delete" => j.file \in {"rules", "state"}
  /\ j.op \in {"upsert", "remove"} => j.file = "lookup"
  /\ j.op \in {"connect", "disconnect"} => j.file = "providers"
  /\ j.op \in {"delete", "import"} => j.items \subseteq RuleId \cap ids
  /\ j.op = "idle" => j = NoJob

TypeInv ==
  /\ job \in [Proc -> Jobs]
  /\ \A p \in Proc : Own(job[p], used)
  /\ disk \in [Store -> {Torn} \cup SUBSET Contents]
  /\ tmp \in [Store -> {Torn, NoFile} \cup SUBSET Contents]
  /\ \A f \in Store : /\ disk[f] # Torn => disk[f] \in SUBSET Content(f)
                      /\ tmp[f] \notin {Torn, NoFile} => tmp[f] \in SUBSET Content(f)
  /\ now \in Nat /\ loads \in Nat
  /\ recorded \subseteq Content("state")

(* The files, and the copies of them: a count was recorded, the rules are      *)
(* finitely many and their ids have been handed out.                           *)
Sane(f, c, counts, ids) ==
  /\ f = "state" => c \subseteq counts
  /\ f = "rules" => IsFiniteSet(c) /\ {x.id : x \in c} \subseteq ids

FilesInv ==
  /\ \A f \in Store : /\ disk[f] # Torn => Sane(f, disk[f], recorded, used)
                      /\ tmp[f] \notin {Torn, NoFile} => Sane(f, tmp[f], recorded, used)
  /\ \A p \in Proc : Sane(job[p].file, job[p].copy, recorded, used)

-----------------------------------------------------------------------------
(* The threshold.                                                              *)
Counted(e) ==
  Cardinality({x \in recorded : /\ x.rule = e.rule /\ x.src = e.src
                                /\ x.at <= e.at /\ InWindow(x, e.at)}) >= Count

CountInv ==
  /\ IsFiniteSet(recorded)
  /\ \A e \in recorded : e.at <= now
  /\ \A p \in Proc : job[p].op = "evaluate" =>
       /\ IsFiniteSet(job[p].rules)
       /\ job[p].pos # "load" => job[p].at <= now /\ \A e \in job[p].copy : e.at <= job[p].at
       /\ \A e \in job[p].hits : Counted(e)
  /\ \A e \in fired : Counted(e)

-----------------------------------------------------------------------------
(* A file nobody can vouch for: two writers met on it, or one died writing in  *)
(* place.                                                                      *)
Spoilt == raced \cup torn

(* One writer at a time.  A deletion that found no counters to drop holds      *)
(* nothing, although it is at the end of a save.                               *)
Held(j, f) ==
  /\ j.file = f /\ j.pos \in Holding
  /\ ~(j.op = "delete" /\ f = "state" /\ j.pos = "saved")

SoloInv ==
  \A f \in Store \ Spoilt : \A p \in Proc : Held(job[p], f) =>
    /\ \A q \in Proc : Held(job[q], f) => q = p
    /\ job[p].pos = "write" =>
         IF f \in InPlace THEN job[p].fd = "disk" /\ disk[f] = Torn
                          ELSE job[p].fd = "tmp" /\ tmp[f] = Torn
    /\ job[p].pos = "replace" => f \notin InPlace /\ tmp[f] = job[p].copy
    /\ job[p].pos = "saved" => disk[f] = job[p].copy

(* Only what is written in place can be left truncated. *)
TornInv == torn \subseteq InPlace

(* What was acknowledged, and what an import has saved and will acknowledge.   *)
Begun(r) == <<"begun", r>> \in dropped
In(f, c, x) == IF f = "rules" THEN \E r \in c : r.id = x ELSE x \in c

Pending(j, x) == j.op = "import" /\ x \in j.items /\ ~Begun(x)
Wanted(f, x) == <<f, x>> \in kept \/ (f = "rules" /\ \E p \in Proc : Pending(job[p], x))

AnswersInv == \A k \in kept : \E f \in Store : \E x : k = <<f, x>>

KeptInv ==
  /\ \A x : <<"state", x>> \notin kept
  /\ \A f \in Store \ Spoilt : \A x :
       <<f, x>> \in kept =>
         \/ In(f, Load(f), x)
         \/ f \in InPlace /\ \E p \in Proc : Held(job[p], f) /\ job[p].pos = "write"
  /\ "rules" \notin Spoilt => \A p \in Proc : \A x \in job[p].items :
       Pending(job[p], x) => In("rules", Load("rules"), x) \/ Held(job[p], "rules")
  /\ \A f \in Store \ Spoilt : \A p \in Proc : Held(job[p], f) =>
       /\ \A x : Wanted(f, x) => In(f, job[p].copy, x)
       /\ job[p].op \notin {"evaluate", "delete", "import"} =>
            \A x \in job[p].items : In(f, job[p].copy, x)

(* The counters of evaluations that returned.                                  *)
EntryOf(j, r) == [rule |-> r.id, def |-> r.def, src |-> j.alert.src, sev |-> j.alert.sev,
                  num |-> j.num, at |-> j.at]
Alike(x, e) == x.rule = e.rule /\ x.src = e.src
Missed(e) == Cardinality({x \in returned : /\ x.rule = e.rule /\ x.src = e.src
                                           /\ x.num <= e.num /\ InWindow(x, e.at)}) < Count

StateInv ==
  /\ returned \subseteq recorded
  /\ \A e \in returned : e.num <= loads
  /\ \A p \in Proc : job[p].num <= loads
  /\ \A p \in Proc : job[p].op = "evaluate" /\ job[p].pos \in {"open", "write", "replace", "saved"} =>
       \A r \in job[p].rules :
         /\ EntryOf(job[p], r) \in job[p].copy
         /\ \/ EntryOf(job[p], r) \in job[p].hits
            \/ Cardinality({x \in job[p].copy : Alike(x, EntryOf(job[p], r))}) < Count
  /\ "state" \notin Spoilt =>
       /\ \A e \in returned : Begun(e.rule) \/ ~InWindow(e, now) \/ e \in Load("state")
       /\ \A e \in returned : e \in fired \/ Begun(e.rule) \/ Missed(e)
       /\ \A p \in Proc : Held(job[p], "state") => \A e \in returned :
            /\ \/ Begun(e.rule) \/ e \in job[p].copy
               \/ ~InWindow(e, IF job[p].op = "evaluate" THEN job[p].at ELSE now)
            /\ job[p].op = "evaluate" => e.num < job[p].num

(* The rules that are gone.                                                    *)
Leaving(j, r) == j.op = "delete" /\ r \in j.items /\ (j.file = "state" \/ j.pos = "saved")
Gone(r) == <<"done", r>> \in dropped \/ \E p \in Proc : Leaving(job[p], r)

GoneInv ==
  /\ \A r \in RuleId : <<"done", r>> \in dropped => r \in used
  /\ \A p \in Proc : job[p].op = "delete" =>
       \A r \in job[p].items : Begun(r) /\ (job[p].file = "rules" => ~In("rules", job[p].copy, r))
  /\ "rules" \notin Spoilt => \A r \in RuleId : Gone(r) =>
       /\ ~In("rules", Load("rules"), r)
       /\ \A p \in Proc : Held(job[p], "rules") => ~In("rules", job[p].copy, r)

RulesInv ==
  /\ TypeInv /\ FilesInv /\ CountInv /\ SoloInv
  /\ AnswersInv /\ KeptInv /\ StateInv /\ GoneInv /\ TornInv

BaseInv == TypeInv /\ FilesInv /\ CountInv /\ SoloInv

-----------------------------------------------------------------------------
(* Jobs.                                                                       *)
LEMMA JobOf ==
  ASSUME TypeInv, NEW p \in Proc
  PROVE  job[p] \in Jobs /\ Own(job[p], used)
BY DEF TypeInv

(* A record with the fields of a job.                                          *)
Shaped(j) ==
  j = [op |-> j.op, file |-> j.file, copy |-> j.copy, num |-> j.num, at |-> j.at,
       pos |-> j.pos, fd |-> j.fd, alert |-> j.alert, rules |-> j.rules, hits |-> j.hits,
       items |-> j.items, names |-> j.names, rest |-> j.rest, over |-> j.over]

LEMMA Shapes ==
  ASSUME NEW j, Shaped(j), j.op \in Ops, j.file \in Store, j.copy \in SUBSET Contents,
         j.num \in Nat, j.at \in Nat,
         j.pos \in Holding \cup {"idle", "load", "failed", "item"},
         j.fd \in {"none", "tmp", "disk", "gone"},
         j.alert \in Alerts \cup {[src |-> "none", sev |-> "none"]},
         j.rules \in SUBSET Content("rules"), j.hits \in SUBSET Content("state"),
         j.items \in SUBSET Items,
         j.names \in SUBSET [name : {d.name : d \in Def}, id : RuleId],
         j.rest \in Seq(Def), j.over \in BOOLEAN
  PROVE  j \in Jobs
BY DEF Shaped, Jobs

LEMMA OneJob ==
  ASSUME TypeInv, NEW p \in Proc, NEW j, job' = [job EXCEPT ![p] = j]
  PROVE  job'[p] = j /\ \A q \in Proc : q # p => job'[q] = job[q]
BY DEF TypeInv

LEMMA NothingAtRest ==
  ASSUME TypeInv
  PROVE  /\ NoJob \in Jobs /\ (\A u : Own(NoJob, u)) /\ (\A u, v : Sane("rules", {}, u, v)) /\ \A f : ~Held(NoJob, f)
         /\ NoJob.op = "idle" /\ NoJob.pos = "idle" /\ NoJob.file = "rules" /\ NoJob.copy = {}
         /\ NoJob.num = 0 /\ NoJob.items = {}
<1>1. <<>> \in Seq(Def)
  OBVIOUS
<1>2. NoJob \in Jobs
  BY <1>1 DEF NoJob, Jobs, Ops, Store
<1>3. IsFiniteSet({})
  BY FS_EmptySet
<1> QED
  BY <1>2, <1>3 DEF NoJob, Own, Sane, Held, Holding

(* What the evaluation in a job needs.                                         *)
Weighed(j) ==
  j.op = "evaluate" =>
    /\ IsFiniteSet(j.rules)
    /\ j.pos # "load" => j.at <= now /\ \A e \in j.copy : e.at <= j.at
    /\ \A e \in j.hits : Counted(e)

(* A job that has just loaded its file, alone or in a race; or that holds none *)
Alone(p, j) ==
  \/ \A f \in Store : ~Held(j, f)
  \/ j.pos \in {"open", "match"} /\ (j.file \in Spoilt' \/ \A q \in Proc \ {p} : ~Holds(q, j.file))

(* A step of one process that leaves the files as they are.                    *)
LEMMA BaseGoes ==
  ASSUME BaseInv, NEW p \in Proc, NEW j \in Jobs, Own(j, used'), Sane(j.file, j.copy, recorded', used'),
         job' = [job EXCEPT ![p] = j], UNCHANGED <<disk, tmp, recorded, now>>,
         loads' \in Nat, used \subseteq used', Spoilt \subseteq Spoilt',
         Weighed(j), \A e \in fired' : Counted(e), Alone(p, j)
  PROVE  BaseInv'
<1> USE DEF BaseInv
<1>1. job'[p] = j /\ \A q \in Proc : q # p => job'[q] = job[q]
  BY OneJob
<1>2. TypeInv'
  <2>1. job' \in [Proc -> Jobs]
    BY DEF TypeInv
  <2>2. \A q \in Proc : Own(job'[q], used')
    <3> TAKE q \in Proc
    <3>1. CASE q = p
      <4>1. Own(j, used')
        OBVIOUS
      <4> QED
        BY <1>1, <3>1, <4>1 DEF Own
    <3>2. CASE q # p
      <4>1. Own(job[q], used)
        BY DEF TypeInv
      <4>2. job'[q] = job[q]
        BY <1>1, <3>2
      <4> QED
        BY <4>1, <4>2 DEF Own
    <3> QED
      BY <3>1, <3>2
  <2>3. /\ disk' \in [Store -> {Torn} \cup SUBSET Contents]
        /\ tmp' \in [Store -> {Torn, NoFile} \cup SUBSET Contents]
        /\ \A f \in Store : /\ disk'[f] # Torn => disk'[f] \in SUBSET Content(f)
                            /\ tmp'[f] \notin {Torn, NoFile} => tmp'[f] \in SUBSET Content(f)
        /\ now' \in Nat /\ recorded' \subseteq Content("state")
    BY DEF TypeInv
  <2> QED
    BY <2>1, <2>2, <2>3 DEF TypeInv
<1>3. FilesInv'
  <2>1. \A f, c : Sane(f, c, recorded, used) => Sane(f, c, recorded', used')
    BY DEF Sane
  <2> QED
    BY <1>1, <2>1 DEF FilesInv
<1>4. CountInv'
  <2>1. \A e : Counted(e)' = Counted(e)
    BY DEF Counted
  <2>2. \A q \in Proc : Weighed(job'[q])
    BY <1>1 DEF CountInv, Weighed
  <2> QED
    BY <2>1, <2>2 DEF CountInv, Weighed
<1>5. SoloInv'
  <2> SUFFICES ASSUME NEW f \in Store \ Spoilt', NEW q \in Proc, Held(job'[q], f)
               PROVE  /\ \A r \in Proc : Held(job'[r], f) => r = q
                      /\ job'[q].pos = "write" =>
                           IF f \in InPlace THEN job'[q].fd = "disk" /\ disk[f] = Torn
                                            ELSE job'[q].fd = "tmp" /\ tmp[f] = Torn
                      /\ job'[q].pos = "replace" => f \notin InPlace /\ tmp[f] = job'[q].copy
                      /\ job'[q].pos = "saved" => disk[f] = job'[q].copy
    BY DEF SoloInv
  <2>1. f \in Store \ Spoilt
    OBVIOUS
  <2>2. CASE \A g \in Store : ~Held(j, g)
    <3>1. \A r \in Proc : Held(job'[r], f) => r # p /\ Held(job[r], f) /\ job'[r] = job[r]
      BY <1>1, <2>1, <2>2
    <3> QED
      BY <2>1, <3>1 DEF SoloInv
  <2>3. CASE j.pos \in {"open", "match"} /\ (j.file \in Spoilt' \/ \A r \in Proc \ {p} : ~Holds(r, j.file))
    <3>1. CASE f = j.file
      <4>1. \A r \in Proc : r # p => ~Held(job'[r], f)
        BY <1>1, <2>3, <3>1 DEF Held, Holds
      <4> QED
        BY <1>1, <2>3, <4>1
    <3>2. CASE f # j.file
      <4>1. \A r \in Proc : Held(job'[r], f) => r # p /\ Held(job[r], f) /\ job'[r] = job[r]
        BY <1>1, <3>2 DEF Held
      <4> QED
        BY <2>1, <4>1 DEF SoloInv
    <3> QED
      BY <3>1, <3>2
  <2> QED
    BY <2>2, <2>3 DEF Alone
<1> QED
  BY <1>2, <1>3, <1>4, <1>5

-----------------------------------------------------------------------------
(* The steps that load a file, and those that end an operation.                *)
LEMMA Loaded ==
  ASSUME TypeInv, FilesInv, NEW f \in Store
  PROVE  /\ Load(f) \in SUBSET Content(f) /\ Content(f) \subseteq Contents
         /\ Sane(f, Load(f), recorded, used)
<1>1. Content(f) \subseteq Contents
  BY DEF Contents
<1>2. CASE disk[f] = Torn
  <2>1. IsFiniteSet({})
    BY FS_EmptySet
  <2> QED
    BY <1>1, <1>2, <2>1 DEF Load, Sane
<1>3. CASE disk[f] # Torn
  BY <1>1, <1>3 DEF Load, TypeInv, FilesInv
<1> QED
  BY <1>2, <1>3

(* The job of an operation that has loaded its file and changed its copy.       *)
Editing(j, op, f, copy, items) ==
  /\ j.op = op /\ j.file = f /\ j.pos = "open" /\ j.copy = copy /\ j.num = 0
  /\ j.items = items /\ j.rules = {} /\ j.hits = {}

LEMMA EditsGoes ==
  ASSUME BaseInv, NEW p \in Proc, NEW op \in Ops \ {"idle", "evaluate"}, NEW f \in Store,
         NEW copy \in SUBSET Content(f), NEW items \in SUBSET Items,
         Edits(p, op, f, copy, items), UNCHANGED <<disk, tmp, torn, recorded, fired, now, loads>>,
         used \subseteq used', Sane(f, copy, recorded, used'),
         op \in {"create", "update", "delete", "import"} => f = "rules",
         op \in {"upsert", "remove"} => f = "lookup",
         op \in {"connect", "disconnect"} => f = "providers",
         op \in {"delete", "import"} => items \subseteq RuleId \cap used'
  PROVE  /\ BaseInv'
         /\ \E j : Editing(j, op, f, copy, items) /\ job' = [job EXCEPT ![p] = j]
         /\ Spoilt' = Spoilt \cup {g \in {f} : Contended(p, f)}
<1>1. PICK j : j = [Work(p, op, f, "open", copy) EXCEPT !.items = items]
  OBVIOUS
<1>2. job' = [job EXCEPT ![p] = j] /\ Spoilt' = Spoilt \cup {g \in {f} : Contended(p, f)}
  BY <1>1 DEF Edits, NoteRace, Spoilt
<1>3. /\ Editing(j, op, f, copy, items) /\ j.fd = "none" /\ j.at = 0
      /\ j.alert = [src |-> "none", sev |-> "none"] /\ j.names = {} /\ j.rest = <<>>
      /\ j.over = FALSE
  BY <1>1 DEF Work, NoJob, Editing
<1>4. j \in Jobs
  <2>1. Shaped(j)
    BY <1>1 DEF Work, NoJob, Shaped
  <2>2. <<>> \in Seq(Def)
    OBVIOUS
  <2>3. copy \in SUBSET Contents
    BY DEF Contents
  <2>4. /\ j.op \in Ops /\ j.file \in Store /\ j.copy \in SUBSET Contents /\ j.num \in Nat
        /\ j.pos \in Holding /\ j.items \in SUBSET Items
        /\ j.rules \in SUBSET Content("rules") /\ j.hits \in SUBSET Content("state")
    BY <1>3, <2>3 DEF Editing, Holding
  <2>5. /\ j.at \in Nat /\ j.fd \in {"none", "tmp", "disk", "gone"}
        /\ j.alert \in Alerts \cup {[src |-> "none", sev |-> "none"]}
        /\ j.names \in SUBSET [name : {d.name : d \in Def}, id : RuleId]
        /\ j.rest \in Seq(Def)
    BY <1>3, <2>2
  <2>7. j.over \in BOOLEAN
    BY <1>3, Zenon
  <2>6. j.pos \in Holding \cup {"idle", "load", "failed", "item"}
    BY <2>4
  <2> QED
    BY <2>1, <2>4, <2>5, <2>6, <2>7, Shapes
<1>5. Own(j, used')
  BY <1>3 DEF Own, Ops, Editing
<1>6. Weighed(j)
  BY <1>3 DEF Weighed, Editing
<1>7. Alone(p, j)
  <2>1. f \in Spoilt' \/ \A q \in Proc \ {p} : ~Holds(q, f)
    BY <1>2 DEF Contended
  <2> QED
    BY <1>3, <2>1 DEF Alone, Editing
<1>8. loads' \in Nat /\ Spoilt \subseteq Spoilt' /\ \A e \in fired' : Counted(e)
  BY <1>2 DEF BaseInv, TypeInv, CountInv
<1>9. Sane(j.file, j.copy, recorded', used')
  BY <1>3 DEF Editing
<1>10. BaseInv'
  BY <1>2, <1>4, <1>5, <1>6, <1>7, <1>8, <1>9, BaseGoes
<1> QED
  BY <1>2, <1>3, <1>10

LEMMA EndGoes ==
  ASSUME BaseInv, NEW p \in Proc, job' = [job EXCEPT ![p] = NoJob],
         UNCHANGED <<disk, tmp, recorded, now, loads, used>>, Spoilt \subseteq Spoilt',
         \A e \in fired' : Counted(e)
  PROVE  BaseInv'
<1>1. /\ NoJob \in Jobs /\ Own(NoJob, used') /\ Sane(NoJob.file, NoJob.copy, recorded', used')
      /\ Alone(p, NoJob) /\ Weighed(NoJob)
  <2>1. /\ NoJob \in Jobs /\ (\A u : Own(NoJob, u)) /\ (\A u, v : Sane("rules", {}, u, v))
        /\ (\A f : ~Held(NoJob, f)) /\ NoJob.op = "idle" /\ NoJob.file = "rules" /\ NoJob.copy = {}
    BY NothingAtRest DEF BaseInv
  <2>2. Sane(NoJob.file, NoJob.copy, recorded', used')
    BY <2>1
  <2>3. Alone(p, NoJob) /\ Weighed(NoJob)
    BY <2>1 DEF Alone, Weighed
  <2> QED
    BY <2>1, <2>2, <2>3
<1>2. loads' \in Nat
  BY DEF BaseInv, TypeInv
<1> QED
  BY <1>1, <1>2, BaseGoes

LEMMA Stays ==
  ASSUME BaseInv, UNCHANGED <<disk, tmp, job, Spoilt, used, loads, recorded, fired>>,
         now' \in Nat, now' >= now
  PROVE  BaseInv'
<1>1. TypeInv' /\ FilesInv' /\ SoloInv'
  BY DEF BaseInv, TypeInv, FilesInv, SoloInv
<1>2. CountInv'
  <2>1. \A e : Counted(e)' = Counted(e)
    BY DEF Counted
  <2>2. \A n : n \in recorded => n.at \in Nat
    BY DEF BaseInv, TypeInv, Content
  <2>3. \A q \in Proc : job[q].at \in Nat
    BY DEF BaseInv, TypeInv, Jobs
  <2>4. now \in Nat
    BY DEF BaseInv, TypeInv
  <2>5. \A n \in Nat : n <= now => n <= now'
    BY <2>4
  <2>6. IsFiniteSet(recorded)' /\ (\A e \in recorded : e.at <= now)' /\ (\A e \in fired : Counted(e))'
    BY <2>1, <2>2, <2>5 DEF BaseInv, CountInv
  <2>7. ASSUME NEW q \in Proc, job[q].op = "evaluate"
        PROVE  /\ IsFiniteSet(job[q].rules)
               /\ job[q].pos # "load" => job[q].at <= now' /\ \A e \in job[q].copy : e.at <= job[q].at
               /\ \A e \in job[q].hits : Counted(e)'
    BY <2>1, <2>3, <2>5, <2>7 DEF BaseInv, CountInv
  <2> QED
    BY <2>6, <2>7 DEF CountInv
<1> QED
  BY <1>1, <1>2 DEF BaseInv

-----------------------------------------------------------------------------
(* The evaluation of an alert.                                                 *)
LEMMA EvaluateAllGoes ==
  ASSUME BaseInv, NEW p \in Proc, NEW a \in Alert, EvaluateAll(p, a)
  PROVE  BaseInv'
<1>1. PICK enabled : enabled = {r \in Load("rules") : r.def.enabled}
  OBVIOUS
<1>2. CASE enabled = {}
  <2>1. job' = job /\ UNCHANGED <<disk, tmp, Spoilt, used, loads, recorded, fired, now>>
    BY <1>1, <1>2 DEF EvaluateAll, history, Spoilt
  <2>2. now' \in Nat /\ now' >= now
    BY <2>1 DEF BaseInv, TypeInv
  <2> QED
    BY <2>1, <2>2, Stays
<1>3. CASE enabled # {}
  <2>1. PICK j : j = [Work(p, "evaluate", "state", "load", {}) EXCEPT !.alert = a, !.rules = enabled]
    OBVIOUS
  <2>2. /\ job' = [job EXCEPT ![p] = j]
        /\ UNCHANGED <<disk, tmp, Spoilt, used, loads, recorded, fired, now>>
    BY <1>1, <1>3, <2>1 DEF EvaluateAll, history, Spoilt
  <2>3. /\ j.op = "evaluate" /\ j.file = "state" /\ j.pos = "load" /\ j.copy = {} /\ j.num = 0
        /\ j.at = 0 /\ j.fd = "none" /\ j.alert = a /\ j.rules = enabled /\ j.hits = {}
        /\ j.items = {} /\ j.names = {} /\ j.rest = <<>> /\ Shaped(j)
    BY <2>1 DEF Work, NoJob, Shaped
  <2>4. j.over = FALSE
    BY <2>1 DEF Work, NoJob
  <2>5. a \in Alerts
    BY RulesAssumption DEF Alerts
  <2>6. enabled \in SUBSET Content("rules") /\ IsFiniteSet(enabled)
    <3>1. Load("rules") \in SUBSET Content("rules") /\ IsFiniteSet(Load("rules"))
      BY Loaded DEF BaseInv, Store, Sane
    <3> QED
      BY <1>1, <3>1, FS_Subset
  <2>7. j \in Jobs
    <3>1. <<>> \in Seq(Def)
      OBVIOUS
    <3>2. j.over \in BOOLEAN
      BY <2>4, Zenon
    <3>3. /\ j.op \in Ops /\ j.file \in Store /\ j.copy \in SUBSET Contents /\ j.num \in Nat
          /\ j.at \in Nat /\ j.pos \in Holding \cup {"idle", "load", "failed", "item"}
          /\ j.fd \in {"none", "tmp", "disk", "gone"}
      BY <2>3 DEF Ops, Store
    <3>4. /\ j.alert \in Alerts \cup {[src |-> "none", sev |-> "none"]}
          /\ j.rules \in SUBSET Content("rules") /\ j.hits \in SUBSET Content("state")
          /\ j.items \in SUBSET Items
          /\ j.names \in SUBSET [name : {d.name : d \in Def}, id : RuleId]
          /\ j.rest \in Seq(Def)
      BY <2>3, <2>5, <2>6, <3>1
    <3> QED
      BY <2>3, <3>2, <3>3, <3>4, Shapes
  <2>8. Own(j, used') /\ Sane(j.file, j.copy, recorded', used') /\ Weighed(j) /\ Alone(p, j)
    BY <2>3, <2>5, <2>6 DEF Own, Sane, Weighed, Alone, Held, Holding
  <2>9. loads' \in Nat /\ Spoilt \subseteq Spoilt' /\ used \subseteq used' /\ \A e \in fired' : Counted(e)
    BY <2>2 DEF BaseInv, TypeInv, CountInv
  <2> QED
    BY <2>2, <2>7, <2>8, <2>9, BaseGoes
<1> QED
  BY <1>2, <1>3

LEMMA LoadStateGoes ==
  ASSUME BaseInv, NEW p \in Proc, LoadState(p)
  PROVE  BaseInv'
<1>1. PICK j : j = [job[p] EXCEPT !.pos = "match", !.copy = Load("state"), !.at = now,
                                  !.num = loads + 1]
  OBVIOUS
<1>2. /\ job' = [job EXCEPT ![p] = j] /\ Spoilt' = Spoilt \cup {g \in {"state"} : Contended(p, "state")}
      /\ job[p].op = "evaluate" /\ job[p].pos = "load" /\ loads' = loads + 1
      /\ UNCHANGED <<disk, tmp, used, recorded, fired, now>>
  BY <1>1 DEF LoadState, NoteRace, history, Spoilt
<1>3. job[p] \in Jobs /\ Own(job[p], used)
  BY JobOf DEF BaseInv
<1>4. /\ j.op = "evaluate" /\ j.file = job[p].file /\ j.pos = "match" /\ j.copy = Load("state")
      /\ j.num = loads + 1 /\ j.at = now /\ j.fd = job[p].fd /\ j.alert = job[p].alert
      /\ j.rules = job[p].rules /\ j.hits = job[p].hits /\ j.items = job[p].items
      /\ j.names = job[p].names /\ j.rest = job[p].rest
  BY <1>1, <1>2, <1>3 DEF Jobs
<1>5. /\ Load("state") \in SUBSET Content("state") /\ Content("state") \subseteq Contents
      /\ Sane("state", Load("state"), recorded, used)
  BY Loaded DEF BaseInv, Store
<1>6. job[p].file = "state" /\ job[p].alert \in Alerts
  BY <1>2, <1>3 DEF Own
<1>7. now \in Nat /\ loads \in Nat
  BY DEF BaseInv, TypeInv
<1>8. j \in Jobs
  <2>1. Shaped(j) /\ j.over \in BOOLEAN
    BY <1>1, <1>3 DEF Jobs, Shaped
  <2>2. /\ j.op \in Ops /\ j.file \in Store /\ j.copy \in SUBSET Contents /\ j.num \in Nat
        /\ j.at \in Nat /\ j.pos \in Holding \cup {"idle", "load", "failed", "item"}
    BY <1>4, <1>5, <1>6, <1>7 DEF Ops, Store, Holding
  <2>3. /\ j.fd \in {"none", "tmp", "disk", "gone"}
        /\ j.alert \in Alerts \cup {[src |-> "none", sev |-> "none"]}
        /\ j.rules \in SUBSET Content("rules") /\ j.hits \in SUBSET Content("state")
        /\ j.items \in SUBSET Items
        /\ j.names \in SUBSET [name : {d.name : d \in Def}, id : RuleId]
        /\ j.rest \in Seq(Def)
    BY <1>3, <1>4 DEF Jobs
  <2> QED
    BY <2>1, <2>2, <2>3, Shapes
<1>9. Own(j, used') /\ Sane(j.file, j.copy, recorded', used') /\ loads' \in Nat
  BY <1>2, <1>4, <1>5, <1>6, <1>7 DEF Own
<1>10. Weighed(j)
  <2>1. \A e \in Load("state") : e.at <= now
    BY <1>5 DEF Sane, BaseInv, CountInv
  <2>2. IsFiniteSet(job[p].rules) /\ \A e \in job[p].hits : Counted(e)
    BY <1>2 DEF BaseInv, CountInv
  <2> QED
    BY <1>4, <1>7, <2>1, <2>2 DEF Weighed
<1>11. Alone(p, j)
  BY <1>2, <1>4, <1>6 DEF Alone, Contended
<1>12. \A e \in fired' : Counted(e)
  BY <1>2 DEF BaseInv, CountInv
<1> QED
  BY <1>2, <1>8, <1>9, <1>10, <1>11, <1>12, BaseGoes

LEMMA CountedGrows ==
  ASSUME recorded \subseteq recorded', IsFiniteSet(recorded'), NEW e, Counted(e)
  PROVE  Cardinality({x \in recorded' : /\ x.rule = e.rule /\ x.src = e.src
                                        /\ x.at <= e.at /\ InWindow(x, e.at)}) >= Count
<1>1. PICK S : S = {x \in recorded : /\ x.rule = e.rule /\ x.src = e.src
                                     /\ x.at <= e.at /\ InWindow(x, e.at)}
  OBVIOUS
<1>2. PICK T : T = {x \in recorded' : /\ x.rule = e.rule /\ x.src = e.src
                                      /\ x.at <= e.at /\ InWindow(x, e.at)}
  OBVIOUS
<1>3. S \subseteq T /\ T \subseteq recorded'
  BY <1>1, <1>2
<1>4. IsFiniteSet(T) /\ Cardinality(S) <= Cardinality(T) /\ IsFiniteSet(S)
  BY <1>3, FS_Subset
<1>5. Cardinality(S) \in Nat /\ Cardinality(T) \in Nat
  BY <1>4, FS_CardinalityType
<1>6. Cardinality(S) >= Count
  BY <1>1 DEF Counted
<1> QED
  BY <1>2, <1>4, <1>5, <1>6, RulesAssumption

(* What an evaluation puts into its copy, and what it found there.             *)
LEMMA Applied ==
  ASSUME BaseInv, NEW p \in Proc, job[p].op = "evaluate", job[p].pos = "match",
         NEW rs \in SUBSET Content("rules"), IsFiniteSet(rs)
  PROVE  /\ {Entry(p, r, job[p].at) : r \in rs} \in SUBSET Content("state")
         /\ IsFiniteSet({Entry(p, r, job[p].at) : r \in rs})
         /\ AppliedAll(job[p].copy, p, rs) \in
              SUBSET (recorded \cup {Entry(p, r, job[p].at) : r \in rs})
         /\ \A x \in AppliedAll(job[p].copy, p, rs) : x.at <= job[p].at /\ job[p].at <= now
         /\ \A r \in rs, x \in AppliedAll(job[p].copy, p, rs) :
              x.rule = r.id /\ x.src = job[p].alert.src => InWindow(x, job[p].at)
<1>1. job[p] \in Jobs /\ Own(job[p], used)
  BY JobOf DEF BaseInv
<1>2. PICK E : E = {Entry(p, r, job[p].at) : r \in rs}
  OBVIOUS
<1>3. \A r \in rs : /\ Entry(p, r, job[p].at) \in Content("state")
                    /\ Entry(p, r, job[p].at).at = job[p].at
  BY <1>1 DEF Own, Entry, Content, Jobs, Alerts
<1>4. E \in SUBSET Content("state") /\ \A x \in E : x.at = job[p].at
  BY <1>2, <1>3
<1>5. IsFiniteSet(E)
  <2>1. PICK g : g = [r \in rs |-> Entry(p, r, job[p].at)]
    OBVIOUS
  <2>2. g \in Surjection(rs, E)
    BY <1>2, <2>1 DEF Surjection
  <2> QED
    BY <2>2, FS_Surjection
<1>6. ASSUME NEW x \in AppliedAll(job[p].copy, p, rs)
      PROVE  \/ x \in job[p].copy /\ \A r \in rs : x \in Bucket(job[p].copy, r, job[p].alert)
                                                  => InWindow(x, job[p].at)
             \/ x \in E
  BY <1>2 DEF AppliedAll
<1>7. job[p].file = "state" /\ job[p].copy \subseteq recorded
  BY <1>1 DEF Own, BaseInv, FilesInv, Sane
<1>8. job[p].at <= now /\ job[p].at \in Nat /\ \A x \in job[p].copy : x.at <= job[p].at
  BY <1>1 DEF BaseInv, CountInv, Jobs
<1>9. \A x \in E : InWindow(x, job[p].at) /\ x.at <= job[p].at
  BY <1>4, <1>8, RulesAssumption DEF InWindow
<1>10. AppliedAll(job[p].copy, p, rs) \in SUBSET (recorded \cup E)
  BY <1>6, <1>7
<1>11. \A x \in AppliedAll(job[p].copy, p, rs) : x.at <= job[p].at
  BY <1>6, <1>8, <1>9
<1>12. \A r \in rs, x \in AppliedAll(job[p].copy, p, rs) :
         x.rule = r.id /\ x.src = job[p].alert.src => InWindow(x, job[p].at)
  BY <1>6, <1>9 DEF Bucket
<1> QED
  BY <1>2, <1>4, <1>5, <1>8, <1>10, <1>11, <1>12

(* The job and the history after the rules are applied.                        *)
LEMMA AfterApply ==
  ASSUME BaseInv, NEW p \in Proc, ApplyRules(p)
  PROVE  \E j \in Jobs, rs \in SUBSET job[p].rules :
           /\ job' = [job EXCEPT ![p] = j]
           /\ job[p].op = "evaluate" /\ job[p].pos = "match"
           /\ j.op = "evaluate" /\ j.pos = "open" /\ j.file = job[p].file
           /\ j.num = job[p].num /\ j.at = job[p].at /\ j.items = job[p].items
           /\ j.alert = job[p].alert /\ j.rules = rs /\ IsFiniteSet(rs)
           /\ j.copy = AppliedAll(job[p].copy, p, rs)
           /\ j.hits = {Entry(p, r, job[p].at) : r \in {s \in rs : Met(j.copy, p, s)}}
           /\ recorded' = recorded \cup {Entry(p, r, job[p].at) : r \in rs}
           /\ UNCHANGED <<disk, tmp, Spoilt, now, started, loads, used, returned, fired, kept, dropped>>
<1>1. PICK rs : rs = {r \in {q \in job[p].rules : Matches(q.def, job[p].alert)} : r.def.threshold}
  OBVIOUS
<1>2. PICK after : after = AppliedAll(job[p].copy, p, rs)
  OBVIOUS
<1>3. PICK hits : hits = {Entry(p, r, job[p].at) : r \in {s \in rs : Met(after, p, s)}}
  OBVIOUS
<1>4. PICK j : j = [job[p] EXCEPT !.pos = "open", !.copy = after, !.rules = rs, !.hits = hits]
  OBVIOUS
<1>5. /\ job' = [job EXCEPT ![p] = j] /\ job[p].op = "evaluate" /\ job[p].pos = "match"
      /\ recorded' = recorded \cup {Entry(p, r, job[p].at) : r \in rs}
      /\ UNCHANGED <<disk, tmp, Spoilt, now, started, loads, used, returned, fired, kept, dropped>>
  BY <1>1, <1>2, <1>3, <1>4 DEF ApplyRules, Spoilt
<1>6. job[p] \in Jobs /\ Own(job[p], used)
  BY JobOf DEF BaseInv
<1>7. /\ j.op = job[p].op /\ j.file = job[p].file /\ j.pos = "open" /\ j.copy = after
      /\ j.num = job[p].num /\ j.at = job[p].at /\ j.fd = job[p].fd /\ j.alert = job[p].alert
      /\ j.rules = rs /\ j.hits = hits /\ j.items = job[p].items
      /\ j.names = job[p].names /\ j.rest = job[p].rest
  BY <1>4, <1>6 DEF Jobs
<1>8. rs \in SUBSET job[p].rules /\ rs \in SUBSET Content("rules") /\ IsFiniteSet(rs)
  <2>1. IsFiniteSet(job[p].rules) /\ rs \in SUBSET job[p].rules
    BY <1>1, <1>5 DEF BaseInv, CountInv
  <2> QED
    BY <1>6, <2>1, FS_Subset DEF Jobs
<1>9. PICK E : E = {Entry(p, r, job[p].at) : r \in rs}
  OBVIOUS
<1>10. /\ E \in SUBSET Content("state") /\ hits \subseteq E
       /\ after \in SUBSET (recorded \cup E)
  BY <1>2, <1>3, <1>5, <1>8, <1>9, Applied
<1>11. j \in Jobs
  <2>1. Shaped(j) /\ j.over \in BOOLEAN
    BY <1>4, <1>6 DEF Jobs, Shaped
  <2>2. Content("state") \subseteq Contents /\ recorded \subseteq Content("state")
    BY DEF BaseInv, TypeInv, Contents, Store
  <2>3. /\ j.op \in Ops /\ j.file \in Store /\ j.copy \in SUBSET Contents /\ j.num \in Nat
        /\ j.at \in Nat /\ j.pos \in Holding \cup {"idle", "load", "failed", "item"}
    BY <1>6, <1>7, <1>10, <2>2 DEF Jobs, Holding
  <2>4. /\ j.fd \in {"none", "tmp", "disk", "gone"}
        /\ j.alert \in Alerts \cup {[src |-> "none", sev |-> "none"]}
        /\ j.rules \in SUBSET Content("rules") /\ j.hits \in SUBSET Content("state")
        /\ j.items \in SUBSET Items
        /\ j.names \in SUBSET [name : {d.name : d \in Def}, id : RuleId]
        /\ j.rest \in Seq(Def)
    BY <1>6, <1>7, <1>8, <1>10 DEF Jobs
  <2> QED
    BY <2>1, <2>3, <2>4, Shapes
<1> QED
  BY <1>2, <1>3, <1>5, <1>7, <1>8, <1>11

LEMMA ApplyRulesGoes ==
  ASSUME BaseInv, NEW p \in Proc, ApplyRules(p)
  PROVE  BaseInv'
<1>1. PICK j \in Jobs, rs \in SUBSET job[p].rules :
           /\ job' = [job EXCEPT ![p] = j]
           /\ job[p].op = "evaluate" /\ job[p].pos = "match"
           /\ j.op = "evaluate" /\ j.pos = "open" /\ j.file = job[p].file
           /\ j.num = job[p].num /\ j.at = job[p].at /\ j.items = job[p].items
           /\ j.alert = job[p].alert /\ j.rules = rs /\ IsFiniteSet(rs)
           /\ j.copy = AppliedAll(job[p].copy, p, rs)
           /\ j.hits = {Entry(p, r, job[p].at) : r \in {s \in rs : Met(j.copy, p, s)}}
           /\ recorded' = recorded \cup {Entry(p, r, job[p].at) : r \in rs}
           /\ UNCHANGED <<disk, tmp, Spoilt, now, started, loads, used, returned, fired, kept, dropped>>
  BY AfterApply
<1>2. job'[p] = j /\ \A q \in Proc : q # p => job'[q] = job[q]
  BY <1>1, OneJob DEF BaseInv
<1>3. job[p] \in Jobs /\ Own(job[p], used)
  BY JobOf DEF BaseInv
<1>4. rs \in SUBSET Content("rules")
  BY <1>3 DEF Jobs
<1>5. PICK E : E = {Entry(p, r, job[p].at) : r \in rs}
  OBVIOUS
<1>6. /\ E \in SUBSET Content("state") /\ IsFiniteSet(E) /\ recorded' = recorded \cup E
      /\ j.copy \in SUBSET (recorded \cup E)
      /\ \A x \in j.copy : x.at <= j.at /\ j.at <= now
      /\ \A r \in rs, x \in j.copy : x.rule = r.id /\ x.src = job[p].alert.src => InWindow(x, j.at)
  BY <1>1, <1>4, <1>5, Applied
<1>7. recorded \in SUBSET Content("state") /\ IsFiniteSet(recorded)
  BY DEF BaseInv, TypeInv, CountInv
<1>8. recorded' \in SUBSET Content("state") /\ IsFiniteSet(recorded')
  BY <1>6, <1>7, FS_Union
<1>9. TypeInv'
  <2>1. job' \in [Proc -> Jobs]
    BY <1>1 DEF BaseInv, TypeInv
  <2>2. \A q \in Proc : Own(job'[q], used')
    <3>1. Own(j, used')
      BY <1>1, <1>3, <1>6, <1>7 DEF Own
    <3>2. \A q \in Proc : q # p => Own(job'[q], used')
      BY <1>1, <1>2 DEF BaseInv, TypeInv
    <3> QED
      BY <1>2, <3>1, <3>2
  <2>3. /\ disk' \in [Store -> {Torn} \cup SUBSET Contents]
        /\ tmp' \in [Store -> {Torn, NoFile} \cup SUBSET Contents]
        /\ \A f \in Store : /\ disk'[f] # Torn => disk'[f] \in SUBSET Content(f)
                            /\ tmp'[f] \notin {Torn, NoFile} => tmp'[f] \in SUBSET Content(f)
        /\ now' \in Nat /\ loads' \in Nat
    BY <1>1 DEF BaseInv, TypeInv
  <2> QED
    BY <1>8, <2>1, <2>2, <2>3 DEF TypeInv
<1>10. FilesInv'
  <2>1. \A f, c : Sane(f, c, recorded, used) => Sane(f, c, recorded', used')
    BY <1>1 DEF Sane
  <2>2. Sane(j.file, j.copy, recorded', used')
    BY <1>1, <1>3, <1>6 DEF Sane, Own
  <2>3. \A q \in Proc : Sane(job'[q].file, job'[q].copy, recorded', used')
    BY <1>2, <2>1, <2>2 DEF BaseInv, FilesInv
  <2>4. \A f \in Store : /\ disk'[f] # Torn => Sane(f, disk'[f], recorded', used')
                         /\ tmp'[f] \notin {Torn, NoFile} => Sane(f, tmp'[f], recorded', used')
    BY <1>1, <2>1 DEF BaseInv, FilesInv
  <2> QED
    BY <2>3, <2>4 DEF FilesInv
<1>11. CountInv'
  <2>1. \A e : Counted(e) => Counted(e)'
    BY <1>1, <1>8, CountedGrows DEF Counted
  <2>2. \A e \in recorded' : e.at <= now
    <3>1. \A e \in E : e.at = job[p].at
      BY <1>5 DEF Entry
    <3>2. job[p].at <= now
      BY <1>1 DEF BaseInv, CountInv
    <3> QED
      BY <1>6, <3>1, <3>2 DEF BaseInv, CountInv
  <2>3. ASSUME NEW e \in j.hits
        PROVE  Counted(e)'
    <3>1. PICK r \in rs : e = Entry(p, r, job[p].at) /\ Met(j.copy, p, r)
      BY <1>1, <2>3
    <3>2. PICK S : S = Bucket(j.copy, r, job[p].alert)
      OBVIOUS
    <3>3. PICK T : T = {x \in recorded' : /\ x.rule = e.rule /\ x.src = e.src
                                          /\ x.at <= e.at /\ InWindow(x, e.at)}
      OBVIOUS
    <3>4. e.rule = r.id /\ e.src = job[p].alert.src /\ e.at = j.at
      BY <1>1, <3>1 DEF Entry
    <3>5. S \subseteq T /\ T \subseteq recorded'
      BY <1>6, <3>2, <3>3, <3>4 DEF Bucket
    <3>6. IsFiniteSet(T) /\ IsFiniteSet(S) /\ Cardinality(S) <= Cardinality(T)
      BY <1>8, <3>5, FS_Subset
    <3>7. Cardinality(S) \in Nat /\ Cardinality(T) \in Nat
      BY <3>6, FS_CardinalityType
    <3>8. Cardinality(S) >= Count
      BY <3>1, <3>2, <1>1 DEF Met
    <3>9. Cardinality(T) >= Count
      BY <3>6, <3>7, <3>8, RulesAssumption
    <3> QED
      BY <3>3, <3>9 DEF Counted
  <2>4. ASSUME NEW q \in Proc, job'[q].op = "evaluate"
        PROVE  /\ IsFiniteSet(job'[q].rules)
               /\ job'[q].pos # "load" => job'[q].at <= now' /\ \A e \in job'[q].copy : e.at <= job'[q].at
               /\ \A e \in job'[q].hits : Counted(e)'
    <3>1. CASE q = p
      <4>1. j.at <= now'
        BY <1>1 DEF BaseInv, CountInv
      <4> QED
        BY <1>1, <1>2, <1>6, <2>3, <3>1, <4>1
    <3>2. CASE q # p
      BY <1>1, <1>2, <2>1, <2>4, <3>2 DEF BaseInv, CountInv
    <3> QED
      BY <3>1, <3>2
  <2> QED
    BY <1>1, <1>8, <2>1, <2>2, <2>4 DEF BaseInv, CountInv
<1>12. SoloInv'
  <2>1. \A f \in Store : Held(j, f) <=> Held(job[p], f)
    BY <1>1 DEF Held, Holding
  <2>2. \A f \in Store, q \in Proc : Held(job'[q], f) <=> Held(job[q], f)
    BY <1>2, <2>1
  <2> QED
    BY <1>1, <1>2, <2>2 DEF BaseInv, SoloInv
<1> QED
  BY <1>9, <1>10, <1>11, <1>12 DEF BaseInv

LEMMA EndsGo ==
  ASSUME BaseInv, NEW p \in Proc,
         Evaluated(p) \/ Failed(p) \/ RuleDeleted(p) \/ Answered(p) \/ ImportStops(p)
           \/ Imported(p) \/ Crash(p)
  PROVE  BaseInv'
<1>1. CASE Evaluated(p)
  <2>1. \A e \in job[p].hits : Counted(e)
    BY <1>1 DEF Evaluated, BaseInv, CountInv
  <2>2. \A e \in fired' : Counted(e)
    BY <1>1, <2>1 DEF Evaluated, BaseInv, CountInv
  <2> QED
    BY <1>1, <2>2, EndGoes DEF Evaluated, Spoilt
<1>2. CASE ~Evaluated(p)
  <2>1. /\ job' = [job EXCEPT ![p] = NoJob]
        /\ UNCHANGED <<disk, tmp, recorded, fired, now, loads, used>> /\ Spoilt \subseteq Spoilt'
    BY <1>2 DEF Failed, RuleDeleted, Answered, ImportStops, Imported, Crash, history, Spoilt
  <2>2. \A e \in fired' : Counted(e)
    BY <2>1 DEF BaseInv, CountInv
  <2> QED
    BY <2>1, <2>2, EndGoes
<1> QED
  BY <1>1, <1>2

-----------------------------------------------------------------------------
(* The rules file.                                                             *)
LEMMA AddedRule ==
  ASSUME BaseInv, NEW r \in RuleId \ used, NEW d \in Def, used' = used \cup {r}
  PROVE  /\ Load("rules") \cup {[id |-> r, def |-> d]} \in SUBSET Content("rules")
         /\ Sane("rules", Load("rules") \cup {[id |-> r, def |-> d]}, recorded, used')
<1>1. PICK rs : rs = Load("rules")
  OBVIOUS
<1>2. rs \in SUBSET Content("rules") /\ Sane("rules", rs, recorded, used)
  BY <1>1, Loaded DEF BaseInv, Store
<1>3. [id |-> r, def |-> d] \in Content("rules") /\ [id |-> r, def |-> d].id = r
  BY DEF Content
<1>4. IsFiniteSet(rs \cup {[id |-> r, def |-> d]})
  BY <1>2, FS_AddElement DEF Sane
<1>5. {x.id : x \in rs \cup {[id |-> r, def |-> d]}} \subseteq used'
  BY <1>2, <1>3 DEF Sane
<1> QED
  BY <1>1, <1>2, <1>3, <1>4, <1>5 DEF Sane

LEMMA ReplacedRule ==
  ASSUME BaseInv, NEW r, NEW d \in Def, \E x \in Load("rules") : x.id = r
  PROVE  /\ Replaced(Load("rules"), r, d) \in SUBSET Content("rules")
         /\ Sane("rules", Replaced(Load("rules"), r, d), recorded, used)
         /\ r \in RuleId \cap used
<1>1. PICK rs : rs = Load("rules")
  OBVIOUS
<1>2. rs \in SUBSET Content("rules") /\ Sane("rules", rs, recorded, used)
  BY <1>1, Loaded DEF BaseInv, Store
<1>3. r \in RuleId /\ r \in used
  BY <1>1, <1>2 DEF Sane, Content
<1>4. PICK ks : ks = {x \in rs : x.id # r}
  OBVIOUS
<1>5. IsFiniteSet(ks) /\ ks \subseteq rs
  BY <1>2, <1>4, FS_Subset DEF Sane
<1>6. [id |-> r, def |-> d] \in Content("rules") /\ [id |-> r, def |-> d].id = r
  BY <1>3 DEF Content
<1>7. IsFiniteSet(ks \cup {[id |-> r, def |-> d]})
  BY <1>5, FS_AddElement
<1>8. {x.id : x \in ks \cup {[id |-> r, def |-> d]}} \subseteq used
  BY <1>2, <1>3, <1>5, <1>6 DEF Sane
<1>9. Replaced(rs, r, d) = ks \cup {[id |-> r, def |-> d]}
  BY <1>4 DEF Replaced
<1> QED
  BY <1>1, <1>2, <1>3, <1>5, <1>6, <1>7, <1>8, <1>9 DEF Sane

LEMMA RefusedStays ==
  ASSUME BaseInv, Refused, UNCHANGED <<disk, tmp, torn, used, loads, recorded, fired, now>>
  PROVE  BaseInv'
<1>1. now' \in Nat /\ now' >= now
  BY DEF BaseInv, TypeInv
<1> QED
  BY <1>1, Stays DEF Refused, Spoilt

(* A request that is refused, and one that loads its file.                     *)
Turned == UNCHANGED <<disk, tmp, job, Spoilt, now, loads, used, history>>

Loads(p, op, f, copy, items) ==
  /\ job[p] = NoJob
  /\ \E j : Editing(j, op, f, copy, items) /\ job' = [job EXCEPT ![p] = j]
  /\ Spoilt' = Spoilt \cup {g \in {f} : Contended(p, f)}
  /\ UNCHANGED <<disk, tmp, torn, now, loads, recorded, returned, fired>>

LEMMA AtRest ==
  ASSUME BaseInv, NEW p \in Proc, job[p].op = "idle"
  PROVE  job[p] = NoJob
BY JobOf DEF BaseInv, Own

LEMMA CreateRuleGoes ==
  ASSUME BaseInv, NEW p \in Proc, NEW d \in Def, CreateRule(p, d)
  PROVE  /\ BaseInv'
         /\ \/ Turned
            \/ \E r \in RuleId \ used :
                 /\ Loads(p, "create", "rules", Load("rules") \cup {[id |-> r, def |-> d]}, {r})
                 /\ used' = used \cup {r} /\ UNCHANGED <<kept, dropped>>
<1>1. CASE ~Sound(d)
  <2>1. Refused /\ UNCHANGED <<disk, tmp, torn, used, loads, recorded, fired, now>>
    BY <1>1 DEF CreateRule, history
  <2> QED
    BY <1>1, <2>1, RefusedStays DEF CreateRule, Turned, Refused, Spoilt
<1>2. CASE Sound(d)
  <2>1. PICK r \in RuleId \ used :
          /\ used' = used \cup {r}
          /\ Edits(p, "create", "rules", Load("rules") \cup {[id |-> r, def |-> d]}, {r})
    BY <1>2 DEF CreateRule
  <2>2. UNCHANGED <<disk, tmp, torn, now, loads, recorded, returned, fired, kept, dropped>>
    BY DEF CreateRule, history
  <2>3. job[p] = NoJob
    BY AtRest DEF CreateRule, Ready
  <2>4. PICK copy : copy = Load("rules") \cup {[id |-> r, def |-> d]}
    OBVIOUS
  <2>5. copy \in SUBSET Content("rules") /\ Sane("rules", copy, recorded, used')
    BY <2>1, <2>4, AddedRule
  <2>6. {r} \in SUBSET Items
    BY DEF Items
  <2>7. /\ BaseInv' /\ Spoilt' = Spoilt \cup {g \in {"rules"} : Contended(p, "rules")}
        /\ \E j : Editing(j, "create", "rules", copy, {r}) /\ job' = [job EXCEPT ![p] = j]
    <3>1. "create" \in Ops \ {"idle", "evaluate"} /\ "rules" \in Store
      BY DEF Ops, Store
    <3>2. Edits(p, "create", "rules", copy, {r}) /\ used \subseteq used'
      BY <2>1, <2>4
    <3> QED
      BY <2>2, <2>5, <2>6, <3>1, <3>2, EditsGoes
  <2> QED
    BY <2>1, <2>2, <2>3, <2>4, <2>7 DEF Loads
<1> QED
  BY <1>1, <1>2

LEMMA UpdateRuleGoes ==
  ASSUME BaseInv, NEW p \in Proc, NEW r \in RuleId, NEW d \in Def, UpdateRule(p, r, d)
  PROVE  /\ BaseInv'
         /\ \/ Turned
            \/ /\ Loads(p, "update", "rules", Replaced(Load("rules"), r, d), {})
               /\ \E x \in Load("rules") : x.id = r
               /\ UNCHANGED <<used, kept, dropped>>
<1>1. UNCHANGED <<disk, tmp, torn, now, loads, used, recorded, returned, fired, kept, dropped>>
  BY DEF UpdateRule, history
<1>2. CASE Refused
  BY <1>1, <1>2, RefusedStays DEF Turned, Refused, history, Spoilt
<1>3. CASE ~Refused
  <2>1. /\ \E x \in Load("rules") : x.id = r
        /\ Edits(p, "update", "rules", Replaced(Load("rules"), r, d), {})
    BY <1>3 DEF UpdateRule
  <2>2. job[p] = NoJob
    BY AtRest DEF UpdateRule, Ready
  <2>3. PICK copy : copy = Replaced(Load("rules"), r, d)
    OBVIOUS
  <2>4. copy \in SUBSET Content("rules") /\ Sane("rules", copy, recorded, used')
    BY <1>1, <2>1, <2>3, ReplacedRule
  <2>5. /\ BaseInv' /\ Spoilt' = Spoilt \cup {g \in {"rules"} : Contended(p, "rules")}
        /\ \E j : Editing(j, "update", "rules", copy, {}) /\ job' = [job EXCEPT ![p] = j]
    <3>1. "update" \in Ops \ {"idle", "evaluate"} /\ "rules" \in Store /\ {} \in SUBSET Items
      BY DEF Ops, Store
    <3>2. Edits(p, "update", "rules", copy, {}) /\ used \subseteq used'
      BY <1>1, <2>1, <2>3
    <3> QED
      BY <1>1, <2>4, <3>1, <3>2, EditsGoes
  <2> QED
    BY <1>1, <2>1, <2>2, <2>3, <2>5 DEF Loads
<1> QED
  BY <1>2, <1>3

LEMMA DeleteRuleGoes ==
  ASSUME BaseInv, NEW p \in Proc, NEW r \in RuleId, DeleteRule(p, r)
  PROVE  /\ BaseInv'
         /\ \/ Turned
            \/ /\ Loads(p, "delete", "rules", {x \in Load("rules") : x.id # r}, {r})
               /\ dropped' = dropped \cup {<<"begun", r>>} /\ kept' = kept \ {<<"rules", r>>}
               /\ r \in used /\ UNCHANGED used
<1>1. UNCHANGED <<disk, tmp, torn, now, loads, used, recorded, returned, fired>>
  BY DEF DeleteRule
<1>2. CASE Refused /\ UNCHANGED <<kept, dropped>>
  BY <1>1, <1>2, RefusedStays DEF Turned, Refused, history, Spoilt
<1>3. CASE ~(Refused /\ UNCHANGED <<kept, dropped>>)
  <2>1. /\ \E x \in Load("rules") : x.id = r
        /\ Edits(p, "delete", "rules", {x \in Load("rules") : x.id # r}, {r})
        /\ dropped' = dropped \cup {<<"begun", r>>} /\ kept' = kept \ {<<"rules", r>>}
    BY <1>3 DEF DeleteRule
  <2>2. job[p] = NoJob
    BY AtRest DEF DeleteRule, Ready
  <2>3. PICK copy : copy = {x \in Load("rules") : x.id # r}
    OBVIOUS
  <2>4. copy \in SUBSET Content("rules") /\ Sane("rules", copy, recorded, used') /\ r \in used
    <3>1. Load("rules") \in SUBSET Content("rules") /\ Sane("rules", Load("rules"), recorded, used)
      BY Loaded DEF BaseInv, Store
    <3>2. copy \subseteq Load("rules") /\ IsFiniteSet(copy)
      BY <2>3, <3>1, FS_Subset DEF Sane
    <3> QED
      BY <1>1, <2>1, <3>1, <3>2 DEF Sane
  <2>5. /\ BaseInv' /\ Spoilt' = Spoilt \cup {g \in {"rules"} : Contended(p, "rules")}
        /\ \E j : Editing(j, "delete", "rules", copy, {r}) /\ job' = [job EXCEPT ![p] = j]
    <3>1. "delete" \in Ops \ {"idle", "evaluate"} /\ "rules" \in Store /\ {r} \in SUBSET Items
      BY DEF Ops, Store, Items
    <3>2. Edits(p, "delete", "rules", copy, {r}) /\ used \subseteq used' /\ {r} \subseteq RuleId \cap used'
      BY <1>1, <2>1, <2>3, <2>4
    <3> QED
      BY <1>1, <2>4, <3>1, <3>2, EditsGoes
  <2> QED
    BY <1>1, <2>1, <2>2, <2>3, <2>4, <2>5 DEF Loads
<1> QED
  BY <1>2, <1>3

-----------------------------------------------------------------------------
(* The lookup tables and the connections.                                      *)
LEMMA UpsertEntryGoes ==
  ASSUME BaseInv, NEW p \in Proc, NEW t \in Table, NEW a \in Alert, UpsertEntry(p, t, a.src)
  PROVE  /\ BaseInv'
         /\ Loads(p, "upsert", "lookup", Load("lookup") \cup {[table |-> t, key |-> NoKey],
                                                             [table |-> t, key |-> a.src]},
                  {[table |-> t, key |-> a.src]})
         /\ UNCHANGED <<used, kept, dropped>>
<1>1. UNCHANGED <<disk, tmp, torn, now, loads, used, recorded, returned, fired, kept, dropped>>
  BY DEF UpsertEntry, history
<1>2. job[p] = NoJob
  BY AtRest DEF UpsertEntry, Ready
<1>3. PICK copy : copy = Load("lookup") \cup {[table |-> t, key |-> NoKey],
                                              [table |-> t, key |-> a.src]}
  OBVIOUS
<1>4. copy \in SUBSET Content("lookup")
  BY <1>3, Loaded DEF BaseInv, Store, Content
<1>5. Sane("lookup", copy, recorded, used')
  BY DEF Sane
<1>6. {[table |-> t, key |-> a.src]} \in SUBSET Items
  BY DEF Items, Content
<1>7. "upsert" \in Ops \ {"idle", "evaluate"} /\ "lookup" \in Store
  BY DEF Ops, Store
<1>8. Edits(p, "upsert", "lookup", copy, {[table |-> t, key |-> a.src]}) /\ used \subseteq used'
  BY <1>1, <1>3 DEF UpsertEntry
<1>9. /\ BaseInv' /\ Spoilt' = Spoilt \cup {g \in {"lookup"} : Contended(p, "lookup")}
      /\ \E j : /\ Editing(j, "upsert", "lookup", copy, {[table |-> t, key |-> a.src]})
                /\ job' = [job EXCEPT ![p] = j]
  BY <1>1, <1>4, <1>5, <1>6, <1>7, <1>8, EditsGoes
<1> QED
  BY <1>1, <1>2, <1>3, <1>9 DEF Loads

LEMMA CreateTableGoes ==
  ASSUME BaseInv, NEW p \in Proc, NEW t \in Table, CreateTable(p, t)
  PROVE  /\ BaseInv'
         /\ \/ Turned
            \/ /\ Loads(p, "upsert", "lookup", Load("lookup") \cup {[table |-> t, key |-> NoKey]},
                        {[table |-> t, key |-> NoKey]})
               /\ UNCHANGED <<used, kept, dropped>>
<1>1. UNCHANGED <<disk, tmp, torn, now, loads, used, recorded, returned, fired, kept, dropped>>
  BY DEF CreateTable, history
<1>2. CASE Refused
  BY <1>1, <1>2, RefusedStays DEF Turned, Refused, history, Spoilt
<1>3. CASE ~Refused
  <2>1. job[p] = NoJob
    BY AtRest DEF CreateTable, Ready
  <2>2. PICK copy : copy = Load("lookup") \cup {[table |-> t, key |-> NoKey]}
    OBVIOUS
  <2>3. copy \in SUBSET Content("lookup")
    BY <2>2, Loaded DEF BaseInv, Store, Content
  <2>4. Sane("lookup", copy, recorded, used')
    BY DEF Sane
  <2>5. {[table |-> t, key |-> NoKey]} \in SUBSET Items
    BY DEF Items, Content
  <2>6. "upsert" \in Ops \ {"idle", "evaluate"} /\ "lookup" \in Store
    BY DEF Ops, Store
  <2>7. Edits(p, "upsert", "lookup", copy, {[table |-> t, key |-> NoKey]}) /\ used \subseteq used'
    BY <1>1, <1>3, <2>2 DEF CreateTable
  <2>8. /\ BaseInv' /\ Spoilt' = Spoilt \cup {g \in {"lookup"} : Contended(p, "lookup")}
        /\ \E j : /\ Editing(j, "upsert", "lookup", copy, {[table |-> t, key |-> NoKey]})
                  /\ job' = [job EXCEPT ![p] = j]
    BY <1>1, <2>3, <2>4, <2>5, <2>6, <2>7, EditsGoes
  <2> QED
    BY <1>1, <2>1, <2>2, <2>8 DEF Loads
<1> QED
  BY <1>2, <1>3

LEMMA RemoveEntriesGoes ==
  ASSUME BaseInv, NEW p \in Proc, NEW gone, RemoveEntries(p, gone)
  PROVE  /\ BaseInv'
         /\ \/ Turned
            \/ /\ Loads(p, "remove", "lookup", Load("lookup") \ gone, {})
               /\ Withdraw(gone) /\ UNCHANGED <<used, dropped>>
<1>1. UNCHANGED <<disk, tmp, torn, now, loads, used, recorded, returned, fired, dropped>>
  BY DEF RemoveEntries
<1>2. CASE Refused /\ UNCHANGED kept
  BY <1>1, <1>2, RefusedStays DEF Turned, Refused, history, Spoilt
<1>3. CASE ~(Refused /\ UNCHANGED kept)
  <2>1. job[p] = NoJob
    BY AtRest DEF RemoveEntries, Ready
  <2>2. PICK copy : copy = Load("lookup") \ gone
    OBVIOUS
  <2>3. copy \in SUBSET Content("lookup")
    BY <2>2, Loaded DEF BaseInv, Store
  <2>4. Sane("lookup", copy, recorded, used')
    BY DEF Sane
  <2>5. "remove" \in Ops \ {"idle", "evaluate"} /\ "lookup" \in Store /\ {} \in SUBSET Items
    BY DEF Ops, Store
  <2>6. Edits(p, "remove", "lookup", copy, {}) /\ Withdraw(gone) /\ used \subseteq used'
    BY <1>1, <1>3, <2>2 DEF RemoveEntries
  <2>7. /\ BaseInv' /\ Spoilt' = Spoilt \cup {g \in {"lookup"} : Contended(p, "lookup")}
        /\ \E j : Editing(j, "remove", "lookup", copy, {}) /\ job' = [job EXCEPT ![p] = j]
    BY <1>1, <2>3, <2>4, <2>5, <2>6, EditsGoes
  <2> QED
    BY <1>1, <2>1, <2>2, <2>6, <2>7 DEF Loads
<1> QED
  BY <1>2, <1>3

LEMMA AddProviderGoes ==
  ASSUME BaseInv, NEW p \in Proc, NEW x \in Provider, AddProvider(p, x)
  PROVE  /\ BaseInv'
         /\ Loads(p, "connect", "providers", Load("providers") \cup {x}, {x})
         /\ used' = used \cup {x} /\ UNCHANGED <<kept, dropped>>
<1>1. /\ UNCHANGED <<disk, tmp, torn, now, loads, recorded, returned, fired, kept, dropped>>
      /\ used' = used \cup {x}
  BY DEF AddProvider, history
<1>2. job[p] = NoJob
  BY AtRest DEF AddProvider, Ready
<1>3. PICK copy : copy = Load("providers") \cup {x}
  OBVIOUS
<1>4. copy \in SUBSET Content("providers")
  BY <1>3, Loaded DEF BaseInv, Store, Content
<1>5. Sane("providers", copy, recorded, used')
  BY DEF Sane
<1>6. "connect" \in Ops \ {"idle", "evaluate"} /\ "providers" \in Store /\ {x} \in SUBSET Items
  BY DEF Ops, Store, Items
<1>7. Edits(p, "connect", "providers", copy, {x}) /\ used \subseteq used'
  BY <1>1, <1>3 DEF AddProvider
<1>8. /\ BaseInv' /\ Spoilt' = Spoilt \cup {g \in {"providers"} : Contended(p, "providers")}
      /\ \E j : Editing(j, "connect", "providers", copy, {x}) /\ job' = [job EXCEPT ![p] = j]
  BY <1>1, <1>4, <1>5, <1>6, <1>7, EditsGoes
<1> QED
  BY <1>1, <1>2, <1>3, <1>8 DEF Loads

LEMMA RemoveProviderGoes ==
  ASSUME BaseInv, NEW p \in Proc, NEW x \in Provider, RemoveProvider(p, x)
  PROVE  /\ BaseInv'
         /\ \/ Turned
            \/ /\ Loads(p, "disconnect", "providers", Load("providers") \ {x}, {})
               /\ kept' = kept \ {<<"providers", x>>} /\ UNCHANGED <<used, dropped>>
<1>1. UNCHANGED <<disk, tmp, torn, now, loads, used, recorded, returned, fired, dropped>>
  BY DEF RemoveProvider
<1>2. CASE Refused /\ UNCHANGED kept
  BY <1>1, <1>2, RefusedStays DEF Turned, Refused, history, Spoilt
<1>3. CASE ~(Refused /\ UNCHANGED kept)
  <2>1. job[p] = NoJob
    BY AtRest DEF RemoveProvider, Ready
  <2>2. PICK copy : copy = Load("providers") \ {x}
    OBVIOUS
  <2>3. copy \in SUBSET Content("providers")
    BY <2>2, Loaded DEF BaseInv, Store
  <2>4. Sane("providers", copy, recorded, used')
    BY DEF Sane
  <2>5. "disconnect" \in Ops \ {"idle", "evaluate"} /\ "providers" \in Store /\ {} \in SUBSET Items
    BY DEF Ops, Store
  <2>6. /\ Edits(p, "disconnect", "providers", copy, {}) /\ kept' = kept \ {<<"providers", x>>}
        /\ used \subseteq used'
    BY <1>1, <1>3, <2>2 DEF RemoveProvider
  <2>7. /\ BaseInv' /\ Spoilt' = Spoilt \cup {g \in {"providers"} : Contended(p, "providers")}
        /\ \E j : Editing(j, "disconnect", "providers", copy, {}) /\ job' = [job EXCEPT ![p] = j]
    BY <1>1, <2>3, <2>4, <2>5, <2>6, EditsGoes
  <2> QED
    BY <1>1, <2>1, <2>2, <2>6, <2>7 DEF Loads
<1> QED
  BY <1>2, <1>3

-----------------------------------------------------------------------------
(* Imports.                                                                    *)
LEMMA ImportRulesGoes ==
  ASSUME BaseInv, NEW p \in Proc, NEW batch \in Batches, NEW over \in BOOLEAN,
         ImportRules(p, batch, over)
  PROVE  /\ BaseInv'
         /\ \E j : /\ job' = [job EXCEPT ![p] = j] /\ job[p] = NoJob
                   /\ j.op = "import" /\ j.pos = "item" /\ j.file = "rules" /\ j.copy = {}
                   /\ j.items = {} /\ j.num = 0
         /\ UNCHANGED <<disk, tmp, Spoilt, now, loads, used, history>>
<1>1. PICK names : names = {[name |-> r.def.name, id |-> r.id] : r \in Load("rules")}
  OBVIOUS
<1>2. PICK j : j = [Work(p, "import", "rules", "item", {}) EXCEPT
                       !.names = names, !.rest = batch, !.over = over]
  OBVIOUS
<1>3. /\ job' = [job EXCEPT ![p] = j]
      /\ UNCHANGED <<disk, tmp, Spoilt, now, loads, used, history>>
  BY <1>1, <1>2 DEF ImportRules, Spoilt
<1>4. job[p] = NoJob
  BY AtRest DEF ImportRules, Ready
<1>5. /\ j.op = "import" /\ j.file = "rules" /\ j.pos = "item" /\ j.copy = {} /\ j.num = 0
      /\ j.at = 0 /\ j.fd = "none" /\ j.alert = [src |-> "none", sev |-> "none"]
      /\ j.rules = {} /\ j.hits = {} /\ j.items = {} /\ j.names = names /\ j.rest = batch
  BY <1>2 DEF Work, NoJob
<1>6. names \in SUBSET [name : {d.name : d \in Def}, id : RuleId]
  BY <1>1, Loaded DEF BaseInv, Store, Content
<1>7. j \in Jobs
  <2>1. Shaped(j)
    BY <1>2 DEF Work, NoJob, Shaped
  <2>2. j.over = over
    BY <1>2 DEF Work, NoJob
  <2>3. j.over \in BOOLEAN
    BY <2>2, Zenon
  <2>4. j.rest \in Seq(Def)
    BY <1>5, RulesAssumption
  <2>5. /\ j.op \in Ops /\ j.file \in Store /\ j.copy \in SUBSET Contents /\ j.num \in Nat
        /\ j.at \in Nat /\ j.pos \in Holding \cup {"idle", "load", "failed", "item"}
        /\ j.fd \in {"none", "tmp", "disk", "gone"}
    BY <1>5 DEF Ops, Store
  <2>6. /\ j.alert \in Alerts \cup {[src |-> "none", sev |-> "none"]}
        /\ j.rules \in SUBSET Content("rules") /\ j.hits \in SUBSET Content("state")
        /\ j.items \in SUBSET Items
        /\ j.names \in SUBSET [name : {d.name : d \in Def}, id : RuleId]
    BY <1>5, <1>6
  <2> QED
    BY <2>1, <2>3, <2>4, <2>5, <2>6, Shapes
<1>8. Own(j, used') /\ Weighed(j) /\ Alone(p, j)
  BY <1>5 DEF Own, Weighed, Alone, Held, Holding
<1>9. Sane(j.file, j.copy, recorded', used')
  BY <1>5, FS_EmptySet DEF Sane
<1>10. loads' \in Nat /\ Spoilt \subseteq Spoilt' /\ used \subseteq used' /\ recorded' = recorded
       /\ \A e \in fired' : Counted(e)
  BY <1>3 DEF BaseInv, TypeInv, CountInv, history
<1>11. BaseInv'
  BY <1>3, <1>7, <1>8, <1>9, <1>10, BaseGoes
<1> QED
  BY <1>3, <1>4, <1>5, <1>11

LEMMA PassOverGoes ==
  ASSUME BaseInv, NEW p \in Proc, PassOver(p)
  PROVE  /\ BaseInv'
         /\ \E j : /\ job' = [job EXCEPT ![p] = j]
                   /\ job[p].op = "import" /\ job[p].pos \in {"item", "saved"}
                   /\ j.op = "import" /\ j.pos = "item" /\ j.file = "rules"
                   /\ j.copy = job[p].copy /\ j.items = job[p].items /\ j.num = job[p].num
         /\ UNCHANGED <<disk, tmp, Spoilt, now, loads, used, history>>
<1>1. PICK j : j = [job[p] EXCEPT !.rest = Tail(job[p].rest), !.pos = "item"]
  OBVIOUS
<1>2. job[p] \in Jobs /\ Own(job[p], used)
  BY JobOf DEF BaseInv
<1>3. /\ job' = [job EXCEPT ![p] = j] /\ job[p].op = "import" /\ job[p].pos \in {"item", "saved"}
      /\ job[p].rest # <<>>
      /\ UNCHANGED <<disk, tmp, Spoilt, now, loads, used, history>>
  BY <1>1 DEF PassOver, Spoilt
<1>4. /\ j.op = job[p].op /\ j.file = job[p].file /\ j.pos = "item" /\ j.copy = job[p].copy
      /\ j.num = job[p].num /\ j.at = job[p].at /\ j.fd = job[p].fd /\ j.alert = job[p].alert
      /\ j.rules = job[p].rules /\ j.hits = job[p].hits /\ j.items = job[p].items
      /\ j.names = job[p].names /\ j.rest = Tail(job[p].rest)
  BY <1>1, <1>2 DEF Jobs
<1>5. j \in Jobs
  <2>1. Shaped(j) /\ j.over \in BOOLEAN
    BY <1>1, <1>2 DEF Jobs, Shaped
  <2>2. j.rest \in Seq(Def)
    BY <1>2, <1>3, <1>4 DEF Jobs
  <2>3. /\ j.op \in Ops /\ j.file \in Store /\ j.copy \in SUBSET Contents /\ j.num \in Nat
        /\ j.at \in Nat /\ j.pos \in Holding \cup {"idle", "load", "failed", "item"}
        /\ j.fd \in {"none", "tmp", "disk", "gone"}
    BY <1>2, <1>4 DEF Jobs
  <2>4. /\ j.alert \in Alerts \cup {[src |-> "none", sev |-> "none"]}
        /\ j.rules \in SUBSET Content("rules") /\ j.hits \in SUBSET Content("state")
        /\ j.items \in SUBSET Items
        /\ j.names \in SUBSET [name : {d.name : d \in Def}, id : RuleId]
    BY <1>2, <1>4 DEF Jobs
  <2> QED
    BY <2>1, <2>2, <2>3, <2>4, Shapes
<1>6. Own(j, used') /\ Weighed(j) /\ Alone(p, j)
  BY <1>2, <1>3, <1>4 DEF Own, Weighed, Alone, Held, Holding
<1>7. Sane(j.file, j.copy, recorded', used')
  BY <1>3, <1>4 DEF BaseInv, FilesInv, history
<1>8. loads' \in Nat /\ Spoilt \subseteq Spoilt' /\ used \subseteq used' /\ recorded' = recorded
      /\ \A e \in fired' : Counted(e)
  BY <1>3 DEF BaseInv, TypeInv, CountInv, history
<1>9. BaseInv'
  BY <1>3, <1>5, <1>6, <1>7, <1>8, BaseGoes
<1>10. j.op = "import" /\ j.file = "rules"
  BY <1>2, <1>3, <1>4 DEF Own
<1> QED
  BY <1>3, <1>4, <1>9, <1>10

(* The next definition is created or replaces a rule.                          *)
LEMMA ImportOneGoes ==
  ASSUME BaseInv, NEW p \in Proc, ImportOne(p)
  PROVE  /\ BaseInv'
         /\ \E d \in Def : \E j :
              /\ job' = [job EXCEPT ![p] = j]
              /\ job[p].op = "import" /\ job[p].pos \in {"item", "saved"} /\ job[p].file = "rules"
              /\ j.op = "import" /\ j.pos = "open" /\ j.file = "rules" /\ j.num = job[p].num
              /\ \/ \E r \in RuleId \ used :
                      /\ used' = used \cup {r} /\ j.items = job[p].items \cup {r}
                      /\ j.copy = Load("rules") \cup {[id |-> r, def |-> d]}
                 \/ \E r \in RuleId :
                      /\ \E x \in Load("rules") : x.id = r
                      /\ used' = used /\ j.items = job[p].items
                      /\ j.copy = Replaced(Load("rules"), r, d)
         /\ Spoilt' = Spoilt \cup {g \in {"rules"} : Contended(p, "rules")}
         /\ UNCHANGED <<disk, tmp, now, loads, history>>
<1>1. job[p] \in Jobs /\ Own(job[p], used)
  BY JobOf DEF BaseInv
<1>2. PICK d : d = Head(job[p].rest)
  OBVIOUS
<1>3. /\ job[p].op = "import" /\ job[p].pos \in {"item", "saved"} /\ job[p].rest # <<>>
      /\ Spoilt' = Spoilt \cup {g \in {"rules"} : Contended(p, "rules")}
      /\ UNCHANGED <<disk, tmp, now, loads, history>>
  BY DEF ImportOne, NoteRace, Spoilt
<1>4. d \in Def /\ Tail(job[p].rest) \in Seq(Def)
  BY <1>1, <1>2, <1>3 DEF Jobs
<1>5. job[p].file = "rules" /\ job[p].items \subseteq RuleId \cap used
  BY <1>1, <1>3 DEF Own
<1>6. \E copy \in SUBSET Content("rules"), items \in SUBSET RuleId,
         names \in SUBSET [name : {e.name : e \in Def}, id : RuleId] :
        /\ job' = [job EXCEPT ![p] = [job[p] EXCEPT !.pos = "open", !.rest = Tail(job[p].rest),
                                        !.copy = copy, !.names = names, !.items = items]]
        /\ items \subseteq RuleId \cap used' /\ Sane("rules", copy, recorded, used')
        /\ used \subseteq used'
        /\ \/ \E r \in RuleId \ used : /\ used' = used \cup {r} /\ items = job[p].items \cup {r}
                                       /\ copy = Load("rules") \cup {[id |-> r, def |-> d]}
           \/ \E r \in RuleId : /\ \E x \in Load("rules") : x.id = r
                                /\ used' = used /\ items = job[p].items
                                /\ copy = Replaced(Load("rules"), r, d)
  <2>1. CASE \E r \in RuleId \ used :
             /\ used' = used \cup {r}
             /\ job' = [job EXCEPT ![p].pos = "open", ![p].rest = Tail(@),
                          ![p].copy = Load("rules") \cup {[id |-> r, def |-> d]},
                          ![p].names = @ \cup {[name |-> d.name, id |-> r]},
                          ![p].items = @ \cup {r}]
    <3>1. PICK r \in RuleId \ used :
             /\ used' = used \cup {r}
             /\ job' = [job EXCEPT ![p].pos = "open", ![p].rest = Tail(@),
                          ![p].copy = Load("rules") \cup {[id |-> r, def |-> d]},
                          ![p].names = @ \cup {[name |-> d.name, id |-> r]},
                          ![p].items = @ \cup {r}]
      BY <2>1
    <3>2. PICK copy : copy = Load("rules") \cup {[id |-> r, def |-> d]}
      OBVIOUS
    <3>3. PICK names : names = job[p].names \cup {[name |-> d.name, id |-> r]}
      OBVIOUS
    <3>4. PICK items : items = job[p].items \cup {r}
      OBVIOUS
    <3>5. job' = [job EXCEPT ![p] = [job[p] EXCEPT !.pos = "open", !.rest = Tail(job[p].rest),
                                       !.copy = copy, !.names = names, !.items = items]]
      BY <3>1, <3>2, <3>3, <3>4
    <3>6. copy \in SUBSET Content("rules") /\ Sane("rules", copy, recorded, used')
      BY <1>4, <3>1, <3>2, AddedRule
    <3>7. names \in SUBSET [name : {e.name : e \in Def}, id : RuleId]
      BY <1>1, <1>4, <3>3 DEF Jobs
    <3>8. items \subseteq RuleId \cap used' /\ used \subseteq used'
      BY <1>5, <3>1, <3>4
    <3> QED
      BY <3>1, <3>2, <3>4, <3>5, <3>6, <3>7, <3>8
  <2>2. CASE /\ \E n \in Known(p, d) :
                  /\ \E x \in Load("rules") : x.id = n.id
                  /\ job' = [job EXCEPT ![p].pos = "open", ![p].rest = Tail(@),
                                        ![p].copy = Replaced(Load("rules"), n.id, d)]
             /\ UNCHANGED used
    <3>1. PICK n \in Known(p, d) :
                  /\ \E x \in Load("rules") : x.id = n.id
                  /\ job' = [job EXCEPT ![p].pos = "open", ![p].rest = Tail(@),
                                        ![p].copy = Replaced(Load("rules"), n.id, d)]
      BY <2>2
    <3>2. PICK copy : copy = Replaced(Load("rules"), n.id, d)
      OBVIOUS
    <3>3. copy \in SUBSET Content("rules") /\ Sane("rules", copy, recorded, used) /\ n.id \in RuleId
      BY <1>4, <3>1, <3>2, ReplacedRule
    <3>4. [job[p] EXCEPT !.pos = "open", !.rest = Tail(job[p].rest), !.copy = copy]
            = [job[p] EXCEPT !.pos = "open", !.rest = Tail(job[p].rest), !.copy = copy,
                             !.names = job[p].names, !.items = job[p].items]
      BY <1>1 DEF Jobs
    <3>5. job' = [job EXCEPT ![p] = [job[p] EXCEPT !.pos = "open", !.rest = Tail(job[p].rest),
                                       !.copy = copy, !.names = job[p].names,
                                       !.items = job[p].items]]
      BY <3>1, <3>2, <3>4
    <3>6. job[p].names \in SUBSET [name : {e.name : e \in Def}, id : RuleId]
      BY <1>1 DEF Jobs
    <3> QED
      BY <1>5, <2>2, <3>1, <3>2, <3>3, <3>5, <3>6
  <2> QED
    BY <1>2, <2>1, <2>2 DEF ImportOne
<1>7. PICK copy \in SUBSET Content("rules"), items \in SUBSET RuleId,
           names \in SUBSET [name : {e.name : e \in Def}, id : RuleId] :
        /\ job' = [job EXCEPT ![p] = [job[p] EXCEPT !.pos = "open", !.rest = Tail(job[p].rest),
                                        !.copy = copy, !.names = names, !.items = items]]
        /\ items \subseteq RuleId \cap used' /\ Sane("rules", copy, recorded, used')
        /\ used \subseteq used'
        /\ \/ \E r \in RuleId \ used : /\ used' = used \cup {r} /\ items = job[p].items \cup {r}
                                       /\ copy = Load("rules") \cup {[id |-> r, def |-> d]}
           \/ \E r \in RuleId : /\ \E x \in Load("rules") : x.id = r
                                /\ used' = used /\ items = job[p].items
                                /\ copy = Replaced(Load("rules"), r, d)
  BY <1>6
<1>8. PICK j : j = [job[p] EXCEPT !.pos = "open", !.rest = Tail(job[p].rest),
                                  !.copy = copy, !.names = names, !.items = items]
  OBVIOUS
<1>9. /\ j.op = job[p].op /\ j.file = job[p].file /\ j.pos = "open" /\ j.copy = copy
      /\ j.num = job[p].num /\ j.at = job[p].at /\ j.fd = job[p].fd /\ j.alert = job[p].alert
      /\ j.rules = job[p].rules /\ j.hits = job[p].hits /\ j.items = items
      /\ j.names = names /\ j.rest = Tail(job[p].rest)
  BY <1>1, <1>8 DEF Jobs
<1>10. j \in Jobs
  <2>1. Shaped(j) /\ j.over \in BOOLEAN
    BY <1>1, <1>8 DEF Jobs, Shaped
  <2>2. j.rest \in Seq(Def) /\ j.pos \in Holding \cup {"idle", "load", "failed", "item"}
    BY <1>4, <1>9 DEF Holding
  <2>3. /\ j.op \in Ops /\ j.file \in Store /\ j.num \in Nat /\ j.at \in Nat
        /\ j.fd \in {"none", "tmp", "disk", "gone"}
        /\ j.alert \in Alerts \cup {[src |-> "none", sev |-> "none"]}
        /\ j.rules \in SUBSET Content("rules") /\ j.hits \in SUBSET Content("state")
    BY <1>1, <1>9 DEF Jobs
  <2>4. /\ j.copy \in SUBSET Contents /\ j.items \in SUBSET Items
        /\ j.names \in SUBSET [name : {d1.name : d1 \in Def}, id : RuleId]
    BY <1>7, <1>9 DEF Contents, Store, Items
  <2> QED
    BY <2>1, <2>2, <2>3, <2>4, Shapes
<1>11. Own(j, used') /\ Weighed(j)
  BY <1>3, <1>5, <1>7, <1>9 DEF Own, Weighed
<1>12. Alone(p, j)
  BY <1>3, <1>5, <1>9 DEF Alone, Contended
<1>13. Sane(j.file, j.copy, recorded', used') /\ recorded' = recorded /\ fired' = fired
  BY <1>3, <1>5, <1>7, <1>9 DEF history
<1>14. loads' \in Nat /\ Spoilt \subseteq Spoilt' /\ \A e \in fired' : Counted(e)
  BY <1>3, <1>13 DEF BaseInv, TypeInv, CountInv
<1>15. BaseInv'
  BY <1>3, <1>7, <1>8, <1>10, <1>11, <1>12, <1>13, <1>14, BaseGoes
<1>16. job' = [job EXCEPT ![p] = j]
  BY <1>7, <1>8
<1>17. j.op = "import" /\ j.pos = "open" /\ j.file = "rules" /\ j.num = job[p].num
  BY <1>3, <1>5, <1>9
<1>18. \/ \E r \in RuleId \ used :
            /\ used' = used \cup {r} /\ j.items = job[p].items \cup {r}
            /\ j.copy = Load("rules") \cup {[id |-> r, def |-> d]}
       \/ \E r \in RuleId :
            /\ \E x \in Load("rules") : x.id = r
            /\ used' = used /\ j.items = job[p].items
            /\ j.copy = Replaced(Load("rules"), r, d)
  BY <1>7, <1>9
<1> QED
  BY <1>3, <1>4, <1>5, <1>15, <1>16, <1>17, <1>18

(* After the rule, its counters.                                               *)
LEMMA DropCountersGoes ==
  ASSUME BaseInv, NEW p \in Proc, DropCounters(p)
  PROVE  /\ BaseInv'
         /\ \E j : /\ job' = [job EXCEPT ![p] = j]
                   /\ job[p].op = "delete" /\ job[p].file = "rules" /\ job[p].pos = "saved"
                   /\ j.op = "delete" /\ j.file = "state" /\ j.items = job[p].items
                   /\ j.num = job[p].num
                   /\ j.copy = Load("state") \ {e \in Load("state") : e.rule \in job[p].items}
                   /\ \/ j.pos = "saved"
                      \/ /\ j.pos = "open"
                         /\ Spoilt' = Spoilt \cup {g \in {"state"} : Contended(p, "state")}
         /\ Spoilt \subseteq Spoilt'
         /\ UNCHANGED <<disk, tmp, now, loads, used, history>>
<1>1. PICK mine : mine = {e \in Load("state") : e.rule \in job[p].items}
  OBVIOUS
<1>2. PICK copy : copy = Load("state") \ mine
  OBVIOUS
<1>3. PICK pos : pos = IF mine = {} THEN "saved" ELSE "open"
  OBVIOUS
<1>4. PICK j : j = [job[p] EXCEPT !.file = "state", !.copy = copy, !.pos = pos]
  OBVIOUS
<1>5. job[p] \in Jobs /\ Own(job[p], used)
  BY JobOf DEF BaseInv
<1>6. /\ job' = [job EXCEPT ![p] = j]
      /\ job[p].op = "delete" /\ job[p].file = "rules" /\ job[p].pos = "saved"
      /\ UNCHANGED <<disk, tmp, now, loads, used, history>>
      /\ Spoilt' = IF mine = {} \/ ~Contended(p, "state") THEN Spoilt ELSE Spoilt \cup {"state"}
  BY <1>1, <1>2, <1>3, <1>4 DEF DropCounters, Spoilt
<1>7. /\ j.op = "delete" /\ j.file = "state" /\ j.pos = pos /\ j.copy = copy
      /\ j.num = job[p].num /\ j.at = job[p].at /\ j.fd = job[p].fd /\ j.alert = job[p].alert
      /\ j.rules = job[p].rules /\ j.hits = job[p].hits /\ j.items = job[p].items
      /\ j.names = job[p].names /\ j.rest = job[p].rest
  BY <1>4, <1>5, <1>6 DEF Jobs
<1>8. /\ copy \in SUBSET Content("state") /\ Content("state") \subseteq Contents
      /\ Sane("state", copy, recorded, used)
  BY <1>2, Loaded DEF BaseInv, Store, Sane
<1>9. j \in Jobs
  <2>1. Shaped(j) /\ j.over \in BOOLEAN
    BY <1>4, <1>5 DEF Jobs, Shaped
  <2>2. j.pos \in Holding \cup {"idle", "load", "failed", "item"}
    BY <1>3, <1>7 DEF Holding
  <2>3. /\ j.op \in Ops /\ j.file \in Store /\ j.copy \in SUBSET Contents
    BY <1>7, <1>8 DEF Ops, Store
  <2>4. /\ j.num \in Nat /\ j.at \in Nat /\ j.fd \in {"none", "tmp", "disk", "gone"}
        /\ j.alert \in Alerts \cup {[src |-> "none", sev |-> "none"]}
        /\ j.rules \in SUBSET Content("rules") /\ j.hits \in SUBSET Content("state")
        /\ j.items \in SUBSET Items
        /\ j.names \in SUBSET [name : {d.name : d \in Def}, id : RuleId]
        /\ j.rest \in Seq(Def)
    BY <1>5, <1>7 DEF Jobs
  <2> QED
    BY <2>1, <2>2, <2>3, <2>4, Shapes
<1>10. Own(j, used') /\ Weighed(j) /\ Sane(j.file, j.copy, recorded', used')
  BY <1>5, <1>6, <1>7, <1>8 DEF Own, Weighed, history
<1>11. Spoilt \subseteq Spoilt'
       /\ (mine # {} => Spoilt' = Spoilt \cup {g \in {"state"} : Contended(p, "state")})
  BY <1>6
<1>12. Alone(p, j)
  <2>1. CASE mine = {}
    BY <1>3, <1>7, <2>1 DEF Alone, Held
  <2>2. CASE mine # {}
    BY <1>3, <1>7, <1>11, <2>2 DEF Alone, Contended
  <2> QED
    BY <2>1, <2>2
<1>13. loads' \in Nat /\ used \subseteq used' /\ recorded' = recorded /\ \A e \in fired' : Counted(e)
  BY <1>6 DEF BaseInv, TypeInv, CountInv, history
<1>14. BaseInv'
  BY <1>6, <1>9, <1>10, <1>11, <1>12, <1>13, BaseGoes
<1> QED
  BY <1>1, <1>2, <1>3, <1>6, <1>7, <1>11, <1>14

-----------------------------------------------------------------------------
(* The save.                                                                   *)
Same(j, k) ==
  /\ j.op = k.op /\ j.file = k.file /\ j.copy = k.copy /\ j.num = k.num /\ j.at = k.at
  /\ j.alert = k.alert /\ j.rules = k.rules /\ j.hits = k.hits /\ j.items = k.items

SaveEffect(p) ==
  /\ \A q \in Proc : Same(job'[q], job[q]) /\ (q # p => job'[q].pos = job[q].pos)
  /\ job[p].pos \in {"open", "write", "replace"} /\ job[p].file \in Store
  /\ job'[p].pos \in {"write", "replace", "saved", "failed"}
  /\ \A f \in Store \ {job[p].file} : disk'[f] = disk[f]
  /\ job[p].file \notin Spoilt =>
       \/ /\ disk'[job[p].file] = disk[job[p].file] /\ job'[p].pos \in {"write", "replace"}
          /\ job[p].file \notin InPlace
       \/ /\ disk'[job[p].file] = Torn /\ job'[p].pos = "write" /\ job[p].file \in InPlace
       \/ /\ disk'[job[p].file] = job[p].copy /\ job'[p].pos = "saved"
  /\ UNCHANGED <<Spoilt, now, loads, used, history>>

(* A step of the save of p, when the disk and the temporary files stay well-typed. *)
LEMMA SaveTypes ==
  ASSUME BaseInv, NEW p \in Proc, job' \in [Proc -> Jobs], UNCHANGED <<Spoilt, now, loads, used, history>>,
         NEW f \in Store, NEW d, NEW t, disk' = [disk EXCEPT ![f] = d], tmp' = [tmp EXCEPT ![f] = t],
         d # Torn => d \in SUBSET Content(f) /\ Sane(f, d, recorded, used),
         t \notin {Torn, NoFile} => t \in SUBSET Content(f) /\ Sane(f, t, recorded, used),
         \A q \in Proc : Same(job'[q], job[q]) /\ (q # p => job'[q].pos = job[q].pos),
         \A q \in Proc : job[q].pos = "idle" => job'[q] = job[q],
         job[p].pos \in {"open", "write", "replace"},
         job'[p].pos \in {"write", "replace", "saved", "failed"}
  PROVE  TypeInv' /\ FilesInv' /\ CountInv'
<1> USE DEF BaseInv
<1>1. Content(f) \subseteq Contents
  BY DEF Contents
<1>2. \A g \in Store : disk'[g] = IF g = f THEN d ELSE disk[g]
  BY DEF TypeInv
<1>3. \A g \in Store : tmp'[g] = IF g = f THEN t ELSE tmp[g]
  BY DEF TypeInv
<1>4. /\ disk' \in [Store -> {Torn} \cup SUBSET Contents]
      /\ tmp' \in [Store -> {Torn, NoFile} \cup SUBSET Contents]
  BY <1>1 DEF TypeInv
<1>5. \A g \in Store : /\ disk'[g] # Torn => disk'[g] \in SUBSET Content(g)
                       /\ tmp'[g] \notin {Torn, NoFile} => tmp'[g] \in SUBSET Content(g)
  BY <1>2, <1>3 DEF TypeInv
<1>6. \A q \in Proc : Own(job'[q], used')
  <2> TAKE q \in Proc
  <2>1. Own(job[q], used) /\ Same(job'[q], job[q])
    BY DEF TypeInv
  <2>2. job[q].op # "idle"  => Own(job'[q], used')
    BY <2>1 DEF Own, Same
  <2>3. job[q].op = "idle" => job'[q] = NoJob
    <3> SUFFICES ASSUME job[q].op = "idle"
                 PROVE  job'[q] = NoJob
      OBVIOUS
    <3>1. job[q] = NoJob
      BY <2>1 DEF Own
    <3> QED
      BY <3>1, NothingAtRest
  <2> QED
    BY <2>2, <2>3, NothingAtRest
<1>7. TypeInv'
  BY <1>4, <1>5, <1>6 DEF TypeInv, history
<1>8. FilesInv'
  <2>1. \A g, c : Sane(g, c, recorded', used') = Sane(g, c, recorded, used)
    BY DEF history
  <2>2. \A q \in Proc : Sane(job'[q].file, job'[q].copy, recorded, used)
    BY DEF FilesInv, Same
  <2>3. \A g \in Store : /\ disk'[g] # Torn => Sane(g, disk'[g], recorded, used)
                         /\ tmp'[g] \notin {Torn, NoFile} => Sane(g, tmp'[g], recorded, used)
    BY <1>2, <1>3 DEF FilesInv
  <2> QED
    BY <2>1, <2>2, <2>3 DEF FilesInv
<1>9. CountInv'
  <2>1. \A e : Counted(e)' = Counted(e)
    BY DEF Counted, history
  <2>2. ASSUME NEW q \in Proc, job'[q].op = "evaluate"
        PROVE  /\ IsFiniteSet(job'[q].rules)
               /\ job'[q].pos # "load" => job'[q].at <= now' /\ \A e \in job'[q].copy : e.at <= job'[q].at
               /\ \A e \in job'[q].hits : Counted(e)
    <3>1. Same(job'[q], job[q]) /\ (job'[q].pos # "load" => job[q].pos # "load")
      OBVIOUS
    <3> QED
      BY <2>2, <3>1 DEF CountInv, Same
  <2> QED
    BY <2>1, <2>2 DEF CountInv, history
<1> QED
  BY <1>7, <1>8, <1>9

(* ... and the writer that is alone on its file finds there what it has put.   *)
LEMMA SaveSolo ==
  ASSUME BaseInv, NEW p \in Proc, Spoilt' = Spoilt, NEW f \in Store, f = job[p].file,
         \A q \in Proc : Same(job'[q], job[q]) /\ (q # p => job'[q].pos = job[q].pos),
         \A q \in Proc : q # p /\ job[q].file # f => job'[q] = job[q],
         \A g \in Store : g # f => disk'[g] = disk[g] /\ tmp'[g] = tmp[g],
         job[p].pos \in {"open", "write", "replace"},
         job'[p].pos \in {"write", "replace", "saved", "failed"},
         f \notin Spoilt =>
           /\ job'[p].pos = "write" =>
                IF f \in InPlace THEN job'[p].fd = "disk" /\ disk'[f] = Torn
                                 ELSE job'[p].fd = "tmp" /\ tmp'[f] = Torn
           /\ job'[p].pos = "replace" => f \notin InPlace /\ tmp'[f] = job[p].copy
           /\ job'[p].pos = "saved" => disk'[f] = job[p].copy
  PROVE  SoloInv'
<1> USE DEF BaseInv
<1> SUFFICES ASSUME NEW g \in Store \ Spoilt', NEW q \in Proc, Held(job'[q], g)
             PROVE  /\ \A r \in Proc : Held(job'[r], g) => r = q
                    /\ job'[q].pos = "write" =>
                         IF g \in InPlace THEN job'[q].fd = "disk" /\ disk'[g] = Torn
                                          ELSE job'[q].fd = "tmp" /\ tmp'[g] = Torn
                    /\ job'[q].pos = "replace" => g \notin InPlace /\ tmp'[g] = job'[q].copy
                    /\ job'[q].pos = "saved" => disk'[g] = job'[q].copy
  BY DEF SoloInv
<1>1. \A r \in Proc : r # p => (Held(job'[r], g) <=> Held(job[r], g))
  BY DEF Held, Same
<1>2. Held(job[p], f) /\ \A h \in Store : Held(job[p], h) => h = f
  BY DEF Held, Holding
<1>3. CASE g = f
  <2>1. \A r \in Proc : Held(job[r], f) => r = p
    BY <1>2, <1>3 DEF SoloInv
  <2>2. q = p /\ \A r \in Proc : Held(job'[r], g) => r = p
    BY <1>1, <1>3, <2>1
  <2>3. job'[p].copy = job[p].copy
    BY DEF Same
  <2> QED
    BY <1>3, <2>2, <2>3
<1>4. CASE g # f
  <2>1. ~Held(job'[p], g)
    BY <1>4 DEF Held, Same
  <2>2. \A r \in Proc : Held(job'[r], g) => r # p /\ Held(job[r], g) /\ job'[r] = job[r]
    BY <1>1, <1>4, <2>1 DEF Held
  <2>3. disk'[g] = disk[g] /\ tmp'[g] = tmp[g]
    BY <1>4
  <2> QED
    BY <2>2, <2>3 DEF SoloInv
<1> QED
  BY <1>3, <1>4

LEMMA OpenGoes ==
  ASSUME BaseInv, NEW p \in Proc, OpenForWrite(p), UNCHANGED <<now, started, loads, mix, torn, used, history>>
  PROVE  BaseInv' /\ SaveEffect(p)
<1> USE DEF BaseInv
<1>1. job[p] \in Jobs /\ Own(job[p], used)
  BY JobOf
<1>2. PICK f \in Store : f = job[p].file
  BY <1>1 DEF Jobs
<1>3. PICK fd \in {"disk", "tmp"} : fd = IF f \in InPlace THEN "disk" ELSE "tmp"
  OBVIOUS
<1>4. PICK j : j = [job[p] EXCEPT !.pos = "write", !.fd = fd]
  OBVIOUS
<1>5. PICK d : d = IF f \in InPlace THEN Torn ELSE disk[f]
  OBVIOUS
<1>6. PICK t : t = IF f \in InPlace THEN tmp[f] ELSE Torn
  OBVIOUS
<1>7. /\ job' = [job EXCEPT ![p] = j] /\ job[p].pos = "open"
      /\ UNCHANGED <<Spoilt, now, loads, used, history>>
  BY <1>2, <1>3, <1>4 DEF OpenForWrite, Spoilt
<1>8. disk' = [disk EXCEPT ![f] = d] /\ tmp' = [tmp EXCEPT ![f] = t]
  <2>1. CASE f \in InPlace
    <3>1. disk' = [disk EXCEPT ![f] = Torn] /\ tmp' = tmp
      BY <1>2, <2>1 DEF OpenForWrite
    <3>2. tmp = [tmp EXCEPT ![f] = tmp[f]]
      BY DEF TypeInv
    <3> QED
      BY <1>5, <1>6, <2>1, <3>1, <3>2
  <2>2. CASE f \notin InPlace
    <3>1. tmp' = [tmp EXCEPT ![f] = Torn] /\ disk' = disk
      BY <1>2, <2>2 DEF OpenForWrite
    <3>2. disk = [disk EXCEPT ![f] = disk[f]]
      BY DEF TypeInv
    <3> QED
      BY <1>5, <1>6, <2>2, <3>1, <3>2
  <2> QED
    BY <2>1, <2>2
<1>9. job'[p] = j /\ \A q \in Proc : q # p => job'[q] = job[q]
  BY <1>7, OneJob
<1>10. Same(j, job[p]) /\ j.pos = "write" /\ j.fd = fd /\ j \in Jobs
  BY <1>1, <1>3, <1>4 DEF Jobs, Same, Holding
<1>11. \A q \in Proc : Same(job'[q], job[q]) /\ (q # p => job'[q].pos = job[q].pos)
  BY <1>9, <1>10 DEF Same
<1>12. job' \in [Proc -> Jobs]
  BY <1>7, <1>10 DEF TypeInv
<1>13. /\ d # Torn => d \in SUBSET Content(f) /\ Sane(f, d, recorded, used)
       /\ t \notin {Torn, NoFile} => t \in SUBSET Content(f) /\ Sane(f, t, recorded, used)
  BY <1>5, <1>6 DEF TypeInv, FilesInv
<1>14. \A q \in Proc : job[q].pos = "idle" => job'[q] = job[q]
  BY <1>7, <1>9
<1>15. TypeInv' /\ FilesInv' /\ CountInv'
  BY <1>7, <1>8, <1>9, <1>10, <1>11, <1>12, <1>13, <1>14, SaveTypes
<1>16. /\ \A g \in Store : g # f => disk'[g] = disk[g] /\ tmp'[g] = tmp[g]
       /\ disk'[f] = d /\ tmp'[f] = t
  BY <1>8 DEF TypeInv
<1>17. IF f \in InPlace THEN job'[p].fd = "disk" /\ disk'[f] = Torn
                        ELSE job'[p].fd = "tmp" /\ tmp'[f] = Torn
  BY <1>3, <1>5, <1>6, <1>9, <1>10, <1>16
<1>18. SoloInv'
  BY <1>2, <1>7, <1>9, <1>10, <1>11, <1>16, <1>17, SaveSolo
<1>19. SaveEffect(p)
  <2>1. \/ disk'[f] = disk[f] /\ f \notin InPlace
        \/ disk'[f] = Torn /\ f \in InPlace
    BY <1>5, <1>16
  <2> QED
    BY <1>2, <1>7, <1>9, <1>10, <1>11, <1>16, <2>1 DEF SaveEffect
<1> QED
  BY <1>15, <1>18, <1>19

LEMMA WriteGoes ==
  ASSUME BaseInv, NEW p \in Proc, WriteText(p), UNCHANGED <<now, started, loads, mix, torn, used, history>>
  PROVE  BaseInv' /\ SaveEffect(p)
<1> USE DEF BaseInv
<1>1. job[p] \in Jobs /\ Own(job[p], used)
  BY JobOf
<1>2. PICK f \in Store : f = job[p].file
  BY <1>1 DEF Jobs
<1>3. PICK pos \in {"saved", "replace"} : pos = IF f \in InPlace THEN "saved" ELSE "replace"
  OBVIOUS
<1>4. PICK j : j = [job[p] EXCEPT !.pos = pos]
  OBVIOUS
<1>5. /\ job' = [job EXCEPT ![p] = j] /\ job[p].pos = "write"
      /\ UNCHANGED <<Spoilt, now, loads, used, history>>
  BY <1>2, <1>3, <1>4 DEF WriteText, Spoilt
<1>6. job[p].copy \in SUBSET Content(f) /\ Sane(f, job[p].copy, recorded, used)
  BY <1>1, <1>2 DEF Own, FilesInv
<1>7. \A c, x : x \in Written(c, job[p].copy) => x \in {Torn, job[p].copy}
                                                /\ (c = Torn => x = job[p].copy)
  BY DEF Written
<1>8. PICK d, t :
        /\ disk' = [disk EXCEPT ![f] = d] /\ tmp' = [tmp EXCEPT ![f] = t]
        /\ d \in {disk[f], Torn, job[p].copy} /\ t \in {tmp[f], Torn, job[p].copy}
        /\ job[p].fd = "tmp" /\ tmp[f] = Torn => t = job[p].copy /\ d = disk[f]
        /\ job[p].fd = "disk" /\ disk[f] = Torn => d = job[p].copy
        /\ job[p].fd = "tmp" => d = disk[f]
  <2>1. disk = [disk EXCEPT ![f] = disk[f]] /\ tmp = [tmp EXCEPT ![f] = tmp[f]]
    BY DEF TypeInv
  <2>2. CASE /\ job[p].fd = "tmp"
             /\ \E c \in Written(tmp[f], job[p].copy) : tmp' = [tmp EXCEPT ![f] = c]
             /\ UNCHANGED disk
    BY <1>7, <2>1, <2>2
  <2>3. CASE /\ job[p].fd = "disk"
             /\ \E c \in Written(disk[f], job[p].copy) : disk' = [disk EXCEPT ![f] = c]
             /\ UNCHANGED tmp
    BY <1>7, <2>1, <2>3
  <2>4. CASE job[p].fd = "gone" /\ UNCHANGED <<disk, tmp>>
    BY <2>1, <2>4
  <2> QED
    BY <1>2, <2>2, <2>3, <2>4 DEF WriteText
<1>9. job'[p] = j /\ \A q \in Proc : q # p => job'[q] = job[q]
  BY <1>5, OneJob
<1>10. Same(j, job[p]) /\ j.pos = pos /\ j \in Jobs
  BY <1>1, <1>3, <1>4 DEF Jobs, Same, Holding
<1>11. \A q \in Proc : Same(job'[q], job[q]) /\ (q # p => job'[q].pos = job[q].pos)
  BY <1>9, <1>10 DEF Same
<1>12. job' \in [Proc -> Jobs]
  BY <1>5, <1>10 DEF TypeInv
<1>13. /\ d # Torn => d \in SUBSET Content(f) /\ Sane(f, d, recorded, used)
       /\ t \notin {Torn, NoFile} => t \in SUBSET Content(f) /\ Sane(f, t, recorded, used)
  BY <1>6, <1>8 DEF TypeInv, FilesInv
<1>14. \A q \in Proc : job[q].pos = "idle" => job'[q] = job[q]
  BY <1>5, <1>9
<1>15. TypeInv' /\ FilesInv' /\ CountInv'
  BY <1>3, <1>5, <1>8, <1>9, <1>10, <1>11, <1>12, <1>13, <1>14, SaveTypes
<1>16. /\ \A g \in Store : g # f => disk'[g] = disk[g] /\ tmp'[g] = tmp[g]
       /\ disk'[f] = d /\ tmp'[f] = t
  BY <1>8 DEF TypeInv
<1>17. ASSUME f \notin Spoilt
       PROVE  /\ f \notin InPlace => t = job[p].copy /\ d = disk[f]
              /\ f \in InPlace => d = job[p].copy
  <2>1. Held(job[p], f)
    BY <1>2, <1>5 DEF Held, Holding
  <2>2. IF f \in InPlace THEN job[p].fd = "disk" /\ disk[f] = Torn
                         ELSE job[p].fd = "tmp" /\ tmp[f] = Torn
    BY <1>5, <1>17, <2>1 DEF SoloInv
  <2> QED
    BY <1>8, <2>2
<1>18. SoloInv'
  <2>1. f \notin Spoilt =>
           /\ job'[p].pos # "write"
           /\ job'[p].pos = "replace" => f \notin InPlace /\ tmp'[f] = job[p].copy
           /\ job'[p].pos = "saved" => disk'[f] = job[p].copy
    BY <1>3, <1>9, <1>10, <1>16, <1>17
  <2>2. job'[p].pos \in {"write", "replace", "saved", "failed"}
    BY <1>3, <1>9, <1>10
  <2> QED
    BY <1>2, <1>5, <1>9, <1>11, <1>16, <2>1, <2>2, SaveSolo
<1>19. SaveEffect(p)
  <2>0. job'[p].pos = IF f \in InPlace THEN "saved" ELSE "replace"
    BY <1>3, <1>9, <1>10
  <2>1. ASSUME f \notin Spoilt
        PROVE  \/ disk'[f] = disk[f] /\ f \notin InPlace /\ job'[p].pos = "replace"
               \/ disk'[f] = job[p].copy /\ job'[p].pos = "saved"
    BY <1>16, <1>17, <2>0, <2>1
  <2>2. job'[p].pos \in {"write", "replace", "saved", "failed"}
    BY <1>3, <1>9, <1>10
  <2> QED
    BY <1>2, <1>5, <1>9, <1>10, <1>11, <1>16, <2>1, <2>2 DEF SaveEffect
<1> QED
  BY <1>15, <1>18, <1>19

LEMMA ReplaceGoes ==
  ASSUME BaseInv, NEW p \in Proc, Replace(p), UNCHANGED <<now, started, loads, mix, torn, used, history>>
  PROVE  BaseInv' /\ SaveEffect(p)
<1> USE DEF BaseInv
<1>1. job[p] \in Jobs /\ Own(job[p], used)
  BY JobOf
<1>2. PICK f \in Store : f = job[p].file
  BY <1>1 DEF Jobs
<1>3. job[p].pos = "replace" /\ UNCHANGED <<Spoilt, now, loads, used, history>>
  BY DEF Replace, Spoilt
<1>4. PICK pos \in {"saved", "failed"} : pos = IF tmp[f] = NoFile THEN "failed" ELSE "saved"
  OBVIOUS
<1>5. PICK j : j = [job[p] EXCEPT !.pos = pos]
  OBVIOUS
<1>6. Same(j, job[p]) /\ j.pos = pos /\ j \in Jobs
  BY <1>1, <1>4, <1>5 DEF Jobs, Same, Holding
<1>7. ASSUME NEW k \in Jobs
      PROVE  /\ Moved(k, f) \in Jobs /\ Same(Moved(k, f), k) /\ Moved(k, f).pos = k.pos
             /\ k.file # f \/ k.pos # "write" => Moved(k, f) = k
  <2>1. CASE k.file # f \/ k.pos # "write"
    BY <2>1 DEF Moved, Same
  <2>2. CASE ~(k.file # f \/ k.pos # "write")
    <3>1. PICK fd \in {"disk", "gone"} : fd = IF k.fd = "tmp" THEN "disk" ELSE "gone"
      OBVIOUS
    <3>2. Moved(k, f) = [k EXCEPT !.fd = fd]
      BY <2>2, <3>1 DEF Moved
    <3>3. [k EXCEPT !.fd = fd] \in Jobs
      BY DEF Jobs
    <3>4. Same([k EXCEPT !.fd = fd], k) /\ [k EXCEPT !.fd = fd].pos = k.pos
      BY DEF Jobs, Same
    <3> QED
      BY <2>2, <3>2, <3>3, <3>4
  <2> QED
    BY <2>1, <2>2
<1>8. PICK d, t :
        /\ disk' = [disk EXCEPT ![f] = d] /\ tmp' = [tmp EXCEPT ![f] = t]
        /\ pos = "saved" => d = tmp[f] /\ t = NoFile
        /\ pos = "failed" => d = disk[f] /\ t = tmp[f]
        /\ tmp[f] = NoFile <=> pos = "failed"
  <2>1. CASE tmp[f] = NoFile
    <3>1. disk' = disk /\ tmp' = tmp
      BY <1>2, <2>1 DEF Replace
    <3>2. disk = [disk EXCEPT ![f] = disk[f]] /\ tmp = [tmp EXCEPT ![f] = tmp[f]]
      BY DEF TypeInv
    <3> QED
      BY <1>4, <2>1, <3>1, <3>2
  <2>2. CASE tmp[f] # NoFile
    <3>1. disk' = [disk EXCEPT ![f] = tmp[f]] /\ tmp' = [tmp EXCEPT ![f] = NoFile]
      BY <1>2, <2>2 DEF Replace
    <3> QED
      BY <1>4, <2>2, <3>1
  <2> QED
    BY <2>1, <2>2
<1>9. /\ job' \in [Proc -> Jobs] /\ job'[p] = j
      /\ \A q \in Proc : q # p => job'[q] \in {job[q], Moved(job[q], f)}
  <2>1. CASE tmp[f] = NoFile
    <3>1. job' = [job EXCEPT ![p] = j]
      BY <1>2, <1>4, <1>5, <2>1 DEF Replace
    <3> QED
      BY <1>6, <3>1, OneJob DEF TypeInv
  <2>2. CASE tmp[f] # NoFile
    <3>1. job' = [q \in Proc |-> IF q = p THEN j ELSE Moved(job[q], f)]
      BY <1>2, <1>4, <1>5, <2>2 DEF Replace
    <3>2. \A q \in Proc : job[q] \in Jobs
      BY DEF TypeInv
    <3> QED
      BY <1>6, <1>7, <3>1, <3>2
  <2> QED
    BY <2>1, <2>2
<1>10. \A q \in Proc : q # p /\ (job[q].file # f \/ job[q].pos # "write") => job'[q] = job[q]
  BY <1>7, <1>9 DEF TypeInv
<1>11. \A q \in Proc : Same(job'[q], job[q]) /\ (q # p => job'[q].pos = job[q].pos)
  <2> TAKE q \in Proc
  <2>1. Same(job[q], job[q]) /\ job[q] \in Jobs
    BY DEF Same, TypeInv
  <2> QED
    BY <1>6, <1>7, <1>9, <2>1
<1>12. /\ d # Torn => d \in SUBSET Content(f) /\ Sane(f, d, recorded, used)
       /\ t \notin {Torn, NoFile} => t \in SUBSET Content(f) /\ Sane(f, t, recorded, used)
  BY <1>4, <1>8 DEF TypeInv, FilesInv
<1>13. \A q \in Proc : job[q].pos = "idle" => job'[q] = job[q]
  BY <1>3, <1>10
<1>14. job'[p].pos = pos
  BY <1>6, <1>9
<1>15. TypeInv' /\ FilesInv' /\ CountInv'
  <2>1. /\ job[p].pos \in {"open", "write", "replace"}
        /\ job'[p].pos \in {"write", "replace", "saved", "failed"}
    BY <1>3, <1>4, <1>14
  <2> QED
    BY <1>3, <1>8, <1>9, <1>11, <1>12, <1>13, <2>1, SaveTypes
<1>16. /\ \A g \in Store : g # f => disk'[g] = disk[g] /\ tmp'[g] = tmp[g]
       /\ disk'[f] = d /\ tmp'[f] = t
  BY <1>8 DEF TypeInv
<1>17. ASSUME f \notin Spoilt
       PROVE  pos = "saved" /\ disk'[f] = job[p].copy
  <2>1. Held(job[p], f)
    BY <1>2, <1>3 DEF Held, Holding
  <2>2. tmp[f] = job[p].copy
    BY <1>3, <1>17, <2>1 DEF SoloInv
  <2>3. job[p].copy # NoFile
    BY <1>1, <1>2, DiskAssumption DEF Own
  <2> QED
    BY <1>4, <1>8, <1>16, <2>2, <2>3
<1>18. SoloInv'
  <2>1. \A q \in Proc : q # p /\ job[q].file # f => job'[q] = job[q]
    BY <1>10
  <2>2. /\ job[p].pos \in {"open", "write", "replace"}
        /\ job'[p].pos \in {"write", "replace", "saved", "failed"}
    BY <1>3, <1>4, <1>14
  <2>3. f \notin Spoilt => job'[p].pos = "saved" /\ disk'[f] = job[p].copy
    BY <1>14, <1>17
  <2> QED
    BY <1>2, <1>3, <1>11, <1>16, <2>1, <2>2, <2>3, SaveSolo
<1>19. SaveEffect(p)
  BY <1>2, <1>3, <1>4, <1>11, <1>14, <1>16, <1>17 DEF SaveEffect
<1> QED
  BY <1>15, <1>18, <1>19

LEMMA SavesGoes ==
  ASSUME BaseInv, NEW p \in Proc, Saves(p)
  PROVE  BaseInv' /\ SaveEffect(p)
BY OpenGoes, WriteGoes, ReplaceGoes DEF Saves, SaveStep

-----------------------------------------------------------------------------
(* The start, and every step.                                                  *)
LEMMA BaseInit ==
  ASSUME RulesInit
  PROVE  BaseInv
<1>1. PICK rs \in Seeds : /\ disk = [f \in Store |-> IF f = "rules" THEN rs ELSE {}]
                          /\ used = {r.id : r \in rs}
                          /\ kept = {<<"rules", r.id>> : r \in rs}
  BY DEF RulesInit
<1>2. rs \subseteq Content("rules") /\ IsFiniteSet(rs)
  BY RulesAssumption
<1>3. NoJob \in Jobs /\ (\A u : Own(NoJob, u)) /\ (\A u, v : Sane("rules", {}, u, v))
      /\ (\A f : ~Held(NoJob, f)) /\ NoJob.op = "idle" /\ NoJob.file = "rules" /\ NoJob.copy = {}
  <2>1. <<>> \in Seq(Def) /\ IsFiniteSet({})
    BY FS_EmptySet
  <2>2. NoJob \in Jobs
    BY <2>1 DEF NoJob, Jobs, Ops, Store
  <2> QED
    BY <2>1, <2>2 DEF NoJob, Own, Sane, Held, Holding
<1>4. /\ tmp = [f \in Store |-> NoFile] /\ job = [p \in Proc |-> NoJob] /\ Spoilt = {}
      /\ now = 0 /\ loads = 0 /\ recorded = {} /\ fired = {}
  BY DEF RulesInit, Spoilt
<1>5. \A p \in Proc : job[p] = NoJob
  BY <1>4
<1>6. TypeInv
  <2>1. job \in [Proc -> Jobs] /\ \A p \in Proc : Own(job[p], used)
    BY <1>3, <1>4
  <2>2. /\ disk \in [Store -> {Torn} \cup SUBSET Contents]
        /\ tmp \in [Store -> {Torn, NoFile} \cup SUBSET Contents]
        /\ \A f \in Store : /\ disk[f] # Torn => disk[f] \in SUBSET Content(f)
                            /\ tmp[f] \notin {Torn, NoFile} => tmp[f] \in SUBSET Content(f)
    <3>1. rs \in SUBSET Contents
      BY <1>2 DEF Contents, Store
    <3> QED
      BY <1>1, <1>2, <1>4, <3>1
  <2> QED
    BY <1>4, <2>1, <2>2 DEF TypeInv
<1>7. FilesInv
  <2>1. \A f \in Store : Sane(f, disk[f], recorded, used)
    BY <1>1, <1>2 DEF Sane
  <2>2. \A f \in Store : tmp[f] = NoFile
    BY <1>4
  <2>3. \A p \in Proc : Sane(job[p].file, job[p].copy, recorded, used)
    BY <1>3, <1>5
  <2> QED
    BY <2>1, <2>2, <2>3 DEF FilesInv
<1>8. CountInv
  BY <1>3, <1>4, <1>5, FS_EmptySet DEF CountInv
<1>9. SoloInv
  BY <1>3, <1>5 DEF SoloInv
<1> QED
  BY <1>6, <1>7, <1>8, <1>9 DEF BaseInv

LEMMA BaseNext ==
  ASSUME BaseInv, [RulesNext]_ruleVars
  PROVE  BaseInv'
<1>1. CASE UNCHANGED ruleVars
  <2>1. now' \in Nat /\ now' >= now
    BY <1>1 DEF BaseInv, TypeInv, ruleVars
  <2> QED
    BY <1>1, <2>1, Stays DEF ruleVars, Spoilt
<1>2. CASE Tick
  <2>1. now' \in Nat /\ now' >= now
    BY <1>2 DEF BaseInv, TypeInv, Tick
  <2> QED
    BY <1>2, <2>1, Stays DEF Tick, history, Spoilt
<1>3. ASSUME NEW p \in Proc, Begins(p)
      PROVE  BaseInv'
  <2>1. CASE BeginsRules(p)
    BY <2>1, EvaluateAllGoes, CreateRuleGoes, UpdateRuleGoes, DeleteRuleGoes, ImportRulesGoes
       DEF BeginsRules
  <2>2. CASE BeginsLookup(p)
    BY <2>2, CreateTableGoes, UpsertEntryGoes, RemoveEntriesGoes
       DEF BeginsLookup, DeleteTable, DeleteEntry
  <2>3. CASE BeginsProviders(p)
    BY <2>3, AddProviderGoes, RemoveProviderGoes DEF BeginsProviders
  <2> QED
    BY <1>3, <2>1, <2>2, <2>3 DEF Begins
<1>4. ASSUME NEW p \in Proc, GoesOn(p) \/ Crash(p)
      PROVE  BaseInv'
  BY <1>4, LoadStateGoes, ApplyRulesGoes, EndsGo, DropCountersGoes, PassOverGoes, ImportOneGoes,
     SavesGoes DEF GoesOn
<1> QED
  BY <1>1, <1>2, <1>3, <1>4 DEF RulesNext

-----------------------------------------------------------------------------
(* What was acknowledged is kept.                                              *)
LEMMA KeptQuiet ==
  ASSUME KeptInv, UNCHANGED <<disk, job, Spoilt, kept, dropped>>
  PROVE  KeptInv'
BY DEF KeptInv, Wanted, Pending, Begun, Load

LEMMA KeptSaves ==
  ASSUME BaseInv, KeptInv, NEW p \in Proc, SaveEffect(p)
  PROVE  KeptInv'
<1>1. PICK f \in Store : f = job[p].file
  BY DEF SaveEffect
<1>2. /\ \A q \in Proc : Same(job'[q], job[q]) /\ (q # p => job'[q].pos = job[q].pos)
      /\ job[p].pos \in {"open", "write", "replace"}
      /\ job'[p].pos \in {"write", "replace", "saved", "failed"}
      /\ \A g \in Store : g # f => disk'[g] = disk[g]
      /\ Spoilt' = Spoilt /\ kept' = kept /\ dropped' = dropped
  BY <1>1 DEF SaveEffect, history
<1>3. f \notin Spoilt =>
       \/ disk'[f] = disk[f] /\ job'[p].pos \in {"write", "replace"} /\ f \notin InPlace
       \/ disk'[f] = Torn /\ job'[p].pos = "write" /\ f \in InPlace
       \/ disk'[f] = job[p].copy /\ job'[p].pos = "saved"
  BY <1>1 DEF SaveEffect
<1>4. Held(job[p], f) /\ (\A g \in Store : Held(job[p], g) => g = f) /\ f \in Store
  BY <1>1, <1>2 DEF Held, Holding
<1>5. job[p].copy # Torn /\ job'[p].copy = job[p].copy
  BY <1>1, <1>2, JobOf, DiskAssumption DEF Own, BaseInv, Same
<1>6. \A q \in Proc : \A x : Pending(job[q], x)' <=> Pending(job[q], x)
  BY <1>2 DEF Pending, Same, Begun
<1>7. \A g, x : Wanted(g, x)' <=> Wanted(g, x)
  BY <1>2, <1>6 DEF Wanted
<1>8. \A g \in Store, q \in Proc : Held(job'[q], g) => Held(job[q], g)
  BY <1>2, <1>4 DEF Held, Same, Holding
<1>9. \A g \in Store, q \in Proc : q # p => (Held(job'[q], g) <=> Held(job[q], g))
  BY <1>2 DEF Held, Same
<1>10. \A g \in Store : g # f => Load(g)' = Load(g)
  BY <1>2 DEF Load
<1>11. ASSUME NEW g \in Store \ Spoilt', NEW x, Wanted(g, x), In(g, Load(g), x)
       PROVE  In(g, Load(g), x)' \/ (g = f /\ g \in InPlace /\ job'[p].pos = "write")
  <2>1. CASE g # f
    BY <1>10, <1>11, <2>1 DEF In
  <2>2. CASE g = f /\ disk'[f] = disk[f]
    BY <1>11, <2>2 DEF In, Load
  <2>3. CASE g = f /\ disk'[f] = job[p].copy
    <3>1. Load(g)' = job[p].copy
      BY <1>5, <2>3 DEF Load
    <3>2. In(g, job[p].copy, x)
      BY <1>2, <1>4, <1>11, <2>3 DEF KeptInv
    <3> QED
      BY <3>1, <3>2 DEF In
  <2> QED
    BY <1>2, <1>3, <1>11, <2>1, <2>2, <2>3
<1>12. \A x : <<"state", x>> \notin kept'
  BY <1>2 DEF KeptInv
<1>13. ASSUME NEW g \in Store \ Spoilt', NEW x, <<g, x>> \in kept'
       PROVE  \/ In(g, Load(g), x)'
              \/ g \in InPlace /\ \E q \in Proc : Held(job'[q], g) /\ job'[q].pos = "write"
  <2>1. Wanted(g, x) /\ g \in Store \ Spoilt /\ <<g, x>> \in kept
    BY <1>2, <1>13 DEF Wanted
  <2>2. CASE g = f
    <3>1. In(g, job[p].copy, x)
      BY <1>4, <2>1, <2>2 DEF KeptInv
    <3>2. CASE disk'[f] = job[p].copy
      BY <1>5, <2>2, <3>1, <3>2 DEF In, Load
    <3>3. CASE job'[p].pos = "write" /\ f \in InPlace
      BY <1>1, <1>2, <2>2, <3>3 DEF Held, Same, Holding
    <3>4. CASE disk'[f] = disk[f] /\ f \notin InPlace
      BY <2>1, <2>2, <3>4 DEF KeptInv, In, Load
    <3> QED
      BY <1>3, <2>1, <2>2, <3>2, <3>3, <3>4
  <2>3. CASE g # f
    <3>1. CASE In(g, Load(g), x)
      BY <1>10, <2>3, <3>1 DEF In
    <3>2. CASE g \in InPlace /\ \E q \in Proc : Held(job[q], g) /\ job[q].pos = "write"
      <4>1. PICK q \in Proc : Held(job[q], g) /\ job[q].pos = "write"
        BY <3>2
      <4>2. q # p
        BY <1>4, <2>3, <4>1
      <4> QED
        BY <1>2, <1>9, <3>2, <4>1, <4>2
    <3> QED
      BY <2>1, <3>1, <3>2 DEF KeptInv
  <2> QED
    BY <2>2, <2>3
<1>14. ASSUME "rules" \notin Spoilt', NEW q \in Proc, NEW x \in job'[q].items, Pending(job[q], x)'
       PROVE  In("rules", Load("rules"), x)' \/ Held(job'[q], "rules")
  <2>1. Pending(job[q], x) /\ x \in job[q].items /\ "rules" \in Store \ Spoilt
    BY <1>2, <1>6, <1>14 DEF Same, Store
  <2>2. Wanted("rules", x)
    BY <2>1 DEF Wanted
  <2>3. CASE Held(job[q], "rules")
    <3>1. CASE q # p
      BY <1>9, <2>1, <2>3, <3>1
    <3>2. CASE q = p
      <4>1. f = "rules" /\ job'[p].pos \in {"write", "replace", "saved"}
        BY <1>3, <1>4, <2>1, <2>3, <3>2
      <4> QED
        BY <1>1, <1>2, <3>2, <4>1 DEF Held, Same, Holding
    <3> QED
      BY <3>1, <3>2
  <2>4. CASE In("rules", Load("rules"), x)
    BY <1>2, <1>11, <2>1, <2>2, <2>4 DEF InPlace
  <2> QED
    BY <2>1, <2>3, <2>4 DEF KeptInv
<1>15. ASSUME NEW g \in Store \ Spoilt', NEW q \in Proc, Held(job'[q], g)
       PROVE  /\ \A x : Wanted(g, x)' => In(g, job'[q].copy, x)
              /\ job'[q].op \notin {"evaluate", "delete", "import"} =>
                   \A x \in job'[q].items : In(g, job'[q].copy, x)
  <2>1. Held(job[q], g) /\ g \in Store \ Spoilt /\ Same(job'[q], job[q])
    BY <1>2, <1>8, <1>15
  <2>2. /\ \A x : Wanted(g, x) => In(g, job[q].copy, x)
        /\ job[q].op \notin {"evaluate", "delete", "import"} =>
             \A x \in job[q].items : In(g, job[q].copy, x)
    BY <2>1 DEF KeptInv
  <2> QED
    BY <1>7, <2>1, <2>2 DEF Same
<1> QED
  BY <1>12, <1>13, <1>14, <1>15 DEF KeptInv

(* An import between two of its saves has all it has created in the file.      *)
LEMMA Imports ==
  ASSUME BaseInv, KeptInv, NEW p \in Proc, "rules" \notin Spoilt,
         job[p].op = "import", job[p].pos \in {"item", "saved"}, NEW x, Pending(job[p], x)
  PROVE  In("rules", Load("rules"), x)
<1>1. "rules" \in Store \ Spoilt /\ job[p].file = "rules" /\ x \in job[p].items
  BY JobOf DEF BaseInv, Own, Store, Pending
<1>2. Wanted("rules", x)
  BY DEF Wanted
<1>3. CASE job[p].pos = "item"
  <2>1. ~Held(job[p], "rules")
    BY <1>3 DEF Held, Holding
  <2> QED
    BY <1>1, <2>1 DEF KeptInv
<1>4. CASE job[p].pos = "saved"
  <2>1. Held(job[p], "rules")
    BY <1>1, <1>4 DEF Held, Holding
  <2>2. disk["rules"] = job[p].copy
    BY <1>1, <1>4, <2>1 DEF BaseInv, SoloInv
  <2>3. In("rules", job[p].copy, x)
    BY <1>1, <1>2, <2>1 DEF KeptInv
  <2>4. job[p].copy # Torn
    BY <1>1, JobOf, DiskAssumption DEF BaseInv, Own, Store
  <2>5. Load("rules") = job[p].copy
    BY <2>2, <2>4 DEF Load
  <2> QED
    BY <2>3, <2>5
<1> QED
  BY <1>3, <1>4

(* A process that finds nobody on its file finds everything in it.             *)
LEMMA AllThere ==
  ASSUME BaseInv, KeptInv, NEW p \in Proc, NEW f \in Store \ Spoilt,
         \A q \in Proc \ {p} : ~Holds(q, f),
         job[p] = NoJob \/ (job[p].op = "import" /\ job[p].pos \in {"item", "saved"}),
         NEW x, Wanted(f, x)
  PROVE  In(f, Load(f), x)
<1>1. job[p].pos # "write" /\ \A q \in Proc : q # p => ~Held(job[q], f)
  BY NothingAtRest DEF Held, Holds, BaseInv
<1>2. CASE <<f, x>> \in kept
  BY <1>1, <1>2 DEF KeptInv
<1>3. CASE f = "rules" /\ \E q \in Proc : Pending(job[q], x)
  <2>1. PICK q \in Proc : Pending(job[q], x)
    BY <1>3
  <2>2. CASE q # p
    BY <1>1, <1>3, <2>1, <2>2 DEF KeptInv, Pending
  <2>3. CASE q = p
    <3>1. job[p].op = "import"
      BY <2>1, <2>3 DEF Pending
    <3>2. job[p].pos \in {"item", "saved"}
      BY <3>1, NothingAtRest DEF BaseInv
    <3> QED
      BY <1>3, <2>1, <2>3, <3>1, <3>2, Imports
  <2> QED
    BY <2>2, <2>3
<1> QED
  BY <1>2, <1>3 DEF Wanted

LEMMA KeptLoads ==
  ASSUME BaseInv, KeptInv, NEW p \in Proc, NEW f \in Store, NEW j,
         job' = [job EXCEPT ![p] = j], j.file = f, j.pos = "open", j.op # "evaluate",
         j.op = "import" => f = "rules",
         job[p] = NoJob \/ (f = "rules" /\ job[p].op = "import" /\ job[p].pos \in {"item", "saved"}),
         Spoilt' = Spoilt \cup {g \in {f} : Contended(p, f)}, disk' = disk,
         kept' \subseteq kept, dropped \subseteq dropped',
         \A x : In(f, Load(f), x) =>
           In(f, j.copy, x) \/ (<<f, x>> \notin kept' /\ (f = "rules" => <<"begun", x>> \in dropped')),
         \A x \in j.items : x \in job[p].items \/ j.op = "delete" \/ In(f, j.copy, x),
         j.op \notin {"delete", "import"} => \A x \in j.items : In(f, j.copy, x)
  PROVE  KeptInv'
<1>1. job'[p] = j /\ \A q \in Proc : q # p => job'[q] = job[q]
  BY OneJob DEF BaseInv
<1>2. \A q \in Proc : \A x : q # p /\ Pending(job[q], x)' => Pending(job[q], x)
  BY <1>1 DEF Pending, Begun
<1>3. \A g : Load(g)' = Load(g)
  BY DEF Load
<1>4. Spoilt \subseteq Spoilt'
  OBVIOUS
<1>5. ASSUME f \notin Spoilt'
      PROVE  /\ f \in Store \ Spoilt /\ \A q \in Proc \ {p} : ~Holds(q, f)
             /\ \A x : Wanted(f, x) => In(f, Load(f), x)
  <2>1. f \in Store \ Spoilt /\ \A q \in Proc \ {p} : ~Holds(q, f)
    BY <1>5 DEF Contended
  <2> QED
    BY <2>1, AllThere
<1>6. job[p].pos # "write"
  BY NothingAtRest DEF BaseInv
<1>7. \A g \in Store : g # f => ~Held(job[p], g) /\ ~Held(j, g)
  <2>1. job[p] = NoJob \/ (f = "rules" /\ job[p].file = "rules")
    BY JobOf DEF BaseInv, Own
  <2> QED
    BY <2>1, NothingAtRest DEF BaseInv, Held
<1>8. \A x : <<"state", x>> \notin kept'
  BY DEF KeptInv
<1>9. ASSUME NEW g \in Store \ Spoilt', NEW x, <<g, x>> \in kept'
      PROVE  \/ In(g, Load(g), x)'
             \/ g \in InPlace /\ \E q \in Proc : Held(job'[q], g) /\ job'[q].pos = "write"
  <2>1. <<g, x>> \in kept /\ g \in Store \ Spoilt
    BY <1>4, <1>9
  <2>2. CASE In(g, Load(g), x)
    BY <1>3, <2>2 DEF In
  <2>3. CASE g \in InPlace /\ \E q \in Proc : Held(job[q], g) /\ job[q].pos = "write"
    <3>1. PICK q \in Proc : Held(job[q], g) /\ job[q].pos = "write"
      BY <2>3
    <3>2. job'[q] = job[q]
      BY <1>1, <1>6, <3>1
    <3> QED
      BY <2>3, <3>1, <3>2
  <2> QED
    BY <2>1, <2>2, <2>3 DEF KeptInv
<1>10. ASSUME "rules" \notin Spoilt', NEW q \in Proc, NEW x \in job'[q].items, Pending(job[q], x)'
       PROVE  In("rules", Load("rules"), x)' \/ Held(job'[q], "rules")
  <2>1. CASE q # p
    <3>1. Pending(job[q], x) /\ x \in job[q].items /\ job'[q] = job[q]
      BY <1>1, <1>2, <1>10, <2>1
    <3>2. In("rules", Load("rules"), x) \/ Held(job[q], "rules")
      BY <1>4, <1>10, <3>1 DEF KeptInv
    <3> QED
      BY <1>3, <3>1, <3>2 DEF In
  <2>2. CASE q = p
    <3>1. j.op = "import" /\ f = "rules"
      BY <1>1, <1>10, <2>2 DEF Pending
    <3> QED
      BY <1>1, <2>2, <3>1 DEF Held, Holding
  <2> QED
    BY <2>1, <2>2
<1>11. ASSUME NEW g \in Store \ Spoilt', NEW q \in Proc, Held(job'[q], g)
       PROVE  /\ \A x : Wanted(g, x)' => In(g, job'[q].copy, x)
              /\ job'[q].op \notin {"evaluate", "delete", "import"} =>
                   \A x \in job'[q].items : In(g, job'[q].copy, x)
  <2>1. CASE g = f
    <3>1. q = p
      <4>1. \A r \in Proc : r # p => ~Held(job[r], f)
        BY <1>5, <1>11, <2>1 DEF Held, Holds
      <4> QED
        BY <1>1, <1>11, <2>1, <4>1
    <3>2. ASSUME NEW x, Wanted(f, x)'
          PROVE  In(f, j.copy, x)
      <4>1. CASE <<f, x>> \in kept'
        <5>1. Wanted(f, x)
          BY <4>1 DEF Wanted
        <5> QED
          BY <1>5, <1>11, <2>1, <4>1, <5>1
      <4>2. CASE f = "rules" /\ \E r \in Proc : Pending(job[r], x)'
        <5>1. PICK r \in Proc : Pending(job[r], x)'
          BY <4>2
        <5>2. <<"begun", x>> \notin dropped' /\ x \in job'[r].items /\ job'[r].op = "import"
          BY <5>1 DEF Pending, Begun
        <5>3. CASE Wanted(f, x)
          BY <1>5, <1>11, <2>1, <4>2, <5>2, <5>3
        <5>4. CASE ~Wanted(f, x)
          <6>1. r = p
            BY <1>2, <4>2, <5>1, <5>4 DEF Wanted
          <6>2. x \notin job[p].items
            <7>1. job[p] = NoJob \/ job[p].op = "import"
              OBVIOUS
            <7>2. NoJob.items = {}
              BY NothingAtRest DEF BaseInv
            <7>3. ASSUME x \in job[p].items
                  PROVE  Pending(job[p], x)
              BY <5>2, <7>1, <7>2, <7>3 DEF Pending, Begun
            <7> QED
              BY <4>2, <5>4, <7>3 DEF Wanted
          <6> QED
            BY <1>1, <5>2, <6>1, <6>2
        <5> QED
          BY <5>3, <5>4
      <4> QED
        BY <3>2, <4>1, <4>2 DEF Wanted
    <3> QED
      BY <1>1, <2>1, <3>1, <3>2
  <2>2. CASE g # f
    <3>1. q # p /\ Held(job[q], g) /\ job'[q] = job[q] /\ g \in Store \ Spoilt
      BY <1>1, <1>4, <1>7, <1>11, <2>2
    <3>2. ASSUME NEW x, Wanted(g, x)'
          PROVE  Wanted(g, x)
      <4>1. CASE <<g, x>> \in kept'
        BY <4>1 DEF Wanted
      <4>2. CASE g = "rules" /\ \E r \in Proc : Pending(job[r], x)'
        <5>1. PICK r \in Proc : Pending(job[r], x)'
          BY <4>2
        <5>2. r # p
          BY <1>1, <2>2, <4>2, <5>1 DEF Pending
        <5> QED
          BY <1>2, <4>2, <5>1, <5>2 DEF Wanted
      <4> QED
        BY <3>2, <4>1, <4>2 DEF Wanted
    <3> QED
      BY <3>1, <3>2 DEF KeptInv
  <2> QED
    BY <2>1, <2>2
<1> QED
  BY <1>8, <1>9, <1>10, <1>11 DEF KeptInv

(* A step that leaves p without a file: it has begun, passes over or ends.     *)
LEMMA KeptRests ==
  ASSUME BaseInv, KeptInv, NEW p \in Proc, NEW j, job' = [job EXCEPT ![p] = j],
         \A f \in Store : ~Held(j, f), disk' = disk, Spoilt \subseteq Spoilt', dropped \subseteq dropped',
         \A f \in InPlace : Held(job[p], f) /\ job[p].pos = "write" => f \in Spoilt',
         \A x : <<"state", x>> \notin kept',
         \A f \in Store \ Spoilt' : \A x : <<f, x>> \in kept' =>
           <<f, x>> \in kept \/ (In(f, Load(f), x) /\ (Wanted(f, x) \/ Held(job[p], f))),
         j.op = "import" => /\ \A x \in j.items : x \in job[p].items /\ job[p].op = "import"
                            /\ j.items = {} \/ job[p].pos \in {"item", "saved"}
  PROVE  KeptInv'
<1>1. job'[p] = j /\ \A q \in Proc : q # p => job'[q] = job[q]
  BY OneJob DEF BaseInv
<1>2. \A q \in Proc : \A x : Pending(job[q], x)' => Pending(job[q], x)
  BY <1>1 DEF Pending, Begun
<1>3. \A g : Load(g)' = Load(g)
  BY DEF Load
<1>4. \A g \in Store, q \in Proc : Held(job'[q], g) => q # p /\ Held(job[q], g)
  BY <1>1
<1>5. ASSUME NEW g \in Store \ Spoilt', NEW x, <<g, x>> \in kept'
      PROVE  \/ In(g, Load(g), x)'
             \/ g \in InPlace /\ \E q \in Proc : Held(job'[q], g) /\ job'[q].pos = "write"
  <2>1. CASE In(g, Load(g), x)
    BY <1>3, <2>1 DEF In
  <2>2. CASE ~In(g, Load(g), x)
    <3>1. <<g, x>> \in kept /\ g \in Store \ Spoilt
      BY <1>5, <2>2
    <3>2. PICK q \in Proc : g \in InPlace /\ Held(job[q], g) /\ job[q].pos = "write"
      BY <2>2, <3>1 DEF KeptInv
    <3>3. job'[q] = job[q]
      BY <1>1, <1>5, <3>2
    <3> QED
      BY <3>2, <3>3
  <2> QED
    BY <2>1, <2>2
<1>6. ASSUME "rules" \notin Spoilt', NEW q \in Proc, NEW x \in job'[q].items, Pending(job[q], x)'
      PROVE  In("rules", Load("rules"), x)' \/ Held(job'[q], "rules")
  <2>1. "rules" \notin Spoilt
    BY <1>6
  <2>2. Pending(job[q], x)
    BY <1>2, <1>6
  <2>3. CASE q # p
    <3>1. x \in job[q].items /\ job'[q] = job[q]
      BY <1>1, <1>6, <2>3
    <3>2. In("rules", Load("rules"), x) \/ Held(job[q], "rules")
      BY <2>1, <2>2, <3>1 DEF KeptInv
    <3> QED
      BY <1>3, <3>1, <3>2 DEF In
  <2>4. CASE q = p
    <3>1. j.op = "import" /\ j.items # {}
      BY <1>1, <1>6, <2>4 DEF Pending
    <3>2. job[p].op = "import" /\ job[p].pos \in {"item", "saved"}
      BY <3>1
    <3>3. In("rules", Load("rules"), x)
      BY <2>1, <2>2, <2>4, <3>2, Imports
    <3> QED
      BY <1>3, <3>3 DEF In
  <2> QED
    BY <2>3, <2>4
<1>7. ASSUME NEW g \in Store \ Spoilt', NEW q \in Proc, Held(job'[q], g)
      PROVE  /\ \A x : Wanted(g, x)' => In(g, job'[q].copy, x)
             /\ job'[q].op \notin {"evaluate", "delete", "import"} =>
                  \A x \in job'[q].items : In(g, job'[q].copy, x)
  <2>1. q # p /\ Held(job[q], g) /\ job'[q] = job[q] /\ g \in Store \ Spoilt
    BY <1>1, <1>4, <1>7
  <2>2. ~Held(job[p], g)
    BY <2>1 DEF BaseInv, SoloInv
  <2>3. ASSUME NEW x, Wanted(g, x)'
        PROVE  Wanted(g, x)
    <3>1. CASE <<g, x>> \in kept'
      BY <1>7, <2>2, <3>1 DEF Wanted
    <3>2. CASE g = "rules" /\ \E r \in Proc : Pending(job[r], x)'
      BY <1>2, <3>2 DEF Wanted
    <3> QED
      BY <2>3, <3>1, <3>2 DEF Wanted
  <2> QED
    BY <2>1, <2>3 DEF KeptInv
<1> QED
  BY <1>5, <1>6, <1>7 DEF KeptInv

(* A step of an evaluation or of a deletion that works on the counters.        *)
LEMMA KeptState ==
  ASSUME BaseInv, KeptInv, NEW p \in Proc, NEW j, job' = [job EXCEPT ![p] = j],
         j.op = job[p].op, j.op \in {"evaluate", "delete"}, j.file = "state",
         job[p].pos # "write", disk' = disk, Spoilt \subseteq Spoilt', kept' = kept, dropped' = dropped
  PROVE  KeptInv'
<1>1. job'[p] = j /\ \A q \in Proc : q # p => job'[q] = job[q]
  BY OneJob DEF BaseInv
<1>2. \A q \in Proc : \A x : Pending(job[q], x)' <=> Pending(job[q], x)
  BY <1>1 DEF Pending, Begun
<1>3. (\A g, x : Wanted(g, x)' <=> Wanted(g, x)) /\ \A g : Load(g)' = Load(g)
  BY <1>2 DEF Wanted, Load
<1>4. ASSUME NEW g \in Store \ Spoilt', NEW x, <<g, x>> \in kept'
      PROVE  \/ In(g, Load(g), x)'
             \/ g \in InPlace /\ \E q \in Proc : Held(job'[q], g) /\ job'[q].pos = "write"
  <2>1. CASE In(g, Load(g), x)
    BY <1>3, <2>1 DEF In
  <2>2. CASE ~In(g, Load(g), x)
    <3>1. PICK q \in Proc : g \in InPlace /\ Held(job[q], g) /\ job[q].pos = "write"
      BY <1>4, <2>2 DEF KeptInv
    <3>2. job'[q] = job[q]
      BY <1>1, <3>1
    <3> QED
      BY <3>1, <3>2
  <2> QED
    BY <2>1, <2>2
<1>5. ASSUME "rules" \notin Spoilt', NEW q \in Proc, NEW x \in job'[q].items, Pending(job[q], x)'
      PROVE  In("rules", Load("rules"), x)' \/ Held(job'[q], "rules")
  <2>1. q # p /\ "rules" \notin Spoilt
    BY <1>1, <1>5 DEF Pending
  <2>2. Pending(job[q], x) /\ x \in job[q].items /\ job'[q] = job[q]
    BY <1>1, <1>2, <1>5, <2>1
  <2>3. In("rules", Load("rules"), x) \/ Held(job[q], "rules")
    BY <2>1, <2>2 DEF KeptInv
  <2> QED
    BY <1>3, <2>2, <2>3 DEF In
<1>6. ASSUME NEW g \in Store \ Spoilt', NEW q \in Proc, Held(job'[q], g)
      PROVE  /\ \A x : Wanted(g, x)' => In(g, job'[q].copy, x)
             /\ job'[q].op \notin {"evaluate", "delete", "import"} =>
                  \A x \in job'[q].items : In(g, job'[q].copy, x)
  <2>1. CASE q # p
    <3>1. Held(job[q], g) /\ job'[q] = job[q] /\ g \in Store \ Spoilt
      BY <1>1, <1>6, <2>1
    <3> QED
      BY <1>3, <3>1 DEF KeptInv
  <2>2. CASE q = p
    <3>1. g = "state"
      BY <1>1, <1>6, <2>2 DEF Held
    <3>2. \A x : ~Wanted("state", x)
      BY DEF Wanted, KeptInv
    <3> QED
      BY <1>1, <1>3, <2>2, <3>1, <3>2
  <2> QED
    BY <2>1, <2>2
<1> QED
  BY <1>4, <1>5, <1>6 DEF KeptInv

LEMMA KeptBegins ==
  ASSUME BaseInv, KeptInv, NEW p \in Proc, NEW op \in Ops \ {"evaluate", "import"},
         NEW f \in Store, NEW copy, NEW items, Loads(p, op, f, copy, items),
         kept' \subseteq kept, dropped \subseteq dropped',
         \A x : In(f, Load(f), x) =>
           In(f, copy, x) \/ (<<f, x>> \notin kept' /\ (f = "rules" => <<"begun", x>> \in dropped')),
         op # "delete" => \A x \in items : In(f, copy, x)
  PROVE  KeptInv'
<1>1. PICK j : Editing(j, op, f, copy, items) /\ job' = [job EXCEPT ![p] = j]
  BY DEF Loads
<1>2. j.op = op /\ j.file = f /\ j.pos = "open" /\ j.copy = copy /\ j.items = items
  BY <1>1 DEF Editing
<1>3. /\ Spoilt' = Spoilt \cup {g \in {f} : Contended(p, f)} /\ disk' = disk /\ job[p] = NoJob
  BY DEF Loads
<1>4. \A x : In(f, Load(f), x) =>
        In(f, j.copy, x) \/ (<<f, x>> \notin kept' /\ (f = "rules" => <<"begun", x>> \in dropped'))
  BY <1>2
<1>5. /\ \A x \in j.items : x \in job[p].items \/ j.op = "delete" \/ In(f, j.copy, x)
      /\ j.op \notin {"delete", "import"} => \A x \in j.items : In(f, j.copy, x)
  BY <1>2
<1> QED
  BY <1>1, <1>2, <1>3, <1>4, <1>5, KeptLoads

(* Every rule that was there is there after a replacement.                     *)
LEMMA ReplacedKeeps ==
  ASSUME NEW rs, NEW r, NEW d, NEW x, In("rules", rs, x)
  PROVE  In("rules", Replaced(rs, r, d), x)
<1>1. PICK y \in rs : y.id = x
  BY DEF In
<1>2. CASE x = r
  <2>1. [id |-> r, def |-> d] \in Replaced(rs, r, d) /\ [id |-> r, def |-> d].id = x
    BY <1>2 DEF Replaced
  <2> QED
    BY <2>1 DEF In
<1>3. CASE x # r
  BY <1>1, <1>3 DEF In, Replaced
<1> QED
  BY <1>2, <1>3

LEMMA AddedKeeps ==
  ASSUME NEW rs, NEW r, NEW d
  PROVE  /\ \A x : In("rules", rs, x) => In("rules", rs \cup {[id |-> r, def |-> d]}, x)
         /\ In("rules", rs \cup {[id |-> r, def |-> d]}, r)
<1>1. [id |-> r, def |-> d].id = r
  OBVIOUS
<1> QED
  BY <1>1 DEF In

LEMMA KeptBeginsRules ==
  ASSUME BaseInv, KeptInv, NEW p \in Proc, BeginsRules(p)
  PROVE  KeptInv'
<1> USE DEF history
<1>1. ASSUME NEW a \in Alert, EvaluateAll(p, a)
      PROVE  KeptInv'
  <2>1. CASE job' = job
    BY <1>1, <2>1, KeptQuiet DEF EvaluateAll, Spoilt
  <2>2. CASE job' # job
    <3>1. PICK j : /\ job' = [job EXCEPT ![p] = j]
                   /\ j = [Work(p, "evaluate", "state", "load", {}) EXCEPT
                             !.alert = a, !.rules = {r \in Load("rules") : r.def.enabled}]
      BY <1>1, <2>2 DEF EvaluateAll
    <3>2. j.op = "evaluate" /\ j.pos = "load"
      BY <3>1 DEF Work, NoJob
    <3>3. /\ disk' = disk /\ Spoilt' = Spoilt /\ kept' = kept /\ dropped' = dropped
          /\ job[p].op = "idle"
      BY <1>1 DEF EvaluateAll, Ready, Spoilt
    <3>4. job[p].pos = "idle"
      BY <3>3, AtRest, NothingAtRest DEF BaseInv
    <3>5. (\A f \in Store : ~Held(j, f)) /\ \A x : <<"state", x>> \notin kept'
      BY <3>2, <3>3 DEF Held, Holding, KeptInv
    <3> QED
      BY <3>1, <3>2, <3>3, <3>4, <3>5, KeptRests
  <2> QED
    BY <2>1, <2>2
<1>2. ASSUME NEW d \in Def, CreateRule(p, d)
      PROVE  KeptInv'
  <2>1. CASE Turned
    BY <2>1, KeptQuiet DEF Turned
  <2>2. CASE ~Turned
    <3>1. PICK r \in RuleId \ used :
            /\ Loads(p, "create", "rules", Load("rules") \cup {[id |-> r, def |-> d]}, {r})
            /\ UNCHANGED <<kept, dropped>>
      BY <1>2, <2>2, CreateRuleGoes
    <3>2. PICK copy : copy = Load("rules") \cup {[id |-> r, def |-> d]}
      OBVIOUS
    <3>3. (\A x : In("rules", Load("rules"), x) => In("rules", copy, x)) /\ In("rules", copy, r)
      BY <3>2, AddedKeeps
    <3>4. "create" \in Ops \ {"evaluate", "import"} /\ "rules" \in Store
      BY DEF Ops, Store
    <3>5. Loads(p, "create", "rules", copy, {r}) /\ kept' = kept /\ dropped' = dropped
      BY <3>1, <3>2
    <3> QED
      BY <3>3, <3>4, <3>5, KeptBegins
  <2> QED
    BY <2>1, <2>2
<1>3. ASSUME NEW r \in RuleId, NEW d \in Def, UpdateRule(p, r, d)
      PROVE  KeptInv'
  <2>1. CASE Turned
    BY <2>1, KeptQuiet DEF Turned
  <2>2. CASE ~Turned
    <3>1. /\ Loads(p, "update", "rules", Replaced(Load("rules"), r, d), {})
          /\ UNCHANGED <<kept, dropped>>
      BY <1>3, <2>2, UpdateRuleGoes
    <3>2. PICK copy : copy = Replaced(Load("rules"), r, d)
      OBVIOUS
    <3>3. \A x : In("rules", Load("rules"), x) => In("rules", copy, x)
      BY <3>2, ReplacedKeeps
    <3>4. "update" \in Ops \ {"evaluate", "import"} /\ "rules" \in Store
      BY DEF Ops, Store
    <3>5. Loads(p, "update", "rules", copy, {}) /\ kept' = kept /\ dropped' = dropped
      BY <3>1, <3>2
    <3> QED
      BY <3>3, <3>4, <3>5, KeptBegins
  <2> QED
    BY <2>1, <2>2
<1>4. ASSUME NEW r \in RuleId, DeleteRule(p, r)
      PROVE  KeptInv'
  <2>1. CASE Turned
    BY <2>1, KeptQuiet DEF Turned
  <2>2. CASE ~Turned
    <3>1. /\ Loads(p, "delete", "rules", {x \in Load("rules") : x.id # r}, {r})
          /\ dropped' = dropped \cup {<<"begun", r>>} /\ kept' = kept \ {<<"rules", r>>}
      BY <1>4, <2>2, DeleteRuleGoes
    <3>2. PICK copy : copy = {x \in Load("rules") : x.id # r}
      OBVIOUS
    <3>3. \A x : In("rules", Load("rules"), x) =>
            In("rules", copy, x) \/ (<<"rules", x>> \notin kept' /\ <<"begun", x>> \in dropped')
      BY <3>1, <3>2 DEF In
    <3>4. "delete" \in Ops \ {"evaluate", "import"} /\ "rules" \in Store
      BY DEF Ops, Store
    <3>5. Loads(p, "delete", "rules", copy, {r}) /\ kept' \subseteq kept /\ dropped \subseteq dropped'
      BY <3>1, <3>2
    <3> QED
      BY <3>3, <3>4, <3>5, KeptBegins
  <2> QED
    BY <2>1, <2>2
<1>5. ASSUME NEW b \in Batches, NEW over \in BOOLEAN, ImportRules(p, b, over)
      PROVE  KeptInv'
  <2>1. PICK j : /\ job' = [job EXCEPT ![p] = j] /\ job[p] = NoJob
                 /\ j.op = "import" /\ j.pos = "item" /\ j.items = {}
    BY <1>5, ImportRulesGoes
  <2>2. disk' = disk /\ Spoilt' = Spoilt /\ kept' = kept /\ dropped' = dropped
    BY <1>5 DEF ImportRules, Spoilt
  <2>3. /\ \A f \in Store : ~Held(j, f)
        /\ \A x : <<"state", x>> \notin kept'
        /\ job[p].pos # "write"
    BY <2>1, <2>2, NothingAtRest DEF Held, Holding, KeptInv, BaseInv
  <2> QED
    BY <2>1, <2>2, <2>3, KeptRests
<1> QED
  BY <1>1, <1>2, <1>3, <1>4, <1>5 DEF BeginsRules

LEMMA KeptBeginsOthers ==
  ASSUME BaseInv, KeptInv, NEW p \in Proc, BeginsLookup(p) \/ BeginsProviders(p)
  PROVE  KeptInv'
<1>1. "lookup" \in Store /\ "providers" \in Store
  BY DEF Store
<1>2. "upsert" \in Ops \ {"evaluate", "import"} /\ "remove" \in Ops \ {"evaluate", "import"}
      /\ "connect" \in Ops \ {"evaluate", "import"} /\ "disconnect" \in Ops \ {"evaluate", "import"}
  BY DEF Ops
<1>3. ASSUME Turned
      PROVE  KeptInv'
  BY <1>3, KeptQuiet DEF Turned, history
<1>4. ASSUME NEW t \in Table, CreateTable(p, t)
      PROVE  KeptInv'
  <2>1. PICK x : x = [table |-> t, key |-> NoKey]
    OBVIOUS
  <2>2. CASE ~Turned
    <3>1. Loads(p, "upsert", "lookup", Load("lookup") \cup {x}, {x}) /\ UNCHANGED <<kept, dropped>>
      BY <1>4, <2>1, <2>2, CreateTableGoes
    <3>2. PICK copy : copy = Load("lookup") \cup {x}
      OBVIOUS
    <3>3. (\A y : In("lookup", Load("lookup"), y) => In("lookup", copy, y)) /\ In("lookup", copy, x)
      BY <3>2 DEF In
    <3>4. Loads(p, "upsert", "lookup", copy, {x}) /\ kept' = kept /\ dropped' = dropped
      BY <3>1, <3>2
    <3> QED
      BY <1>1, <1>2, <3>3, <3>4, KeptBegins
  <2> QED
    BY <1>3, <2>2
<1>5. ASSUME NEW t \in Table, NEW a \in Alert, UpsertEntry(p, t, a.src)
      PROVE  KeptInv'
  <2>1. PICK x : x = [table |-> t, key |-> a.src]
    OBVIOUS
  <2>2. PICK copy : copy = Load("lookup") \cup {[table |-> t, key |-> NoKey], x}
    OBVIOUS
  <2>3. Loads(p, "upsert", "lookup", copy, {x}) /\ kept' = kept /\ dropped' = dropped
    BY <1>5, <2>1, <2>2, UpsertEntryGoes
  <2>4. (\A y : In("lookup", Load("lookup"), y) => In("lookup", copy, y)) /\ In("lookup", copy, x)
    BY <2>2 DEF In
  <2> QED
    BY <1>1, <1>2, <2>3, <2>4, KeptBegins
<1>6. ASSUME NEW gone, RemoveEntries(p, gone)
      PROVE  KeptInv'
  <2>1. CASE ~Turned
    <3>1. /\ Loads(p, "remove", "lookup", Load("lookup") \ gone, {})
          /\ Withdraw(gone) /\ dropped' = dropped
      BY <1>6, <2>1, RemoveEntriesGoes
    <3>2. PICK copy : copy = Load("lookup") \ gone
      OBVIOUS
    <3>3. Loads(p, "remove", "lookup", copy, {})
      BY <3>1, <3>2
    <3>4. /\ \A y : In("lookup", Load("lookup"), y) => In("lookup", copy, y) \/ <<"lookup", y>> \notin kept'
          /\ kept' \subseteq kept
      BY <3>1, <3>2 DEF In, Withdraw
    <3> QED
      BY <1>1, <1>2, <3>1, <3>3, <3>4, KeptBegins
  <2> QED
    BY <1>3, <2>1
<1>7. ASSUME NEW x \in Provider, AddProvider(p, x)
      PROVE  KeptInv'
  <2>1. PICK copy : copy = Load("providers") \cup {x}
    OBVIOUS
  <2>2. Loads(p, "connect", "providers", copy, {x}) /\ kept' = kept /\ dropped' = dropped
    BY <1>7, <2>1, AddProviderGoes
  <2>3. (\A y : In("providers", Load("providers"), y) => In("providers", copy, y)) /\ In("providers", copy, x)
    BY <2>1 DEF In
  <2> QED
    BY <1>1, <1>2, <2>2, <2>3, KeptBegins
<1>8. ASSUME NEW x \in Provider, RemoveProvider(p, x)
      PROVE  KeptInv'
  <2>1. CASE ~Turned
    <3>1. /\ Loads(p, "disconnect", "providers", Load("providers") \ {x}, {})
          /\ kept' = kept \ {<<"providers", x>>} /\ dropped' = dropped
      BY <1>8, <2>1, RemoveProviderGoes
    <3>2. PICK copy : copy = Load("providers") \ {x}
      OBVIOUS
    <3>3. Loads(p, "disconnect", "providers", copy, {})
      BY <3>1, <3>2
    <3>4. /\ \A y : In("providers", Load("providers"), y) =>
                      In("providers", copy, y) \/ <<"providers", y>> \notin kept'
          /\ kept' \subseteq kept
      BY <3>1, <3>2 DEF In
    <3> QED
      BY <1>1, <1>2, <3>1, <3>3, <3>4, KeptBegins
  <2> QED
    BY <1>3, <2>1
<1> QED
  BY <1>4, <1>5, <1>6, <1>7, <1>8 DEF BeginsLookup, BeginsProviders, DeleteTable, DeleteEntry

LEMMA KeptEnds ==
  ASSUME BaseInv, KeptInv, NEW p \in Proc,
         Evaluated(p) \/ Failed(p) \/ RuleDeleted(p) \/ Answered(p) \/ ImportStops(p)
           \/ Imported(p) \/ Crash(p)
  PROVE  KeptInv'
<1>1. /\ job' = [job EXCEPT ![p] = NoJob] /\ disk' = disk
      /\ Spoilt \subseteq Spoilt' /\ dropped \subseteq dropped'
  BY DEF Evaluated, Failed, RuleDeleted, Answered, ImportStops, Imported, Crash, history, Spoilt
<1>2. (\A f \in Store : ~Held(NoJob, f)) /\ NoJob.op = "idle"
  BY NothingAtRest DEF BaseInv
<1>3. job[p] \in Jobs /\ Own(job[p], used)
  BY JobOf DEF BaseInv
<1>4. \A f \in InPlace : Held(job[p], f) /\ job[p].pos = "write" => f \in Spoilt'
  <2>1. CASE job[p].pos # "write"
    BY <2>1
  <2>2. CASE job[p].pos = "write" /\ Crash(p)
    BY <2>2 DEF Crash, Held, Holds, Spoilt
  <2> QED
    BY <2>1, <2>2 DEF Evaluated, Failed, RuleDeleted, Answered, ImportStops, Imported
<1>5. /\ \A x : <<"state", x>> \notin kept'
      /\ \A f \in Store \ Spoilt' : \A x : <<f, x>> \in kept' =>
           <<f, x>> \in kept \/ (In(f, Load(f), x) /\ (Wanted(f, x) \/ Held(job[p], f)))
  <2>1. CASE Answered(p)
    <3>1. /\ kept' = kept \cup {<<job[p].file, x>> : x \in job[p].items}
          /\ job[p].op \in {"create", "update", "upsert", "remove", "connect", "disconnect"}
          /\ job[p].pos = "saved"
      BY <2>1 DEF Answered
    <3>2. job[p].file \in Store /\ job[p].file # "state"
      BY <1>3, <3>1 DEF Own, Jobs
    <3>3. ASSUME NEW f \in Store \ Spoilt', NEW x, <<f, x>> \in kept', <<f, x>> \notin kept
          PROVE  In(f, Load(f), x) /\ Held(job[p], f)
      <4>1. f = job[p].file /\ x \in job[p].items
        BY <3>1, <3>3
      <4>2. Held(job[p], f) /\ f \in Store \ Spoilt
        BY <1>1, <3>1, <3>2, <4>1 DEF Held, Holding
      <4>3. disk[f] = job[p].copy
        BY <3>1, <4>2 DEF BaseInv, SoloInv
      <4>4. In(f, job[p].copy, x)
        BY <3>1, <4>1, <4>2 DEF KeptInv
      <4>5. job[p].copy # Torn
        BY <1>3, <4>1, DiskAssumption DEF Own
      <4> QED
        BY <4>2, <4>3, <4>4, <4>5 DEF Load
    <3>4. \A x : <<"state", x>> \notin kept'
      BY <3>1, <3>2 DEF KeptInv
    <3> QED
      BY <3>3, <3>4
  <2>2. CASE Imported(p)
    <3>1. /\ kept' = kept \cup {<<"rules", r>> : r \in {s \in job[p].items : <<"begun", s>> \notin dropped}}
          /\ job[p].op = "import" /\ job[p].pos \in {"item", "saved"}
      BY <2>2 DEF Imported
    <3>2. ASSUME NEW f \in Store \ Spoilt', NEW x, <<f, x>> \in kept', <<f, x>> \notin kept
          PROVE  In(f, Load(f), x) /\ Wanted(f, x)
      <4>1. f = "rules" /\ x \in job[p].items /\ <<"begun", x>> \notin dropped /\ "rules" \notin Spoilt
        BY <1>1, <3>1, <3>2
      <4>2. Pending(job[p], x)
        BY <3>1, <4>1 DEF Pending, Begun
      <4>3. In("rules", Load("rules"), x)
        BY <3>1, <4>1, <4>2, Imports
      <4> QED
        BY <4>1, <4>2, <4>3 DEF Wanted
    <3>3. \A x : <<"state", x>> \notin kept'
      BY <3>1 DEF KeptInv
    <3> QED
      BY <3>2, <3>3
  <2>3. CASE kept' = kept
    BY <2>3 DEF KeptInv
  <2> QED
    BY <2>1, <2>2, <2>3 DEF Evaluated, Failed, RuleDeleted, ImportStops, Crash, history
<1> QED
  BY <1>1, <1>2, <1>4, <1>5, KeptRests

LEMMA KeptNext ==
  ASSUME BaseInv, KeptInv, [RulesNext]_ruleVars
  PROVE  KeptInv'
<1>1. CASE UNCHANGED ruleVars
  BY <1>1, KeptQuiet DEF ruleVars, Spoilt
<1>2. CASE Tick
  BY <1>2, KeptQuiet DEF Tick, history, Spoilt
<1>3. ASSUME NEW p \in Proc, Begins(p) \/ Crash(p)
      PROVE  KeptInv'
  BY <1>3, KeptBeginsRules, KeptBeginsOthers, KeptEnds DEF Begins
<1>4. ASSUME NEW p \in Proc, LoadState(p)
      PROVE  KeptInv'
  <2>1. PICK j : j = [job[p] EXCEPT !.pos = "match", !.copy = Load("state"), !.at = now,
                                    !.num = loads + 1]
    OBVIOUS
  <2>2. /\ job' = [job EXCEPT ![p] = j] /\ job[p].op = "evaluate" /\ job[p].pos = "load"
        /\ Spoilt \subseteq Spoilt' /\ disk' = disk /\ kept' = kept /\ dropped' = dropped
    BY <1>4, <2>1 DEF LoadState, NoteRace, history, Spoilt
  <2>3. j.op = job[p].op /\ j.file = job[p].file /\ job[p].file = "state"
    BY <2>1, <2>2, JobOf DEF BaseInv, Jobs, Own
  <2> QED
    BY <2>2, <2>3, KeptState
<1>5. ASSUME NEW p \in Proc, ApplyRules(p)
      PROVE  KeptInv'
  <2>1. PICK j \in Jobs, rs \in SUBSET job[p].rules :
           /\ job' = [job EXCEPT ![p] = j]
           /\ job[p].op = "evaluate" /\ job[p].pos = "match"
           /\ j.op = "evaluate" /\ j.file = job[p].file
           /\ UNCHANGED <<disk, Spoilt, kept, dropped>>
    BY <1>5, AfterApply
  <2>2. job[p].file = "state"
    BY <2>1, JobOf DEF BaseInv, Own
  <2> QED
    BY <2>1, <2>2, KeptState
<1>6. ASSUME NEW p \in Proc, DropCounters(p)
      PROVE  KeptInv'
  <2>1. PICK j : /\ job' = [job EXCEPT ![p] = j]
                 /\ job[p].op = "delete" /\ job[p].pos = "saved"
                 /\ j.op = "delete" /\ j.file = "state"
    BY <1>6, DropCountersGoes
  <2>2. disk' = disk /\ Spoilt \subseteq Spoilt' /\ kept' = kept /\ dropped' = dropped
    BY <1>6, DropCountersGoes DEF history
  <2> QED
    BY <2>1, <2>2, KeptState
<1>7. ASSUME NEW p \in Proc, PassOver(p)
      PROVE  KeptInv'
  <2>1. PICK j : /\ job' = [job EXCEPT ![p] = j]
                 /\ job[p].op = "import" /\ job[p].pos \in {"item", "saved"}
                 /\ j.op = "import" /\ j.pos = "item" /\ j.items = job[p].items
    BY <1>7, PassOverGoes
  <2>2. disk' = disk /\ Spoilt' = Spoilt /\ kept' = kept /\ dropped' = dropped
    BY <1>7 DEF PassOver, history, Spoilt
  <2>3. /\ \A f \in Store : ~Held(j, f)
        /\ \A x : <<"state", x>> \notin kept'
    BY <2>1, <2>2 DEF Held, Holding, KeptInv
  <2> QED
    BY <2>1, <2>2, <2>3, KeptRests
<1>8. ASSUME NEW p \in Proc, ImportOne(p)
      PROVE  KeptInv'
  <2>1. PICK d \in Def : \E k :
              /\ job' = [job EXCEPT ![p] = k]
              /\ job[p].op = "import" /\ job[p].pos \in {"item", "saved"} /\ job[p].file = "rules"
              /\ k.op = "import" /\ k.pos = "open" /\ k.file = "rules" /\ k.num = job[p].num
              /\ \/ \E r \in RuleId \ used :
                      /\ used' = used \cup {r} /\ k.items = job[p].items \cup {r}
                      /\ k.copy = Load("rules") \cup {[id |-> r, def |-> d]}
                 \/ \E r \in RuleId :
                      /\ \E x \in Load("rules") : x.id = r
                      /\ used' = used /\ k.items = job[p].items
                      /\ k.copy = Replaced(Load("rules"), r, d)
    BY <1>8, ImportOneGoes
  <2>2. PICK j :
              /\ job' = [job EXCEPT ![p] = j]
              /\ job[p].op = "import" /\ job[p].pos \in {"item", "saved"}
              /\ j.op = "import" /\ j.pos = "open" /\ j.file = "rules"
              /\ \/ \E r \in RuleId :
                      /\ j.items = job[p].items \cup {r}
                      /\ j.copy = Load("rules") \cup {[id |-> r, def |-> d]}
                 \/ \E r \in RuleId :
                      j.items = job[p].items /\ j.copy = Replaced(Load("rules"), r, d)
    BY <2>1
  <2>3. /\ Spoilt' = Spoilt \cup {g \in {"rules"} : Contended(p, "rules")}
        /\ disk' = disk /\ kept' = kept /\ dropped' = dropped
    BY <1>8, ImportOneGoes DEF history
  <2>4. /\ \A x : In("rules", Load("rules"), x) => In("rules", j.copy, x)
        /\ \A x \in j.items : x \in job[p].items \/ In("rules", j.copy, x)
    <3>1. CASE \E r \in RuleId : /\ j.items = job[p].items \cup {r}
                                 /\ j.copy = Load("rules") \cup {[id |-> r, def |-> d]}
      <4>1. PICK r \in RuleId : /\ j.items = job[p].items \cup {r}
                                /\ j.copy = Load("rules") \cup {[id |-> r, def |-> d]}
        BY <3>1
      <4>2. /\ \A x : In("rules", Load("rules"), x) =>
                  In("rules", Load("rules") \cup {[id |-> r, def |-> d]}, x)
            /\ In("rules", Load("rules") \cup {[id |-> r, def |-> d]}, r)
        BY AddedKeeps
      <4> QED
        BY <4>1, <4>2
    <3>2. CASE \E r \in RuleId : j.items = job[p].items /\ j.copy = Replaced(Load("rules"), r, d)
      BY <3>2, ReplacedKeeps
    <3> QED
      BY <2>2, <3>1, <3>2
  <2>5. "rules" \in Store
    BY DEF Store
  <2> QED
    BY <2>2, <2>3, <2>4, <2>5, KeptLoads
<1>9. ASSUME NEW p \in Proc, Saves(p)
      PROVE  KeptInv'
  BY <1>9, SavesGoes, KeptSaves
<1> QED
  BY <1>1, <1>2, <1>3, <1>4, <1>5, <1>6, <1>7, <1>8, <1>9, KeptEnds DEF RulesNext, GoesOn

-----------------------------------------------------------------------------
(* What was deleted stays deleted.                                             *)
LEMMA GoneQuiet ==
  ASSUME GoneInv, UNCHANGED <<disk, job, Spoilt, used, dropped>>
  PROVE  GoneInv'
BY DEF GoneInv, Gone, Leaving, Begun, Load

LEMMA GoneUsed ==
  ASSUME BaseInv, GoneInv, NEW r \in RuleId, Gone(r)
  PROVE  r \in used
<1>1. ASSUME NEW p \in Proc, Leaving(job[p], r)
      PROVE  r \in used
  BY <1>1, JobOf DEF BaseInv, Own, Leaving
<1> QED
  BY <1>1 DEF Gone, GoneInv

LEMMA GoneLoads ==
  ASSUME BaseInv, GoneInv, NEW p \in Proc, NEW f \in Store, NEW j,
         job' = [job EXCEPT ![p] = j], j.file = f, j.pos = "open", job[p].op # "delete",
         j.op = "delete" => f = "rules",
         Spoilt' = Spoilt \cup {g \in {f} : Contended(p, f)}, disk' = disk,
         used \subseteq used', dropped \subseteq dropped',
         \A r \in RuleId : <<"done", r>> \in dropped' => <<"done", r>> \in dropped,
         f = "rules" => \A r \in RuleId : In("rules", j.copy, r) =>
                          In("rules", Load("rules"), r) \/ r \notin used,
         j.op = "delete" => \A r \in j.items : <<"begun", r>> \in dropped' /\ ~In("rules", j.copy, r)
  PROVE  GoneInv'
<1>1. job'[p] = j /\ \A q \in Proc : q # p => job'[q] = job[q]
  BY OneJob DEF BaseInv
<1>2. Load("rules")' = Load("rules")
  BY DEF Load
<1>3. \A r \in RuleId : Gone(r)' => Gone(r)
  BY <1>1 DEF Gone, Leaving
<1>4. \A r \in RuleId : <<"done", r>> \in dropped' => r \in used'
  BY DEF GoneInv
<1>5. ASSUME NEW q \in Proc, job'[q].op = "delete", NEW r \in job'[q].items
      PROVE  <<"begun", r>> \in dropped' /\ (job'[q].file = "rules" => ~In("rules", job'[q].copy, r))
  BY <1>1, <1>5 DEF GoneInv, Begun
<1>6. ASSUME "rules" \notin Spoilt', NEW r \in RuleId, Gone(r)'
      PROVE  /\ ~In("rules", Load("rules"), r)'
             /\ \A q \in Proc : Held(job'[q], "rules") => ~In("rules", job'[q].copy, r)
  <2>1. Gone(r) /\ "rules" \notin Spoilt /\ r \in used
    BY <1>3, <1>6, GoneUsed
  <2>2. /\ ~In("rules", Load("rules"), r)
        /\ \A q \in Proc : Held(job[q], "rules") => ~In("rules", job[q].copy, r)
    BY <2>1 DEF GoneInv
  <2>3. Held(j, "rules") => ~In("rules", j.copy, r)
    BY <2>1, <2>2 DEF Held
  <2> QED
    BY <1>1, <1>2, <2>2, <2>3 DEF In
<1> QED
  BY <1>4, <1>5, <1>6 DEF GoneInv, Begun

(* A step that leaves p without the rules and without a deletion.              *)
LEMMA GoneRests ==
  ASSUME BaseInv, GoneInv, NEW p \in Proc, NEW j, job' = [job EXCEPT ![p] = j],
         ~Held(j, "rules"), j.op # "delete", disk' = disk, Spoilt \subseteq Spoilt',
         used' = used, dropped \subseteq dropped',
         \A r \in RuleId : <<"done", r>> \in dropped' => <<"done", r>> \in dropped \/ Leaving(job[p], r)
  PROVE  GoneInv'
<1>1. job'[p] = j /\ \A q \in Proc : q # p => job'[q] = job[q]
  BY OneJob DEF BaseInv
<1>2. Load("rules")' = Load("rules")
  BY DEF Load
<1>3. \A r \in RuleId : Gone(r)' => Gone(r)
  BY <1>1 DEF Gone, Leaving
<1>4. \A r \in RuleId : <<"done", r>> \in dropped' => r \in used'
  BY <1>3, GoneUsed DEF Gone
<1>5. ASSUME NEW q \in Proc, job'[q].op = "delete", NEW r \in job'[q].items
      PROVE  <<"begun", r>> \in dropped' /\ (job'[q].file = "rules" => ~In("rules", job'[q].copy, r))
  BY <1>1, <1>5 DEF GoneInv, Begun
<1>6. ASSUME "rules" \notin Spoilt', NEW r \in RuleId, Gone(r)'
      PROVE  /\ ~In("rules", Load("rules"), r)'
             /\ \A q \in Proc : Held(job'[q], "rules") => ~In("rules", job'[q].copy, r)
  <2>1. Gone(r) /\ "rules" \notin Spoilt
    BY <1>3, <1>6
  <2>2. /\ ~In("rules", Load("rules"), r)
        /\ \A q \in Proc : Held(job[q], "rules") => ~In("rules", job[q].copy, r)
    BY <2>1 DEF GoneInv
  <2> QED
    BY <1>1, <1>2, <2>2 DEF In
<1> QED
  BY <1>4, <1>5, <1>6 DEF GoneInv, Begun

LEMMA GoneDrops ==
  ASSUME BaseInv, GoneInv, NEW p \in Proc, DropCounters(p)
  PROVE  GoneInv'
<1>1. PICK j : /\ job' = [job EXCEPT ![p] = j]
               /\ job[p].op = "delete" /\ job[p].file = "rules" /\ job[p].pos = "saved"
               /\ j.op = "delete" /\ j.file = "state" /\ j.items = job[p].items
  BY DropCountersGoes
<1>2. /\ disk' = disk /\ used' = used /\ dropped' = dropped /\ Spoilt \subseteq Spoilt'
  BY DropCountersGoes DEF history
<1>3. job'[p] = j /\ \A q \in Proc : q # p => job'[q] = job[q]
  BY <1>1, OneJob DEF BaseInv
<1>4. \A r : Gone(r)' <=> Gone(r)
  <2>1. \A r : Leaving(j, r) <=> Leaving(job[p], r)
    BY <1>1 DEF Leaving
  <2>2. \A q \in Proc : \A r : Leaving(job'[q], r) <=> Leaving(job[q], r)
    BY <1>3, <2>1
  <2> QED
    BY <1>2, <2>2 DEF Gone
<1>5. Load("rules")' = Load("rules")
  BY <1>2 DEF Load
<1>6. \A r \in RuleId : <<"done", r>> \in dropped' => r \in used'
  BY <1>2 DEF GoneInv
<1>7. ASSUME NEW q \in Proc, job'[q].op = "delete", NEW r \in job'[q].items
      PROVE  <<"begun", r>> \in dropped' /\ (job'[q].file = "rules" => ~In("rules", job'[q].copy, r))
  BY <1>1, <1>2, <1>3, <1>7 DEF GoneInv, Begun
<1>8. ASSUME "rules" \notin Spoilt', NEW r \in RuleId, Gone(r)'
      PROVE  /\ ~In("rules", Load("rules"), r)'
             /\ \A q \in Proc : Held(job'[q], "rules") => ~In("rules", job'[q].copy, r)
  <2>1. Gone(r) /\ "rules" \notin Spoilt
    BY <1>2, <1>4, <1>8
  <2>2. /\ ~In("rules", Load("rules"), r)
        /\ \A q \in Proc : Held(job[q], "rules") => ~In("rules", job[q].copy, r)
    BY <2>1 DEF GoneInv
  <2>3. ~Held(j, "rules")
    BY <1>1 DEF Held
  <2> QED
    BY <1>3, <1>5, <2>2, <2>3 DEF In
<1> QED
  BY <1>6, <1>7, <1>8 DEF GoneInv, Begun

LEMMA GoneSaves ==
  ASSUME BaseInv, GoneInv, NEW p \in Proc, SaveEffect(p)
  PROVE  GoneInv'
<1>1. PICK f \in Store : f = job[p].file
  BY DEF SaveEffect
<1>2. /\ \A q \in Proc : Same(job'[q], job[q]) /\ (q # p => job'[q].pos = job[q].pos)
      /\ job[p].pos \in {"open", "write", "replace"}
      /\ \A g \in Store : g # f => disk'[g] = disk[g]
      /\ Spoilt' = Spoilt /\ dropped' = dropped /\ used' = used
  BY <1>1 DEF SaveEffect, history
<1>3. f \notin Spoilt =>
       \/ disk'[f] = disk[f] /\ job'[p].pos \in {"write", "replace"}
       \/ disk'[f] = Torn /\ job'[p].pos = "write" /\ f \in InPlace
       \/ disk'[f] = job[p].copy /\ job'[p].pos = "saved"
  BY <1>1 DEF SaveEffect
<1>4. Held(job[p], f) /\ \A q \in Proc, g \in Store : Held(job'[q], g) => Held(job[q], g)
  BY <1>1, <1>2 DEF Held, Holding, Same
<1>5. job[p].copy # Torn
  BY <1>1, JobOf, DiskAssumption DEF Own, BaseInv
<1>6. "rules" \in Store
  BY DEF Store
<1>7. \A r \in RuleId : Gone(r)' => Gone(r) \/ (f = "rules" /\ job'[p].pos = "saved"
                                                /\ job[p].op = "delete" /\ r \in job[p].items)
  <2>1. \A q \in Proc : \A r : q # p => (Leaving(job'[q], r) <=> Leaving(job[q], r))
    BY <1>2 DEF Leaving, Same
  <2>2. \A r : Leaving(job'[p], r) => Leaving(job[p], r) \/ (f = "rules" /\ job'[p].pos = "saved"
                                                /\ job[p].op = "delete" /\ r \in job[p].items)
    <3>1. f \in {"rules", "state"} \/ job[p].op # "delete"
      BY <1>1, JobOf DEF Own, BaseInv
    <3> QED
      BY <1>1, <1>2, <3>1 DEF Leaving, Same
  <2> QED
    BY <1>2, <2>1, <2>2 DEF Gone
<1>8. \A r \in RuleId : <<"done", r>> \in dropped' => r \in used'
  BY <1>2 DEF GoneInv
<1>9. ASSUME NEW q \in Proc, job'[q].op = "delete", NEW r \in job'[q].items
      PROVE  <<"begun", r>> \in dropped' /\ (job'[q].file = "rules" => ~In("rules", job'[q].copy, r))
  BY <1>2, <1>9 DEF GoneInv, Begun, Same
<1>10. ASSUME "rules" \notin Spoilt', NEW r \in RuleId, Gone(r)'
       PROVE  /\ ~In("rules", Load("rules"), r)'
              /\ \A q \in Proc : Held(job'[q], "rules") => ~In("rules", job'[q].copy, r)
  <2>1. CASE Gone(r)
    <3>1. /\ ~In("rules", Load("rules"), r)
          /\ \A q \in Proc : Held(job[q], "rules") => ~In("rules", job[q].copy, r)
      BY <1>2, <1>10, <2>1 DEF GoneInv
    <3>2. \A q \in Proc : Held(job'[q], "rules") => ~In("rules", job'[q].copy, r)
      BY <1>2, <1>4, <1>6, <3>1 DEF Same
    <3>3. Load("rules")' \in {Load("rules"), {}} \/ (f = "rules" /\ Load("rules")' = job[p].copy)
      BY <1>2, <1>3, <1>5, <1>6, <1>10 DEF Load
    <3>4. ~In("rules", {}, r)
      BY DEF In
    <3> QED
      BY <1>4, <3>1, <3>2, <3>3, <3>4 DEF In
  <2>2. CASE f = "rules" /\ job'[p].pos = "saved" /\ job[p].op = "delete" /\ r \in job[p].items
    <3>1. ~In("rules", job[p].copy, r)
      BY <1>1, <2>2 DEF GoneInv
    <3>2. Load("rules")' = job[p].copy
      BY <1>2, <1>3, <1>5, <1>10, <2>2 DEF Load
    <3>3. \A q \in Proc : Held(job'[q], "rules") => q = p
      BY <1>2, <1>4, <1>6, <1>10, <2>2 DEF BaseInv, SoloInv
    <3>4. job'[p].copy = job[p].copy
      BY <1>2 DEF Same
    <3> QED
      BY <3>1, <3>2, <3>3, <3>4 DEF In
  <2> QED
    BY <1>7, <1>10, <2>1, <2>2
<1> QED
  BY <1>8, <1>9, <1>10 DEF GoneInv, Begun

LEMMA GoneBegins ==
  ASSUME BaseInv, GoneInv, NEW p \in Proc, NEW op, NEW f \in Store, NEW copy, NEW items,
         Loads(p, op, f, copy, items), op = "delete" => f = "rules",
         used \subseteq used', dropped \subseteq dropped',
         \A r \in RuleId : <<"done", r>> \in dropped' => <<"done", r>> \in dropped,
         f = "rules" => \A r \in RuleId : In("rules", copy, r) =>
                          In("rules", Load("rules"), r) \/ r \notin used,
         op = "delete" => \A r \in items : <<"begun", r>> \in dropped' /\ ~In("rules", copy, r)
  PROVE  GoneInv'
<1>1. PICK j : Editing(j, op, f, copy, items) /\ job' = [job EXCEPT ![p] = j]
  BY DEF Loads
<1>2. j.op = op /\ j.file = f /\ j.pos = "open" /\ j.copy = copy /\ j.items = items
  BY <1>1 DEF Editing
<1>3. /\ Spoilt' = Spoilt \cup {g \in {f} : Contended(p, f)} /\ disk' = disk
      /\ job[p].op # "delete"
  BY NothingAtRest DEF Loads, BaseInv
<1> QED
  BY <1>1, <1>2, <1>3, GoneLoads

LEMMA AddsOne ==
  ASSUME NEW rs, NEW r, NEW d, NEW x, In("rules", rs \cup {[id |-> r, def |-> d]}, x)
  PROVE  In("rules", rs, x) \/ x = r
BY DEF In

LEMMA ReplacesOne ==
  ASSUME NEW rs, NEW r, NEW d, NEW x, In("rules", Replaced(rs, r, d), x), \E y \in rs : y.id = r
  PROVE  In("rules", rs, x)
BY DEF In, Replaced

LEMMA GoneBeginsRules ==
  ASSUME BaseInv, GoneInv, NEW p \in Proc, BeginsRules(p)
  PROVE  GoneInv'
<1>1. "rules" \in Store
  BY DEF Store
<1>2. ASSUME Turned
      PROVE  GoneInv'
  BY <1>2, GoneQuiet DEF Turned, history
<1>3. ASSUME NEW a \in Alert, EvaluateAll(p, a)
      PROVE  GoneInv'
  <2>1. disk' = disk /\ Spoilt' = Spoilt /\ used' = used /\ dropped' = dropped
    BY <1>3 DEF EvaluateAll, history, Spoilt
  <2>2. CASE job' = job
    BY <2>1, <2>2, GoneQuiet
  <2>3. CASE job' # job
    <3>1. PICK j : /\ job' = [job EXCEPT ![p] = j]
                   /\ j = [Work(p, "evaluate", "state", "load", {}) EXCEPT
                             !.alert = a, !.rules = {r \in Load("rules") : r.def.enabled}]
      BY <1>3, <2>3 DEF EvaluateAll
    <3>2. j.op = "evaluate" /\ j.pos = "load"
      BY <3>1 DEF Work, NoJob
    <3>3. ~Held(j, "rules")
      BY <3>2 DEF Held, Holding
    <3> QED
      BY <2>1, <3>1, <3>2, <3>3, GoneRests
  <2> QED
    BY <2>2, <2>3
<1>4. ASSUME NEW d \in Def, CreateRule(p, d)
      PROVE  GoneInv'
  <2>1. CASE ~Turned
    <3>1. PICK r \in RuleId \ used :
            /\ Loads(p, "create", "rules", Load("rules") \cup {[id |-> r, def |-> d]}, {r})
            /\ used' = used \cup {r} /\ UNCHANGED <<kept, dropped>>
      BY <1>4, <2>1, CreateRuleGoes
    <3>2. PICK copy : copy = Load("rules") \cup {[id |-> r, def |-> d]}
      OBVIOUS
    <3>3. \A x : In("rules", copy, x) => In("rules", Load("rules"), x) \/ x \notin used
      BY <3>1, <3>2, AddsOne
    <3>4. Loads(p, "create", "rules", copy, {r}) /\ used \subseteq used' /\ dropped' = dropped
      BY <3>1, <3>2
    <3> QED
      BY <1>1, <3>3, <3>4, GoneBegins
  <2> QED
    BY <1>2, <2>1
<1>5. ASSUME NEW r \in RuleId, NEW d \in Def, UpdateRule(p, r, d)
      PROVE  GoneInv'
  <2>1. CASE ~Turned
    <3>1. /\ Loads(p, "update", "rules", Replaced(Load("rules"), r, d), {})
          /\ \E x \in Load("rules") : x.id = r
          /\ UNCHANGED <<used, dropped>>
      BY <1>5, <2>1, UpdateRuleGoes
    <3>2. PICK copy : copy = Replaced(Load("rules"), r, d)
      OBVIOUS
    <3>3. \A x : In("rules", copy, x) => In("rules", Load("rules"), x)
      BY <3>1, <3>2, ReplacesOne
    <3>4. Loads(p, "update", "rules", copy, {}) /\ used \subseteq used' /\ dropped' = dropped
      BY <3>1, <3>2
    <3> QED
      BY <1>1, <3>3, <3>4, GoneBegins
  <2> QED
    BY <1>2, <2>1
<1>6. ASSUME NEW r \in RuleId, DeleteRule(p, r)
      PROVE  GoneInv'
  <2>1. CASE ~Turned
    <3>1. /\ Loads(p, "delete", "rules", {x \in Load("rules") : x.id # r}, {r})
          /\ dropped' = dropped \cup {<<"begun", r>>} /\ UNCHANGED used
      BY <1>6, <2>1, DeleteRuleGoes
    <3>2. PICK copy : copy = {x \in Load("rules") : x.id # r}
      OBVIOUS
    <3>3. (\A x : In("rules", copy, x) => In("rules", Load("rules"), x)) /\ ~In("rules", copy, r)
      BY <3>2 DEF In
    <3>4. /\ Loads(p, "delete", "rules", copy, {r}) /\ used \subseteq used' /\ dropped \subseteq dropped'
          /\ <<"begun", r>> \in dropped'
          /\ \A x \in RuleId : <<"done", x>> \in dropped' => <<"done", x>> \in dropped
      BY <3>1, <3>2
    <3> QED
      BY <1>1, <3>3, <3>4, GoneBegins
  <2> QED
    BY <1>2, <2>1
<1>7. ASSUME NEW b \in Batches, NEW over \in BOOLEAN, ImportRules(p, b, over)
      PROVE  GoneInv'
  <2>1. PICK j : /\ job' = [job EXCEPT ![p] = j] /\ j.op = "import" /\ j.pos = "item"
    BY <1>7, ImportRulesGoes
  <2>2. disk' = disk /\ Spoilt' = Spoilt /\ used' = used /\ dropped' = dropped
    BY <1>7 DEF ImportRules, history, Spoilt
  <2>3. ~Held(j, "rules")
    BY <2>1 DEF Held, Holding
  <2> QED
    BY <2>1, <2>2, <2>3, GoneRests
<1> QED
  BY <1>3, <1>4, <1>5, <1>6, <1>7 DEF BeginsRules

LEMMA GoneBeginsOthers ==
  ASSUME BaseInv, GoneInv, NEW p \in Proc, BeginsLookup(p) \/ BeginsProviders(p)
  PROVE  GoneInv'
<1>1. Turned \/ \E op \in {"upsert", "remove", "connect", "disconnect"},
                   f \in {"lookup", "providers"} : \E copy, items :
                  Loads(p, op, f, copy, items) /\ used \subseteq used' /\ dropped' = dropped
  <2>1. CASE BeginsLookup(p)
    BY <2>1, CreateTableGoes, UpsertEntryGoes, RemoveEntriesGoes
       DEF BeginsLookup, DeleteTable, DeleteEntry
  <2>2. CASE BeginsProviders(p)
    BY <2>2, AddProviderGoes, RemoveProviderGoes DEF BeginsProviders
  <2> QED
    BY <2>1, <2>2
<1>2. CASE Turned
  BY <1>2, GoneQuiet DEF Turned, history
<1>3. CASE ~Turned
  <2>1. PICK op \in {"upsert", "remove", "connect", "disconnect"}, f \in {"lookup", "providers"} :
          \E copy, items : Loads(p, op, f, copy, items) /\ used \subseteq used' /\ dropped' = dropped
    BY <1>1, <1>3
  <2>2. PICK copy, items : Loads(p, op, f, copy, items) /\ used \subseteq used' /\ dropped' = dropped
    BY <2>1
  <2>3. f \in Store /\ f # "rules" /\ op # "delete"
    BY DEF Store
  <2> QED
    BY <2>2, <2>3, GoneBegins
<1> QED
  BY <1>2, <1>3

LEMMA GoneNext ==
  ASSUME BaseInv, GoneInv, [RulesNext]_ruleVars
  PROVE  GoneInv'
<1>1. CASE UNCHANGED ruleVars
  BY <1>1, GoneQuiet DEF ruleVars, Spoilt
<1>2. CASE Tick
  BY <1>2, GoneQuiet DEF Tick, history, Spoilt
<1>3. ASSUME NEW p \in Proc, Begins(p)
      PROVE  GoneInv'
  BY <1>3, GoneBeginsRules, GoneBeginsOthers DEF Begins
<1>4. ASSUME NEW p \in Proc, Evaluated(p) \/ Failed(p) \/ RuleDeleted(p) \/ Answered(p)
                               \/ ImportStops(p) \/ Imported(p) \/ Crash(p)
      PROVE  GoneInv'
  <2>1. /\ job' = [job EXCEPT ![p] = NoJob] /\ disk' = disk /\ used' = used
        /\ Spoilt \subseteq Spoilt' /\ dropped \subseteq dropped'
    BY <1>4 DEF Evaluated, Failed, RuleDeleted, Answered, ImportStops, Imported, Crash, history, Spoilt
  <2>2. ~Held(NoJob, "rules") /\ NoJob.op # "delete"
    BY NothingAtRest DEF BaseInv
  <2>3. \A r \in RuleId : <<"done", r>> \in dropped' => <<"done", r>> \in dropped \/ Leaving(job[p], r)
    BY <1>4 DEF Evaluated, Failed, RuleDeleted, Answered, ImportStops, Imported, Crash, history, Leaving
  <2> QED
    BY <2>1, <2>2, <2>3, GoneRests
<1>5. ASSUME NEW p \in Proc, LoadState(p)
      PROVE  GoneInv'
  <2>1. PICK j : j = [job[p] EXCEPT !.pos = "match", !.copy = Load("state"), !.at = now,
                                    !.num = loads + 1]
    OBVIOUS
  <2>2. /\ job' = [job EXCEPT ![p] = j] /\ job[p].op = "evaluate"
        /\ Spoilt \subseteq Spoilt' /\ disk' = disk /\ used' = used /\ dropped' = dropped
    BY <1>5, <2>1 DEF LoadState, NoteRace, history, Spoilt
  <2>3. job[p].file = "state" /\ j.op = "evaluate" /\ j.file = job[p].file
    BY <2>1, <2>2, JobOf DEF BaseInv, Jobs, Own
  <2>4. ~Held(j, "rules")
    BY <2>3 DEF Held
  <2> QED
    BY <2>2, <2>3, <2>4, GoneRests
<1>6. ASSUME NEW p \in Proc, ApplyRules(p)
      PROVE  GoneInv'
  <2>1. PICK j \in Jobs, rs \in SUBSET job[p].rules :
           /\ job' = [job EXCEPT ![p] = j]
           /\ job[p].op = "evaluate"
           /\ j.op = "evaluate" /\ j.file = job[p].file
           /\ UNCHANGED <<disk, Spoilt, used, dropped>>
    BY <1>6, AfterApply
  <2>2. ~Held(j, "rules")
    BY <2>1, JobOf DEF BaseInv, Own, Held
  <2> QED
    BY <2>1, <2>2, GoneRests
<1>7. ASSUME NEW p \in Proc, PassOver(p)
      PROVE  GoneInv'
  <2>1. PICK j : job' = [job EXCEPT ![p] = j] /\ j.op = "import" /\ j.pos = "item"
    BY <1>7, PassOverGoes
  <2>2. disk' = disk /\ Spoilt' = Spoilt /\ used' = used /\ dropped' = dropped
    BY <1>7 DEF PassOver, history, Spoilt
  <2>3. ~Held(j, "rules")
    BY <2>1 DEF Held, Holding
  <2> QED
    BY <2>1, <2>2, <2>3, GoneRests
<1>8. ASSUME NEW p \in Proc, ImportOne(p)
      PROVE  GoneInv'
  <2>1. PICK d \in Def : \E k :
              /\ job' = [job EXCEPT ![p] = k]
              /\ job[p].op = "import" /\ job[p].pos \in {"item", "saved"} /\ job[p].file = "rules"
              /\ k.op = "import" /\ k.pos = "open" /\ k.file = "rules" /\ k.num = job[p].num
              /\ \/ \E r \in RuleId \ used :
                      /\ used' = used \cup {r} /\ k.items = job[p].items \cup {r}
                      /\ k.copy = Load("rules") \cup {[id |-> r, def |-> d]}
                 \/ \E r \in RuleId :
                      /\ \E x \in Load("rules") : x.id = r
                      /\ used' = used /\ k.items = job[p].items
                      /\ k.copy = Replaced(Load("rules"), r, d)
    BY <1>8, ImportOneGoes
  <2>2. PICK j :
              /\ job' = [job EXCEPT ![p] = j] /\ job[p].op = "import"
              /\ j.op = "import" /\ j.pos = "open" /\ j.file = "rules"
              /\ \/ \E r \in RuleId \ used :
                      /\ used' = used \cup {r}
                      /\ j.copy = Load("rules") \cup {[id |-> r, def |-> d]}
                 \/ \E r \in RuleId :
                      /\ \E x \in Load("rules") : x.id = r
                      /\ used' = used /\ j.copy = Replaced(Load("rules"), r, d)
    BY <2>1
  <2>3. /\ Spoilt' = Spoilt \cup {g \in {"rules"} : Contended(p, "rules")}
        /\ disk' = disk /\ dropped' = dropped
    BY <1>8, ImportOneGoes DEF history
  <2>4. /\ \A x \in RuleId : In("rules", j.copy, x) => In("rules", Load("rules"), x) \/ x \notin used
        /\ used \subseteq used'
    <3>1. CASE \E r \in RuleId \ used :
                 used' = used \cup {r} /\ j.copy = Load("rules") \cup {[id |-> r, def |-> d]}
      <4>1. PICK r \in RuleId \ used :
                 used' = used \cup {r} /\ j.copy = Load("rules") \cup {[id |-> r, def |-> d]}
        BY <3>1
      <4>2. \A x : In("rules", Load("rules") \cup {[id |-> r, def |-> d]}, x) =>
                  In("rules", Load("rules"), x) \/ x = r
        BY AddsOne
      <4> QED
        BY <4>1, <4>2
    <3>2. CASE \E r \in RuleId : /\ \E x \in Load("rules") : x.id = r
                                 /\ used' = used /\ j.copy = Replaced(Load("rules"), r, d)
      <4>1. PICK r \in RuleId : /\ \E x \in Load("rules") : x.id = r
                               /\ used' = used /\ j.copy = Replaced(Load("rules"), r, d)
        BY <3>2
      <4>2. \A x : In("rules", Replaced(Load("rules"), r, d), x) => In("rules", Load("rules"), x)
        BY <4>1, ReplacesOne
      <4> QED
        BY <4>1, <4>2
    <3> QED
      BY <2>2, <3>1, <3>2
  <2>5. "rules" \in Store
    BY DEF Store
  <2> QED
    BY <2>2, <2>3, <2>4, <2>5, GoneLoads
<1>9. ASSUME NEW p \in Proc, Saves(p)
      PROVE  GoneInv'
  BY <1>9, SavesGoes, GoneSaves
<1> QED
  BY <1>1, <1>2, <1>3, <1>4, <1>5, <1>6, <1>7, <1>8, <1>9, GoneDrops DEF RulesNext, GoesOn

-----------------------------------------------------------------------------
(* The counters of the evaluations that returned.                              *)
LEMMA StateQuiet ==
  ASSUME StateInv, UNCHANGED <<disk, job, Spoilt, now, loads, recorded, returned, fired, dropped>>
  PROVE  StateInv'
<1>1. Load("state")' = Load("state") /\ (\A r : Begun(r)' <=> Begun(r))
      /\ (\A e : Missed(e)' <=> Missed(e))
  BY DEF Load, Begun, Missed
<1> QED
  BY <1>1 DEF StateInv

(* An entry that has left the window does not come back.                       *)
LEMMA WindowPasses ==
  ASSUME NEW e, NEW t \in Nat, NEW u \in Nat, e.at \in Nat, t <= u, ~InWindow(e, t)
  PROVE  ~InWindow(e, u)
BY RulesAssumption DEF InWindow

LEMMA StateTick ==
  ASSUME BaseInv, StateInv, Tick
  PROVE  StateInv'
<1>1. Load("state")' = Load("state") /\ (\A r : Begun(r)' <=> Begun(r))
      /\ (\A e : Missed(e)' <=> Missed(e))
  BY DEF Load, Begun, Missed, Tick, history
<1>2. \A e \in returned : ~InWindow(e, now) => ~InWindow(e, now')
  <2>1. \A e \in returned : e.at \in Nat
    BY DEF StateInv, BaseInv, TypeInv, Content
  <2>2. now \in Nat /\ now' \in Nat /\ now <= now'
    BY DEF BaseInv, TypeInv, Tick
  <2> QED
    BY <2>1, <2>2, WindowPasses
<1>3. UNCHANGED <<job, Spoilt, loads, recorded, returned, fired>>
  BY DEF Tick, history, Spoilt
<1>4. ASSUME "state" \notin Spoilt'
      PROVE  /\ \A e \in returned' : Begun(e.rule)' \/ ~InWindow(e, now') \/ e \in Load("state")'
             /\ \A e \in returned' : e \in fired' \/ Begun(e.rule)' \/ Missed(e)'
             /\ \A p \in Proc : Held(job'[p], "state") => \A e \in returned' :
                  /\ \/ Begun(e.rule)' \/ e \in job'[p].copy
                     \/ ~InWindow(e, IF job'[p].op = "evaluate" THEN job'[p].at ELSE now')
                  /\ job'[p].op = "evaluate" => e.num < job'[p].num
  <2>1. "state" \notin Spoilt
    BY <1>3, <1>4
  <2>2. \A e \in returned' : Begun(e.rule)' \/ ~InWindow(e, now') \/ e \in Load("state")'
    BY <1>1, <1>2, <1>3, <2>1 DEF StateInv
  <2>3. \A e \in returned' : e \in fired' \/ Begun(e.rule)' \/ Missed(e)'
    BY <1>1, <1>3, <2>1 DEF StateInv
  <2>4. ASSUME NEW p \in Proc, Held(job[p], "state"), NEW e \in returned
        PROVE  /\ \/ Begun(e.rule)' \/ e \in job[p].copy
                  \/ ~InWindow(e, IF job[p].op = "evaluate" THEN job[p].at ELSE now')
               /\ job[p].op = "evaluate" => e.num < job[p].num
    <3>1. /\ \/ Begun(e.rule) \/ e \in job[p].copy
             \/ ~InWindow(e, IF job[p].op = "evaluate" THEN job[p].at ELSE now)
          /\ job[p].op = "evaluate" => e.num < job[p].num
      BY <2>1, <2>4 DEF StateInv
    <3> QED
      BY <1>1, <1>2, <3>1
  <2> QED
    BY <1>3, <2>2, <2>3, <2>4
<1> QED
  BY <1>3, <1>4 DEF StateInv

LEMMA StateRests ==
  ASSUME BaseInv, StateInv, NEW p \in Proc, NEW j, job' = [job EXCEPT ![p] = j],
         ~Held(j, "state"), j.op # "evaluate" \/ j.pos = "load", j.num <= loads,
         UNCHANGED <<disk, now, loads, recorded, returned, fired>>,
         Spoilt \subseteq Spoilt', dropped \subseteq dropped'
  PROVE  StateInv'
<1>1. job'[p] = j /\ \A q \in Proc : q # p => job'[q] = job[q]
  BY OneJob DEF BaseInv
<1>2. Load("state")' = Load("state") /\ (\A r : Begun(r) => Begun(r)')
      /\ (\A e : Missed(e)' <=> Missed(e))
  BY DEF Load, Begun, Missed
<1>3. \A q \in Proc : job'[q].num <= loads'
  BY <1>1 DEF StateInv
<1>4. ASSUME NEW q \in Proc, job'[q].op = "evaluate",
             job'[q].pos \in {"open", "write", "replace", "saved"}, NEW r \in job'[q].rules
      PROVE  /\ EntryOf(job'[q], r) \in job'[q].copy
             /\ \/ EntryOf(job'[q], r) \in job'[q].hits
                \/ Cardinality({x \in job'[q].copy : Alike(x, EntryOf(job'[q], r))}) < Count
  <2>1. q # p /\ job'[q] = job[q]
    BY <1>1, <1>4
  <2> QED
    BY <1>4, <2>1 DEF StateInv
<1>5. ASSUME "state" \notin Spoilt'
      PROVE  /\ \A e \in returned' : Begun(e.rule)' \/ ~InWindow(e, now') \/ e \in Load("state")'
             /\ \A e \in returned' : e \in fired' \/ Begun(e.rule)' \/ Missed(e)'
  BY <1>2, <1>5 DEF StateInv
<1>6. ASSUME "state" \notin Spoilt', NEW q \in Proc, Held(job'[q], "state"), NEW e \in returned'
      PROVE  /\ \/ Begun(e.rule)' \/ e \in job'[q].copy
                \/ ~InWindow(e, IF job'[q].op = "evaluate" THEN job'[q].at ELSE now')
             /\ job'[q].op = "evaluate" => e.num < job'[q].num
  <2>1. q # p /\ job'[q] = job[q] /\ "state" \notin Spoilt
    BY <1>1, <1>6
  <2>2. /\ \/ Begun(e.rule) \/ e \in job[q].copy
           \/ ~InWindow(e, IF job[q].op = "evaluate" THEN job[q].at ELSE now)
        /\ job[q].op = "evaluate" => e.num < job[q].num
    BY <1>6, <2>1 DEF StateInv
  <2> QED
    BY <1>2, <2>1, <2>2
<1>7. returned' \subseteq recorded' /\ \A e \in returned' : e.num <= loads'
  BY DEF StateInv
<1> QED
  BY <1>3, <1>4, <1>5, <1>6, <1>7 DEF StateInv

(* The counters are loaded: whoever else has them makes a race.                *)
LEMMA StateLoads ==
  ASSUME BaseInv, StateInv, NEW p \in Proc, LoadState(p)
  PROVE  StateInv'
<1>1. PICK j : j = [job[p] EXCEPT !.pos = "match", !.copy = Load("state"), !.at = now,
                                  !.num = loads + 1]
  OBVIOUS
<1>2. /\ job' = [job EXCEPT ![p] = j] /\ Spoilt' = Spoilt \cup {g \in {"state"} : Contended(p, "state")}
      /\ loads' = loads + 1 /\ job[p].op = "evaluate"
      /\ UNCHANGED <<disk, now, recorded, returned, fired, dropped>>
  BY <1>1 DEF LoadState, NoteRace, history, Spoilt
<1>3. job'[p] = j /\ \A q \in Proc : q # p => job'[q] = job[q]
  BY <1>2, OneJob DEF BaseInv
<1>4. j.op = "evaluate" /\ j.pos = "match" /\ j.copy = Load("state") /\ j.num = loads + 1 /\ j.at = now
  BY <1>1, <1>2, JobOf DEF BaseInv, Jobs
<1>5. Load("state")' = Load("state") /\ (\A r : Begun(r)' <=> Begun(r))
      /\ (\A e : Missed(e)' <=> Missed(e))
  BY <1>2 DEF Load, Begun, Missed
<1>6. loads \in Nat /\ (\A q \in Proc : job[q].num \in Nat) /\ \A e \in returned : e.num \in Nat
  BY DEF BaseInv, TypeInv, Jobs, StateInv, Content
<1>7. /\ \A q \in Proc : job'[q].num <= loads'
      /\ returned' \subseteq recorded' /\ \A e \in returned' : e.num <= loads' /\ e.num < loads + 1
  BY <1>2, <1>3, <1>4, <1>6 DEF StateInv
<1>8. ASSUME NEW q \in Proc, job'[q].op = "evaluate",
             job'[q].pos \in {"open", "write", "replace", "saved"}, NEW r \in job'[q].rules
      PROVE  /\ EntryOf(job'[q], r) \in job'[q].copy
             /\ \/ EntryOf(job'[q], r) \in job'[q].hits
                \/ Cardinality({x \in job'[q].copy : Alike(x, EntryOf(job'[q], r))}) < Count
  <2>1. q # p /\ job'[q] = job[q]
    BY <1>3, <1>4, <1>8
  <2> QED
    BY <1>8, <2>1 DEF StateInv
<1>9. ASSUME "state" \notin Spoilt'
      PROVE  /\ \A e \in returned' : Begun(e.rule)' \/ ~InWindow(e, now') \/ e \in Load("state")'
             /\ \A e \in returned' : e \in fired' \/ Begun(e.rule)' \/ Missed(e)'
  BY <1>2, <1>5, <1>9 DEF StateInv
<1>10. ASSUME "state" \notin Spoilt', NEW q \in Proc, Held(job'[q], "state"), NEW e \in returned'
       PROVE  /\ \/ Begun(e.rule)' \/ e \in job'[q].copy
                 \/ ~InWindow(e, IF job'[q].op = "evaluate" THEN job'[q].at ELSE now')
              /\ job'[q].op = "evaluate" => e.num < job'[q].num
  <2>1. "state" \notin Spoilt /\ e \in returned
    BY <1>2, <1>10
  <2>2. q = p
    BY <1>2, <1>3, <1>10 DEF Contended, Held, Holds
  <2>3. Begun(e.rule) \/ ~InWindow(e, now) \/ e \in Load("state")
    BY <2>1 DEF StateInv
  <2>4. e.num < loads + 1
    BY <1>2, <1>7, <2>1
  <2> QED
    BY <1>3, <1>4, <1>5, <2>2, <2>3, <2>4
<1> QED
  BY <1>7, <1>8, <1>9, <1>10 DEF StateInv

(* The counters of a deleted rule are dropped: its deletion has begun.         *)
LEMMA StateDrops ==
  ASSUME BaseInv, StateInv, GoneInv, NEW p \in Proc, DropCounters(p)
  PROVE  StateInv'
<1>1. PICK j : /\ job' = [job EXCEPT ![p] = j]
               /\ job[p].op = "delete" /\ j.op = "delete" /\ j.num = job[p].num
               /\ j.copy = Load("state") \ {e \in Load("state") : e.rule \in job[p].items}
  BY DropCountersGoes
<1>2. /\ UNCHANGED <<disk, now, loads, recorded, returned, fired, dropped>> /\ Spoilt \subseteq Spoilt'
  BY DropCountersGoes DEF history
<1>3. job'[p] = j /\ \A q \in Proc : q # p => job'[q] = job[q]
  BY <1>1, OneJob DEF BaseInv
<1>4. Load("state")' = Load("state") /\ (\A r : Begun(r)' <=> Begun(r))
      /\ (\A e : Missed(e)' <=> Missed(e))
  BY <1>2 DEF Load, Begun, Missed
<1>5. /\ \A q \in Proc : job'[q].num <= loads'
      /\ returned' \subseteq recorded' /\ \A e \in returned' : e.num <= loads'
  BY <1>1, <1>2, <1>3 DEF StateInv
<1>6. ASSUME NEW q \in Proc, job'[q].op = "evaluate",
             job'[q].pos \in {"open", "write", "replace", "saved"}, NEW r \in job'[q].rules
      PROVE  /\ EntryOf(job'[q], r) \in job'[q].copy
             /\ \/ EntryOf(job'[q], r) \in job'[q].hits
                \/ Cardinality({x \in job'[q].copy : Alike(x, EntryOf(job'[q], r))}) < Count
  <2>1. q # p /\ job'[q] = job[q]
    BY <1>1, <1>3, <1>6
  <2> QED
    BY <1>6, <2>1 DEF StateInv
<1>7. ASSUME "state" \notin Spoilt'
      PROVE  /\ \A e \in returned' : Begun(e.rule)' \/ ~InWindow(e, now') \/ e \in Load("state")'
             /\ \A e \in returned' : e \in fired' \/ Begun(e.rule)' \/ Missed(e)'
  BY <1>2, <1>4, <1>7 DEF StateInv
<1>8. ASSUME "state" \notin Spoilt', NEW q \in Proc, Held(job'[q], "state"), NEW e \in returned'
      PROVE  /\ \/ Begun(e.rule)' \/ e \in job'[q].copy
                \/ ~InWindow(e, IF job'[q].op = "evaluate" THEN job'[q].at ELSE now')
             /\ job'[q].op = "evaluate" => e.num < job'[q].num
  <2>1. "state" \notin Spoilt /\ e \in returned
    BY <1>2, <1>8
  <2>2. CASE q # p
    <3>1. job'[q] = job[q]
      BY <1>3, <2>2
    <3>2. /\ \/ Begun(e.rule) \/ e \in job[q].copy
             \/ ~InWindow(e, IF job[q].op = "evaluate" THEN job[q].at ELSE now)
          /\ job[q].op = "evaluate" => e.num < job[q].num
      BY <1>8, <2>1, <3>1 DEF StateInv
    <3> QED
      BY <1>2, <1>4, <3>1, <3>2
  <2>3. CASE q = p
    <3>1. Begun(e.rule) \/ ~InWindow(e, now) \/ e \in Load("state")
      BY <2>1 DEF StateInv
    <3>2. e.rule \in job[p].items => Begun(e.rule)
      BY <1>1 DEF GoneInv
    <3>3. j.op # "evaluate" /\ now' = now
      BY <1>1, <1>2
    <3>4. e \in Load("state") => e \in j.copy \/ e.rule \in job[p].items
      BY <1>1
    <3> QED
      BY <1>3, <1>4, <2>3, <3>1, <3>2, <3>3, <3>4
  <2> QED
    BY <2>2, <2>3
<1> QED
  BY <1>5, <1>6, <1>7, <1>8 DEF StateInv

LEMMA StateSaves ==
  ASSUME BaseInv, StateInv, NEW p \in Proc, SaveEffect(p)
  PROVE  StateInv'
<1>1. /\ \A q \in Proc : Same(job'[q], job[q]) /\ (q # p => job'[q].pos = job[q].pos)
      /\ job[p].pos \in {"open", "write", "replace"}
      /\ UNCHANGED <<Spoilt, now, loads, recorded, returned, fired, dropped>>
  BY DEF SaveEffect, history
<1>2. /\ "state" \in Store /\ "state" \notin InPlace
      /\ \A q \in Proc : Held(job'[q], "state") => Held(job[q], "state")
  BY <1>1 DEF Store, InPlace, Held, Holding, Same
<1>3. (\A r : Begun(r)' <=> Begun(r)) /\ (\A e : Missed(e)' <=> Missed(e))
  BY <1>1 DEF Begun, Missed
<1>4. /\ \A q \in Proc : job'[q].num <= loads'
      /\ returned' \subseteq recorded' /\ \A e \in returned' : e.num <= loads'
  BY <1>1 DEF StateInv, Same
<1>5. ASSUME NEW q \in Proc, job'[q].op = "evaluate",
             job'[q].pos \in {"open", "write", "replace", "saved"}, NEW r \in job'[q].rules
      PROVE  /\ EntryOf(job'[q], r) \in job'[q].copy
             /\ \/ EntryOf(job'[q], r) \in job'[q].hits
                \/ Cardinality({x \in job'[q].copy : Alike(x, EntryOf(job'[q], r))}) < Count
  <2>1. /\ job[q].op = "evaluate" /\ job[q].pos \in {"open", "write", "replace", "saved"}
        /\ r \in job[q].rules
    BY <1>1, <1>5 DEF Same
  <2>2. /\ EntryOf(job[q], r) \in job[q].copy
        /\ \/ EntryOf(job[q], r) \in job[q].hits
           \/ Cardinality({x \in job[q].copy : Alike(x, EntryOf(job[q], r))}) < Count
    BY <2>1 DEF StateInv
  <2>3. EntryOf(job'[q], r) = EntryOf(job[q], r) /\ job'[q].copy = job[q].copy /\ job'[q].hits = job[q].hits
    BY <1>1 DEF Same, EntryOf
  <2> QED
    BY <2>2, <2>3
<1>6. ASSUME "state" \notin Spoilt', NEW q \in Proc, Held(job'[q], "state"), NEW e \in returned'
      PROVE  /\ \/ Begun(e.rule)' \/ e \in job'[q].copy
                \/ ~InWindow(e, IF job'[q].op = "evaluate" THEN job'[q].at ELSE now')
             /\ job'[q].op = "evaluate" => e.num < job'[q].num
  <2>1. "state" \notin Spoilt /\ e \in returned /\ Held(job[q], "state")
    BY <1>1, <1>2, <1>6
  <2>2. /\ \/ Begun(e.rule) \/ e \in job[q].copy
           \/ ~InWindow(e, IF job[q].op = "evaluate" THEN job[q].at ELSE now)
        /\ job[q].op = "evaluate" => e.num < job[q].num
    BY <2>1 DEF StateInv
  <2> QED
    BY <1>1, <1>3, <2>2 DEF Same
<1>7. ASSUME "state" \notin Spoilt', NEW e \in returned'
      PROVE  Begun(e.rule)' \/ ~InWindow(e, now') \/ e \in Load("state")'
  <2>1. "state" \notin Spoilt /\ e \in returned
    BY <1>1, <1>7
  <2>2. CASE disk'["state"] = disk["state"]
    <3>1. Begun(e.rule) \/ ~InWindow(e, now) \/ e \in Load("state")
      BY <2>1 DEF StateInv
    <3> QED
      BY <1>1, <1>3, <2>2, <3>1 DEF Load
  <2>3. CASE job[p].file = "state" /\ disk'["state"] = job[p].copy
    <3>1. Held(job[p], "state")
      BY <1>1, <2>3 DEF Held, Holding
    <3>2. \/ Begun(e.rule) \/ e \in job[p].copy
          \/ ~InWindow(e, IF job[p].op = "evaluate" THEN job[p].at ELSE now)
      BY <2>1, <3>1 DEF StateInv
    <3>3. ~InWindow(e, IF job[p].op = "evaluate" THEN job[p].at ELSE now) => ~InWindow(e, now)
      <4>1. e.at \in Nat /\ now \in Nat /\ job[p].at \in Nat
        BY <2>1 DEF BaseInv, TypeInv, Jobs, StateInv, Content
      <4>2. job[p].op = "evaluate" => job[p].at <= now
        BY <1>1 DEF BaseInv, CountInv
      <4>3. CASE job[p].op = "evaluate"
        BY <4>1, <4>2, <4>3, WindowPasses
      <4>4. CASE job[p].op # "evaluate"
        BY <4>4
      <4> QED
        BY <4>3, <4>4
    <3>4. job[p].copy # Torn
      BY <2>3, JobOf, DiskAssumption DEF Own, BaseInv, Store
    <3>5. Load("state")' = job[p].copy
      BY <2>3, <3>4 DEF Load
    <3> QED
      BY <1>1, <1>3, <3>2, <3>3, <3>5
  <2> QED
    BY <1>2, <2>1, <2>2, <2>3 DEF SaveEffect
<1>8. ASSUME "state" \notin Spoilt', NEW e \in returned'
      PROVE  e \in fired' \/ Begun(e.rule)' \/ Missed(e)'
  BY <1>1, <1>3, <1>8 DEF StateInv
<1> QED
  BY <1>4, <1>5, <1>6, <1>7, <1>8 DEF StateInv

(* The rules are applied: the copy keeps what is in the window, and gains the  *)
(* matches of this alert.                                                      *)
LEMMA StateApplies ==
  ASSUME BaseInv, StateInv, NEW p \in Proc, ApplyRules(p)
  PROVE  StateInv'
<1>1. PICK j \in Jobs, rs \in SUBSET job[p].rules :
           /\ job' = [job EXCEPT ![p] = j]
           /\ job[p].op = "evaluate" /\ job[p].pos = "match"
           /\ j.op = "evaluate" /\ j.pos = "open" /\ j.file = job[p].file
           /\ j.num = job[p].num /\ j.at = job[p].at /\ j.items = job[p].items
           /\ j.alert = job[p].alert /\ j.rules = rs /\ IsFiniteSet(rs)
           /\ j.copy = AppliedAll(job[p].copy, p, rs)
           /\ j.hits = {Entry(p, r, job[p].at) : r \in {s \in rs : Met(j.copy, p, s)}}
           /\ recorded' = recorded \cup {Entry(p, r, job[p].at) : r \in rs}
           /\ UNCHANGED <<disk, tmp, Spoilt, now, started, loads, used, returned, fired, kept, dropped>>
  BY AfterApply
<1>2. job'[p] = j /\ \A q \in Proc : q # p => job'[q] = job[q]
  BY <1>1, OneJob DEF BaseInv
<1>3. job[p] \in Jobs /\ job[p].file = "state"
  BY <1>1, JobOf DEF BaseInv, Own
<1>4. Load("state")' = Load("state") /\ (\A r : Begun(r)' <=> Begun(r))
      /\ (\A e : Missed(e)' <=> Missed(e))
  BY <1>1 DEF Load, Begun, Missed
<1>5. /\ \A q \in Proc : job'[q].num <= loads'
      /\ returned' \subseteq recorded' /\ \A e \in returned' : e.num <= loads'
  BY <1>1, <1>2 DEF StateInv
<1>6. ASSUME NEW r \in rs
      PROVE  /\ EntryOf(j, r) \in j.copy
             /\ \/ EntryOf(j, r) \in j.hits
                \/ Cardinality({x \in j.copy : Alike(x, EntryOf(j, r))}) < Count
  <2>1. EntryOf(j, r) = Entry(p, r, job[p].at)
    BY <1>1 DEF EntryOf, Entry
  <2>2. EntryOf(j, r) \in j.copy
    BY <1>1, <2>1 DEF AppliedAll
  <2>3. CASE Met(j.copy, p, r)
    BY <1>1, <2>1, <2>2, <2>3
  <2>4. CASE ~Met(j.copy, p, r)
    <3>1. PICK S : S = {x \in j.copy : Alike(x, EntryOf(j, r))}
      OBVIOUS
    <3>2. \A x : Alike(x, EntryOf(j, r)) <=> x.rule = r.id /\ x.src = job[p].alert.src
      BY <1>1 DEF Alike, EntryOf
    <3>3. S = Bucket(j.copy, r, job[p].alert)
      BY <3>1, <3>2 DEF Bucket
    <3>4. IsFiniteSet(S)
      <4>1. rs \in SUBSET Content("rules")
        BY <1>3 DEF Jobs
      <4>2. PICK E : E = {Entry(p, s, job[p].at) : s \in rs}
        OBVIOUS
      <4>3. IsFiniteSet(E) /\ j.copy \in SUBSET (recorded \cup E)
        BY <1>1, <4>1, <4>2, Applied
      <4>4. IsFiniteSet(recorded \cup E)
        BY <4>3, FS_Union DEF BaseInv, CountInv
      <4>5. S \in SUBSET (recorded \cup E)
        BY <3>1, <4>3
      <4> QED
        BY <4>4, <4>5, FS_Subset
    <3>5. Cardinality(S) \in Nat /\ ~(Cardinality(S) >= Count)
      BY <2>4, <3>3, <3>4, FS_CardinalityType DEF Met
    <3>6. Cardinality(S) < Count
      BY <3>5, RulesAssumption
    <3> QED
      BY <2>2, <3>1, <3>6
  <2> QED
    BY <2>3, <2>4
<1>7. ASSUME NEW q \in Proc, job'[q].op = "evaluate",
             job'[q].pos \in {"open", "write", "replace", "saved"}, NEW r \in job'[q].rules
      PROVE  /\ EntryOf(job'[q], r) \in job'[q].copy
             /\ \/ EntryOf(job'[q], r) \in job'[q].hits
                \/ Cardinality({x \in job'[q].copy : Alike(x, EntryOf(job'[q], r))}) < Count
  <2>1. CASE q = p
    BY <1>1, <1>2, <1>6, <1>7, <2>1
  <2>2. CASE q # p
    <3>1. job'[q] = job[q]
      BY <1>2, <2>2
    <3> QED
      BY <1>7, <3>1 DEF StateInv
  <2> QED
    BY <2>1, <2>2
<1>8. ASSUME "state" \notin Spoilt'
      PROVE  /\ \A e \in returned' : Begun(e.rule)' \/ ~InWindow(e, now') \/ e \in Load("state")'
             /\ \A e \in returned' : e \in fired' \/ Begun(e.rule)' \/ Missed(e)'
  BY <1>1, <1>4, <1>8 DEF StateInv
<1>9. ASSUME "state" \notin Spoilt', NEW q \in Proc, Held(job'[q], "state"), NEW e \in returned'
      PROVE  /\ \/ Begun(e.rule)' \/ e \in job'[q].copy
                \/ ~InWindow(e, IF job'[q].op = "evaluate" THEN job'[q].at ELSE now')
             /\ job'[q].op = "evaluate" => e.num < job'[q].num
  <2>1. "state" \notin Spoilt /\ e \in returned /\ now' = now
    BY <1>1, <1>9
  <2>2. Held(job[q], "state") /\ (q # p => job'[q] = job[q])
    BY <1>1, <1>2, <1>3, <1>9 DEF Held, Holding
  <2>3. /\ \/ Begun(e.rule) \/ e \in job[q].copy
           \/ ~InWindow(e, IF job[q].op = "evaluate" THEN job[q].at ELSE now)
        /\ job[q].op = "evaluate" => e.num < job[q].num
    BY <2>1, <2>2 DEF StateInv
  <2>4. CASE q # p
    BY <1>4, <2>1, <2>2, <2>3, <2>4
  <2>5. CASE q = p
    <3>1. e \in job[p].copy /\ InWindow(e, job[p].at) => e \in j.copy
      BY <1>1 DEF AppliedAll
    <3>2. Begun(e.rule) \/ e \in j.copy \/ ~InWindow(e, job[p].at)
      BY <1>1, <2>3, <2>5, <3>1
    <3> QED
      BY <1>1, <1>2, <1>4, <2>3, <2>5, <3>2
  <2> QED
    BY <2>4, <2>5
<1> QED
  BY <1>5, <1>7, <1>8, <1>9 DEF StateInv

(* An evaluation returns: what it counted is in the file it saved.             *)
LEMMA StateEvaluated ==
  ASSUME BaseInv, StateInv, NEW p \in Proc, Evaluated(p)
  PROVE  StateInv'
<1>1. PICK E : E = {Entry(p, r, job[p].at) : r \in job[p].rules}
  OBVIOUS
<1>2. /\ job[p].op = "evaluate" /\ job[p].pos = "saved"
      /\ returned' = returned \cup E /\ fired' = fired \cup job[p].hits
      /\ job' = [job EXCEPT ![p] = NoJob]
      /\ UNCHANGED <<disk, Spoilt, now, loads, recorded, dropped>>
  BY <1>1 DEF Evaluated, Spoilt
<1>3. job'[p] = NoJob /\ \A q \in Proc : q # p => job'[q] = job[q]
  BY <1>2, OneJob DEF BaseInv
<1>4. NoJob.op = "idle" /\ NoJob.num = 0 /\ ~Held(NoJob, "state")
  BY NothingAtRest DEF BaseInv
<1>5. job[p] \in Jobs /\ job[p].file = "state" /\ job[p].copy \in SUBSET Content("state")
  BY <1>2, JobOf DEF BaseInv, Own
<1>6. ASSUME NEW e \in E
      PROVE  /\ e \in job[p].copy /\ e.num = job[p].num /\ e.at = job[p].at
             /\ e \in job[p].hits \/ Cardinality({x \in job[p].copy : Alike(x, e)}) < Count
  <2>1. PICK r \in job[p].rules : e = EntryOf(job[p], r)
    BY <1>1 DEF Entry, EntryOf
  <2>2. e.num = job[p].num /\ e.at = job[p].at
    BY <2>1 DEF EntryOf
  <2> QED
    BY <1>2, <2>1, <2>2 DEF StateInv
<1>7. job[p].copy \subseteq recorded
  BY <1>5 DEF BaseInv, FilesInv, Sane
<1>8. /\ returned' \subseteq recorded' /\ \A e \in returned' : e.num <= loads'
      /\ \A q \in Proc : job'[q].num <= loads'
  <2>1. loads \in Nat /\ job[p].num <= loads
    BY DEF BaseInv, TypeInv, StateInv
  <2>2. \A q \in Proc : job'[q].num <= loads
    BY <1>3, <1>4, <2>1 DEF StateInv
  <2>3. \A e \in E : e \in recorded /\ e.num <= loads
    BY <1>6, <1>7, <2>1
  <2>4. \A e \in returned : e \in recorded /\ e.num <= loads
    BY DEF StateInv
  <2> QED
    BY <1>2, <2>2, <2>3, <2>4
<1>9. ASSUME NEW q \in Proc, job'[q].op = "evaluate",
             job'[q].pos \in {"open", "write", "replace", "saved"}, NEW r \in job'[q].rules
      PROVE  /\ EntryOf(job'[q], r) \in job'[q].copy
             /\ \/ EntryOf(job'[q], r) \in job'[q].hits
                \/ Cardinality({x \in job'[q].copy : Alike(x, EntryOf(job'[q], r))}) < Count
  <2>1. q # p /\ job'[q] = job[q]
    BY <1>3, <1>4, <1>9
  <2> QED
    BY <1>9, <2>1 DEF StateInv
<1>10. ASSUME "state" \notin Spoilt'
       PROVE  /\ "state" \in Store \ Spoilt /\ Held(job[p], "state") /\ Load("state") = job[p].copy
              /\ \A q \in Proc : ~Held(job'[q], "state")
  <2>1. "state" \in Store \ Spoilt /\ Held(job[p], "state")
    BY <1>2, <1>5, <1>10 DEF Store, Held, Holding
  <2>2. disk["state"] = job[p].copy /\ \A q \in Proc : Held(job[q], "state") => q = p
    BY <1>2, <2>1 DEF BaseInv, SoloInv
  <2>3. job[p].copy # Torn
    BY <1>5, DiskAssumption DEF Store
  <2> QED
    BY <1>3, <1>4, <2>1, <2>2, <2>3 DEF Load
<1>11. ASSUME "state" \notin Spoilt', NEW e \in returned'
       PROVE  Begun(e.rule)' \/ ~InWindow(e, now') \/ e \in Load("state")'
  <2>1. Load("state")' = Load("state") /\ (Begun(e.rule)' <=> Begun(e.rule))
    BY <1>2 DEF Load, Begun
  <2>2. CASE e \in E
    BY <1>6, <1>10, <1>11, <2>1, <2>2
  <2>3. CASE e \in returned
    BY <1>2, <1>11, <2>1, <2>3 DEF StateInv
  <2> QED
    BY <1>2, <2>2, <2>3
<1>12. ASSUME "state" \notin Spoilt', NEW e \in returned'
       PROVE  e \in fired' \/ Begun(e.rule)' \/ Missed(e)'
  <2>1. Begun(e.rule)' <=> Begun(e.rule)
    BY <1>2 DEF Begun
  <2>2. "state" \notin Spoilt /\ Held(job[p], "state")
    BY <1>10, <1>12
  <2>3. \A x \in returned : x.num < job[p].num
    BY <1>2, <2>2 DEF StateInv
  <2>4. CASE e \in returned
    <3>1. e.num \in Nat /\ job[p].num \in Nat
      <4>1. e \in Content("state")
        BY <2>4 DEF StateInv, BaseInv, TypeInv
      <4>2. e.num \in Nat
        BY <4>1 DEF Content
      <4> QED
        BY <1>5, <4>2 DEF Jobs
    <3>2. \A x \in E : ~(x.num <= e.num)
      <4>1. e.num < job[p].num
        BY <2>3, <2>4
      <4>2. \A x \in E : x.num = job[p].num
        BY <1>6
      <4> QED
        BY <3>1, <4>1, <4>2
    <3>3. {x \in returned' : /\ x.rule = e.rule /\ x.src = e.src
                             /\ x.num <= e.num /\ InWindow(x, e.at)}
            = {x \in returned : /\ x.rule = e.rule /\ x.src = e.src
                                /\ x.num <= e.num /\ InWindow(x, e.at)}
      BY <1>2, <3>2
    <3>4. Missed(e)' <=> Missed(e)
      BY <3>3 DEF Missed
    <3> QED
      BY <1>2, <2>1, <2>2, <2>4, <3>4 DEF StateInv
  <2>5. CASE e \in E
    <3>1. CASE e \in job[p].hits
      BY <1>2, <3>1
    <3>2. CASE Begun(e.rule)
      BY <2>1, <3>2
    <3>3. CASE e \notin job[p].hits /\ ~Begun(e.rule)
      <4>1. PICK S : S = {x \in job[p].copy : Alike(x, e)}
        OBVIOUS
      <4>2. PICK T : T = {x \in returned' : /\ x.rule = e.rule /\ x.src = e.src
                                            /\ x.num <= e.num /\ InWindow(x, e.at)}
        OBVIOUS
      <4>3. ASSUME NEW x \in T
            PROVE  x \in S
        <5>1. x \in returned' /\ Alike(x, e) /\ InWindow(x, job[p].at) /\ ~Begun(x.rule)
          BY <1>6, <2>5, <3>3, <4>2 DEF Alike
        <5>2. CASE x \in E
          BY <1>6, <4>1, <5>1, <5>2
        <5>3. CASE x \in returned
          <6>1. x \in job[p].copy
            BY <1>2, <2>2, <5>1, <5>3 DEF StateInv
          <6> QED
            BY <4>1, <5>1, <6>1
        <5> QED
          BY <1>2, <5>1, <5>2, <5>3
      <4>4. IsFiniteSet(S)
        BY <1>7, <4>1, FS_Subset DEF BaseInv, CountInv
      <4>5. IsFiniteSet(T) /\ Cardinality(T) <= Cardinality(S)
        BY <4>3, <4>4, FS_Subset
      <4>6. Cardinality(S) < Count
        BY <1>6, <2>5, <3>3, <4>1
      <4>7. Cardinality(S) \in Nat /\ Cardinality(T) \in Nat
        BY <4>4, <4>5, FS_CardinalityType
      <4>8. Cardinality(T) < Count
        BY <4>5, <4>6, <4>7, RulesAssumption
      <4> QED
        BY <4>2, <4>8 DEF Missed
    <3> QED
      BY <3>1, <3>2, <3>3
  <2> QED
    BY <1>2, <2>4, <2>5
<1> QED
  BY <1>8, <1>9, <1>10, <1>11, <1>12 DEF StateInv

LEMMA StateBegins ==
  ASSUME BaseInv, StateInv, NEW p \in Proc, NEW op, NEW f, NEW copy, NEW items,
         Loads(p, op, f, copy, items), op # "evaluate", f # "state", dropped \subseteq dropped'
  PROVE  StateInv'
<1>1. PICK j : Editing(j, op, f, copy, items) /\ job' = [job EXCEPT ![p] = j]
  BY DEF Loads
<1>2. ~Held(j, "state") /\ j.op # "evaluate" /\ j.num = 0
  BY <1>1 DEF Editing, Held
<1>3. UNCHANGED <<disk, now, loads, recorded, returned, fired>> /\ Spoilt \subseteq Spoilt'
  BY DEF Loads
<1>4. j.num <= loads
  BY <1>2 DEF BaseInv, TypeInv
<1> QED
  BY <1>1, <1>2, <1>3, <1>4, StateRests

LEMMA StateAllBegins ==
  ASSUME BaseInv, StateInv, NEW p \in Proc, Begins(p)
  PROVE  StateInv'
<1>1. CASE Turned
  BY <1>1, StateQuiet DEF Turned, history
<1>2. ASSUME \E op, f, copy, items : /\ Loads(p, op, f, copy, items) /\ op # "evaluate"
                                     /\ f # "state" /\ dropped \subseteq dropped'
      PROVE  StateInv'
  <2>1. PICK op, f, copy, items : /\ Loads(p, op, f, copy, items) /\ op # "evaluate"
                                  /\ f # "state" /\ dropped \subseteq dropped'
    BY <1>2
  <2> QED
    BY <2>1, StateBegins
<1>3. ASSUME NEW a \in Alert, EvaluateAll(p, a)
      PROVE  StateInv'
  <2>1. PICK enabled : enabled = {r \in Load("rules") : r.def.enabled}
    OBVIOUS
  <2>2. UNCHANGED <<disk, Spoilt, now, loads, recorded, returned, fired, dropped>>
    BY <1>3 DEF EvaluateAll, history, Spoilt
  <2>3. CASE enabled = {}
    <3>1. job' = job
      BY <1>3, <2>1, <2>3 DEF EvaluateAll
    <3> QED
      BY <2>2, <3>1, StateQuiet
  <2>4. CASE enabled # {}
    <3>1. PICK j : j = [Work(p, "evaluate", "state", "load", {}) EXCEPT !.alert = a, !.rules = enabled]
      OBVIOUS
    <3>2. job' = [job EXCEPT ![p] = j]
      BY <1>3, <2>1, <2>4, <3>1 DEF EvaluateAll
    <3>3. j.pos = "load" /\ j.num = 0
      BY <3>1 DEF Work, NoJob
    <3>4. ~Held(j, "state") /\ j.num <= loads
      BY <3>3 DEF Held, Holding, BaseInv, TypeInv
    <3> QED
      BY <2>2, <3>2, <3>3, <3>4, StateRests
  <2> QED
    BY <2>3, <2>4
<1>4. ASSUME NEW d \in Def, CreateRule(p, d)
      PROVE  StateInv'
  <2>1. CASE ~Turned
    <3>1. PICK r \in RuleId \ used :
            /\ Loads(p, "create", "rules", Load("rules") \cup {[id |-> r, def |-> d]}, {r})
            /\ dropped' = dropped
      BY <1>4, <2>1, CreateRuleGoes
    <3> QED
      BY <1>2, <3>1
  <2> QED
    BY <1>1, <2>1
<1>5. ASSUME NEW r \in RuleId, NEW d \in Def, UpdateRule(p, r, d)
      PROVE  StateInv'
  <2>1. CASE ~Turned
    <3>1. Loads(p, "update", "rules", Replaced(Load("rules"), r, d), {}) /\ dropped' = dropped
      BY <1>5, <2>1, UpdateRuleGoes
    <3> QED
      BY <1>2, <3>1
  <2> QED
    BY <1>1, <2>1
<1>6. ASSUME NEW r \in RuleId, DeleteRule(p, r)
      PROVE  StateInv'
  <2>1. CASE ~Turned
    <3>1. /\ Loads(p, "delete", "rules", {x \in Load("rules") : x.id # r}, {r})
          /\ dropped \subseteq dropped'
      BY <1>6, <2>1, DeleteRuleGoes
    <3> QED
      BY <1>2, <3>1
  <2> QED
    BY <1>1, <2>1
<1>7. ASSUME NEW b \in Batches, NEW over \in BOOLEAN, ImportRules(p, b, over)
      PROVE  StateInv'
  <2>1. PICK j : /\ job' = [job EXCEPT ![p] = j]
                 /\ j.op = "import" /\ j.pos = "item" /\ j.num = 0
    BY <1>7, ImportRulesGoes
  <2>2. UNCHANGED <<disk, Spoilt, now, loads, recorded, returned, fired, dropped>>
    BY <1>7 DEF ImportRules, history, Spoilt
  <2>3. ~Held(j, "state") /\ j.num <= loads
    BY <2>1 DEF Held, Holding, BaseInv, TypeInv
  <2> QED
    BY <2>1, <2>2, <2>3, StateRests
<1>8. CASE BeginsLookup(p) \/ BeginsProviders(p)
  <2>1. Turned \/ \E op \in {"upsert", "remove", "connect", "disconnect"},
                     f \in {"lookup", "providers"} : \E copy, items :
                    Loads(p, op, f, copy, items) /\ dropped' = dropped
    <3>1. CASE BeginsLookup(p)
      BY <3>1, CreateTableGoes, UpsertEntryGoes, RemoveEntriesGoes
         DEF BeginsLookup, DeleteTable, DeleteEntry
    <3>2. CASE BeginsProviders(p)
      BY <3>2, AddProviderGoes, RemoveProviderGoes DEF BeginsProviders
    <3> QED
      BY <1>8, <3>1, <3>2
  <2> QED
    BY <1>1, <1>2, <2>1
<1> QED
  BY <1>3, <1>4, <1>5, <1>6, <1>7, <1>8 DEF Begins, BeginsRules

LEMMA StateNext ==
  ASSUME BaseInv, StateInv, GoneInv, [RulesNext]_ruleVars
  PROVE  StateInv'
<1>1. CASE UNCHANGED ruleVars
  BY <1>1, StateQuiet DEF ruleVars, Spoilt
<1>2. ASSUME NEW p \in Proc, Failed(p) \/ RuleDeleted(p) \/ Answered(p) \/ ImportStops(p)
                               \/ Imported(p) \/ Crash(p)
      PROVE  StateInv'
  <2>1. /\ job' = [job EXCEPT ![p] = NoJob] /\ UNCHANGED <<disk, now, loads, recorded, returned, fired>>
        /\ Spoilt \subseteq Spoilt' /\ dropped \subseteq dropped'
    BY <1>2 DEF Failed, RuleDeleted, Answered, ImportStops, Imported, Crash, history, Spoilt
  <2>2. ~Held(NoJob, "state") /\ NoJob.op # "evaluate" /\ NoJob.num <= loads
    BY NothingAtRest DEF BaseInv, TypeInv
  <2> QED
    BY <2>1, <2>2, StateRests
<1>3. ASSUME NEW p \in Proc, PassOver(p)
      PROVE  StateInv'
  <2>1. PICK j : /\ job' = [job EXCEPT ![p] = j]
                 /\ j.op = "import" /\ j.pos = "item" /\ j.num = job[p].num
    BY <1>3, PassOverGoes
  <2>2. UNCHANGED <<disk, Spoilt, now, loads, recorded, returned, fired, dropped>>
    BY <1>3 DEF PassOver, history, Spoilt
  <2>3. ~Held(j, "state") /\ j.num <= loads
    BY <2>1 DEF Held, Holding, StateInv
  <2> QED
    BY <2>1, <2>2, <2>3, StateRests
<1>4. ASSUME NEW p \in Proc, ImportOne(p)
      PROVE  StateInv'
  <2>1. PICK d \in Def : \E k :
              /\ job' = [job EXCEPT ![p] = k]
              /\ k.op = "import" /\ k.pos = "open" /\ k.file = "rules" /\ k.num = job[p].num
    BY <1>4, ImportOneGoes
  <2>2. PICK j : /\ job' = [job EXCEPT ![p] = j]
                 /\ j.op = "import" /\ j.file = "rules" /\ j.num = job[p].num
    BY <2>1
  <2>3. /\ UNCHANGED <<disk, now, loads, recorded, returned, fired, dropped>>
        /\ Spoilt \subseteq Spoilt'
    BY <1>4 DEF ImportOne, NoteRace, history, Spoilt
  <2>4. ~Held(j, "state") /\ j.num <= loads
    BY <2>2 DEF Held, StateInv
  <2> QED
    BY <2>2, <2>3, <2>4, StateRests
<1>5. ASSUME NEW p \in Proc, Saves(p)
      PROVE  StateInv'
  BY <1>5, SavesGoes, StateSaves
<1> QED
  BY <1>1, <1>2, <1>3, <1>4, <1>5, StateTick, StateAllBegins, StateLoads, StateApplies,
     StateEvaluated, StateDrops DEF RulesNext, GoesOn

-----------------------------------------------------------------------------
(* The invariant of the rule files.                                            *)
LEMMA HistoryInit ==
  ASSUME RulesInit
  PROVE  AnswersInv /\ KeptInv /\ StateInv /\ GoneInv
<1>1. PICK rs \in Seeds : /\ disk = [f \in Store |-> IF f = "rules" THEN rs ELSE {}]
                          /\ used = {r.id : r \in rs}
                          /\ kept = {<<"rules", r.id>> : r \in rs}
  BY DEF RulesInit
<1>2. BaseInv
  BY BaseInit
<1>3. /\ Spoilt = {} /\ returned = {} /\ dropped = {} /\ recorded = {} /\ loads = 0
      /\ \A p \in Proc : job[p] = NoJob
  BY DEF RulesInit, Spoilt
<1>4. /\ \A f : ~Held(NoJob, f)
      /\ NoJob.op = "idle" /\ NoJob.items = {} /\ NoJob.num = 0
  BY <1>2, NothingAtRest DEF BaseInv
<1>5. KeptInv
  <2>1. rs # Torn
    BY RulesAssumption, DiskAssumption DEF Store
  <2>2. Load("rules") = rs
    BY <1>1, <2>1 DEF Load, Store
  <2>3. \A f \in Store : \A x : <<f, x>> \in kept => In(f, Load(f), x)
    BY <1>1, <2>2 DEF In
  <2>4. \A x : <<"state", x>> \notin kept
    BY <1>1
  <2> QED
    BY <1>3, <1>4, <2>3, <2>4 DEF KeptInv
<1>6. StateInv
  BY <1>3, <1>4 DEF StateInv
<1>7. GoneInv
  BY <1>3, <1>4 DEF GoneInv, Gone, Leaving
<1>8. AnswersInv
  BY <1>1 DEF AnswersInv, Store
<1> QED
  BY <1>5, <1>6, <1>7, <1>8

(* What is acknowledged is in one of the files.                                *)
LEMMA AnswersNext ==
  ASSUME BaseInv, AnswersInv, [RulesNext]_ruleVars
  PROVE  AnswersInv'
<1>1. CASE kept' \subseteq kept
  BY <1>1 DEF AnswersInv
<1>2. ASSUME NEW p \in Proc, Answered(p)
      PROVE  AnswersInv'
  BY <1>2, JobOf DEF Answered, AnswersInv, BaseInv, Jobs
<1>3. ASSUME NEW p \in Proc, Imported(p)
      PROVE  AnswersInv'
  BY <1>3 DEF Imported, AnswersInv, Store
<1>4. ASSUME NEW p \in Proc, Begins(p)
      PROVE  kept' \subseteq kept
  <2>1. CASE BeginsRules(p)
    BY <2>1 DEF BeginsRules, EvaluateAll, CreateRule, UpdateRule, DeleteRule, ImportRules, history
  <2>2. CASE BeginsLookup(p)
    BY <2>2 DEF BeginsLookup, CreateTable, DeleteTable, UpsertEntry, DeleteEntry, RemoveEntries,
                Withdraw, history
  <2>3. CASE BeginsProviders(p)
    BY <2>3 DEF BeginsProviders, AddProvider, RemoveProvider, history
  <2> QED
    BY <1>4, <2>1, <2>2, <2>3 DEF Begins
<1>5. ASSUME NEW p \in Proc, Crash(p) \/ LoadState(p) \/ ApplyRules(p) \/ Evaluated(p) \/ Failed(p)
                               \/ DropCounters(p) \/ RuleDeleted(p) \/ PassOver(p)
                               \/ ImportStops(p) \/ ImportOne(p) \/ Saves(p)
      PROVE  kept' = kept
  BY <1>5 DEF Crash, LoadState, ApplyRules, Evaluated, Failed, DropCounters, RuleDeleted, PassOver,
              ImportStops, ImportOne, Saves, history
<1> QED
  BY <1>1, <1>2, <1>3, <1>4, <1>5 DEF RulesNext, GoesOn, Tick, ruleVars, history

LEMMA TornNext ==
  ASSUME TornInv, [RulesNext]_ruleVars
  PROVE  TornInv'
<1>1. ASSUME NEW p \in Proc, Crash(p)
      PROVE  TornInv'
  BY <1>1 DEF Crash, TornInv, InPlace
<1>2. ASSUME NEW p \in Proc, Begins(p)
      PROVE  torn' = torn
  <2>1. CASE BeginsRules(p)
    BY <2>1 DEF BeginsRules, EvaluateAll, CreateRule, UpdateRule, DeleteRule, ImportRules
  <2>2. CASE BeginsLookup(p)
    BY <2>2 DEF BeginsLookup, CreateTable, DeleteTable, UpsertEntry, DeleteEntry, RemoveEntries
  <2>3. CASE BeginsProviders(p)
    BY <2>3 DEF BeginsProviders, AddProvider, RemoveProvider
  <2> QED
    BY <1>2, <2>1, <2>2, <2>3 DEF Begins
<1>3. ASSUME NEW p \in Proc, GoesOn(p)
      PROVE  torn' = torn
  BY <1>3 DEF GoesOn, LoadState, ApplyRules, Evaluated, Failed, DropCounters, RuleDeleted, Answered,
              PassOver, ImportStops, ImportOne, Imported, Saves
<1> QED
  BY <1>1, <1>2, <1>3 DEF RulesNext, Tick, ruleVars, TornInv, InPlace

(* The inductive invariant of the rule files.  Besides the types it says what  *)
(* a writer that is alone on a file can rely on: the temporary file is its     *)
(* own, what it saved is the file, its copy has all that was acknowledged and  *)
(* every count that is still in the window.                                    *)
THEOREM RulesInvHolds == RulesSpec => []RulesInv
<1>1. RulesInit => RulesInv
  BY BaseInit, HistoryInit DEF RulesInv, BaseInv, TornInv, RulesInit
<1>2. RulesInv /\ [RulesNext]_ruleVars => RulesInv'
  BY BaseNext, AnswersNext, KeptNext, GoneNext, StateNext, TornNext DEF RulesInv, BaseInv
<1> QED
  BY <1>1, <1>2, PTL DEF RulesSpec

(* A threshold rule that is reported as triggered had its Count matches in the *)
(* window (rules.py:441-472), however the unlocked evaluations interleave,     *)
(* and whoever crashes.                                                        *)
THEOREM ThresholdIsSoundHolds == RulesSpec => []ThresholdIsSound
<1>1. RulesInv => ThresholdIsSound
  BY DEF RulesInv, CountInv, ThresholdIsSound, Counted
<1> QED
  BY <1>1, RulesInvHolds, PTL

(* As long as no two writers have had the counters at the same time, a rule    *)
(* that reached its count in the window was reported (rules.py:543-554).       *)
THEOREM AloneNoAlarmMissedHolds == RulesSpec => []AloneNoAlarmMissed
<1>1. RulesInv => AloneNoAlarmMissed
  BY DEF RulesInv, StateInv, AloneNoAlarmMissed, Missed, Begun, Spoilt, TornInv, InPlace
<1> QED
  BY <1>1, RulesInvHolds, PTL

(* As long as no two writers have had a file at the same time, everything that *)
(* was acknowledged is in it, whoever crashes (rules.py:113-117); only the     *)
(* connections are missing while their one writer has the file open, or after  *)
(* it died there (siem_providers.py:111).                                      *)
THEOREM AloneNothingLostHolds == RulesSpec => []AloneNothingLost
<1>1. RulesInv => AloneNothingLost
  <2> SUFFICES ASSUME RulesInv
               PROVE  AloneNothingLost
    OBVIOUS
  <2>1. ASSUME NEW k \in kept, k[1] \notin Spoilt, ~InFile(k[1], k[2])
        PROVE  \E p \in Proc : Holds(p, k[1]) /\ job[p].fd = "disk"
    <3>1. PICK f \in Store : \E x : k = <<f, x>>
      BY DEF RulesInv, AnswersInv
    <3>2. PICK x : k = <<f, x>>
      BY <3>1
    <3>3. f \in Store \ Spoilt /\ ~In(f, Load(f), x) /\ <<f, x>> \in kept
      BY <2>1, <3>2 DEF In, InFile
    <3>4. PICK p \in Proc : f \in InPlace /\ Held(job[p], f) /\ job[p].pos = "write"
      BY <3>3 DEF RulesInv, KeptInv
    <3>5. job[p].fd = "disk"
      BY <3>3, <3>4 DEF RulesInv, SoloInv
    <3> QED
      BY <3>2, <3>4, <3>5 DEF Held, Holds
  <2>2. ASSUME NEW e \in returned
        PROVE  \/ "state" \in Spoilt \/ <<"begun", e.rule>> \in dropped
               \/ ~InWindow(e, now) \/ e \in Load("state")
    BY <2>2 DEF RulesInv, StateInv, Begun
  <2>3. \A f : f \in Spoilt => f \in raced \/ f \in InPlace \cap torn
    BY DEF RulesInv, TornInv, Spoilt
  <2>4. "state" \notin InPlace
    BY DEF InPlace
  <2> QED
    BY <2>1, <2>2, <2>3, <2>4 DEF AloneNothingLost
<1> QED
  BY <1>1, RulesInvHolds, PTL

(* As long as no two writers have had the rules at the same time, a rule whose *)
(* deletion was acknowledged is not in the file (rules.py:225-242).            *)
THEOREM AloneDeletedStaysDeletedHolds == RulesSpec => []AloneDeletedStaysDeleted
<1>1. RulesInv => AloneDeletedStaysDeleted
  BY DEF RulesInv, GoneInv, AloneDeletedStaysDeleted, Gone, In, InFile, Spoilt, TornInv, InPlace
<1> QED
  BY <1>1, RulesInvHolds, PTL
=============================================================================
