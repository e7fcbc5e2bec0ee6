------------------------- MODULE ManagerFilesProofs -------------------------
(* Proofs about ManagerFiles: the types, what an approval stores, and that an  *)
(* undisturbed upload keeps what it is not about.                              *)
EXTENDS ManagerFiles, WellFoundedInduction, SequenceTheorems, TLAPS

-----------------------------------------------------------------------------
(* What the merges of local_rules.py return and keep. *)

(* Every entry of f but those with an id in ids is still in g, with its text.  *)
Keeps(f, g, ids) ==
  \A e \in ToSet(f.entries) :
    e.id \notin ids => \E n \in ToSet(g.entries) : n.id = e.id /\ n.text = e.text

(* The first block with an id is one of the file, and has it (_find_rule_      *)
(* block).                                                                     *)
LEMMA FirstIsAPlace ==
  ASSUME NEW f \in Files, NEW id, Has(f, id)
  PROVE  /\ First(f, id) \in 1..Len(f.entries)
         /\ f.entries[First(f, id)].id = id
<1>1. Places(f, id) \in SUBSET Nat /\ Places(f, id) # {}
  BY DEF Places, Has, Files
<1>2. \E i \in Places(f, id) : \A k \in Places(f, id) : i <= k
  <2> DEFINE R == OpToRel(<, Nat)
  <2>1. PICK i \in Places(f, id) : \A k \in Places(f, id) : <<k, i>> \notin R
    <3> HIDE DEF R
    <3> QED
      BY <1>1, WFMin, NatLessThanWellFounded DEF R
  <2>2. \A k \in Places(f, id) : ~ (k < i)
    BY <1>1, <2>1 DEF OpToRel
  <2> QED
    BY <1>1, <2>2
<1>3. First(f, id) \in Places(f, id)
  BY <1>2 DEF First
<1> QED
  BY <1>3 DEF Places

LEMMA UnescapedKeeps ==
  ASSUME NEW e \in Entries
  PROVE  /\ Unescaped(e) \in Entries
         /\ Unescaped(e).id = e.id /\ Unescaped(e).text = e.text
BY DEF Unescaped, Entries

(* A rule or decoder put at the end (_rule_block). *)
LEMMA AppendedKeeps ==
  ASSUME NEW f \in Files, NEW r \in Entries, NEW ids
  PROVE  Appended(f, r) \in Files /\ Keeps(f, Appended(f, r), ids)
<1> DEFINE g == Appended(f, r)
<1>1. /\ g = [f EXCEPT !.entries = Append(f.entries, Unescaped(r))]
      /\ Unescaped(r) \in Entries
  BY UnescapedKeeps DEF Appended
<1>2. /\ g \in Files
      /\ g.entries = Append(f.entries, Unescaped(r))
  BY <1>1 DEF Files
<1>3. \A i \in 1..Len(f.entries) : i \in DOMAIN g.entries /\ g.entries[i] = f.entries[i]
  BY <1>1, <1>2 DEF Files
<1>4. DOMAIN f.entries = 1..Len(f.entries)
  BY DEF Files
<1> QED
  BY <1>2, <1>3, <1>4 DEF Keeps, ToSet

(* A file written from the parsed tree, with the entry at k replaced by r.     *)
LEMMA ReserializedKeeps ==
  ASSUME NEW f \in Files, NEW k \in 1..Len(f.entries), NEW r \in Entries
  PROVE  /\ Serialized(f, [f.entries EXCEPT ![k] = r]) \in Files
         /\ Keeps(f, Serialized(f, [f.entries EXCEPT ![k] = r]), {f.entries[k].id})
<1> DEFINE s == [f.entries EXCEPT ![k] = r]
           g == Serialized(f, s)
<1>1. /\ f.entries \in Seq(Entries)
      /\ s \in Seq(Entries) /\ Len(s) = Len(f.entries)
      /\ \A i \in 1..Len(s) : i # k => s[i] = f.entries[i]
  BY DEF Files
<1>2. g.entries = [i \in 1..Len(s) |-> Unescaped(s[i])]
  BY DEF Serialized, File
<1>3. \A i \in 1..Len(s) : s[i] \in Entries /\ Unescaped(s[i]) \in Entries
  BY <1>1, UnescapedKeeps
<1>4. g.entries \in Seq(Entries)
  BY <1>1, <1>2, <1>3, IsASeq
<1>5. g \in Files
  BY <1>4 DEF Serialized, File, Files, Forms
<1>6. \A i \in 1..Len(f.entries) : f.entries[i].id # f.entries[k].id =>
        /\ i \in DOMAIN g.entries
        /\ g.entries[i].id = f.entries[i].id /\ g.entries[i].text = f.entries[i].text
  <2> SUFFICES ASSUME NEW i \in 1..Len(f.entries), f.entries[i].id # f.entries[k].id
               PROVE  /\ i \in DOMAIN g.entries
                      /\ g.entries[i].id = f.entries[i].id
                      /\ g.entries[i].text = f.entries[i].text
    OBVIOUS
  <2>1. i \in 1..Len(s) /\ s[i] = f.entries[i] /\ f.entries[i] \in Entries
    BY <1>1, <1>3
  <2>2. i \in DOMAIN g.entries /\ g.entries[i] = Unescaped(f.entries[i])
    BY <2>1, <1>2
  <2> QED
    BY <2>1, <2>2, UnescapedKeeps
<1>7. DOMAIN f.entries = 1..Len(f.entries)
  BY <1>1
<1> QED
  BY <1>5, <1>6, <1>7 DEF Keeps, ToSet

(* A block cut out of the text (remove_rule, remove_decoder). *)
LEMMA RemoveAtKeeps ==
  ASSUME NEW s \in Seq(Entries), NEW k \in 1..Len(s)
  PROVE  /\ RemoveAt(s, k) \in Seq(Entries)
         /\ Len(RemoveAt(s, k)) = Len(s) - 1
         /\ \A i \in 1..Len(s) : i # k =>
              \E m \in 1..Len(RemoveAt(s, k)) : RemoveAt(s, k)[m] = s[i]
<1> DEFINE a == SubSeq(s, 1, k - 1)
           b == SubSeq(s, k + 1, Len(s))
<1>1. /\ a \in Seq(Entries) /\ Len(a) = k - 1
      /\ \A i \in 1..(k - 1) : a[i] = s[i]
  BY SubSeqProperties
<1>2. /\ b \in Seq(Entries) /\ Len(b) = Len(s) - k
      /\ \A i \in 1..(Len(s) - k) : b[i] = s[k + i]
  BY SubSeqProperties
<1>3. RemoveAt(s, k) = a \o b
  BY DEF RemoveAt
<1> HIDE DEF a, b
<1>4. /\ a \o b \in Seq(Entries) /\ Len(a \o b) = Len(a) + Len(b)
      /\ \A i \in 1..(Len(a) + Len(b)) : (a \o b)[i] = IF i <= Len(a) THEN a[i] ELSE b[i - Len(a)]
  BY <1>1, <1>2, ConcatProperties
<1>5. ASSUME NEW i \in 1..Len(s), i # k
      PROVE  \E m \in 1..Len(a \o b) : (a \o b)[m] = s[i]
  <2>1. CASE i < k
    <3>1. i \in 1..(k - 1) /\ i \in 1..(Len(a) + Len(b)) /\ i <= Len(a)
      BY <2>1, <1>1, <1>2
    <3> QED
      BY <3>1, <1>1, <1>4
  <2>2. CASE i > k
    <3>1. /\ i - 1 \in 1..(Len(a) + Len(b)) /\ ~(i - 1 <= Len(a))
          /\ i - 1 - Len(a) = i - k /\ i - k \in 1..(Len(s) - k) /\ k + (i - k) = i
      BY <2>2, <1>1, <1>2
    <3> QED
      BY <3>1, <1>2, <1>4
  <2> QED
    BY <1>5, <2>1, <2>2
<1>6. Len(a \o b) = Len(s) - 1
  BY <1>1, <1>2, <1>4
<1>7. \A i \in 1..Len(s) : i # k => \E m \in 1..Len(a \o b) : (a \o b)[m] = s[i]
  BY <1>5
<1> QED
  BY <1>3, <1>4, <1>6, <1>7

LEMMA RemovedKeeps ==
  ASSUME NEW f \in Files, NEW k \in 1..Len(f.entries)
  PROVE  /\ [f EXCEPT !.entries = RemoveAt(f.entries, k)] \in Files
         /\ Keeps(f, [f EXCEPT !.entries = RemoveAt(f.entries, k)], {f.entries[k].id})
<1> DEFINE g == [f EXCEPT !.entries = RemoveAt(f.entries, k)]
<1>1. f.entries \in Seq(Entries) /\ DOMAIN f.entries = 1..Len(f.entries)
  BY DEF Files
<1>2. /\ RemoveAt(f.entries, k) \in Seq(Entries)
      /\ \A i \in 1..Len(f.entries) : i # k =>
           \E m \in 1..Len(RemoveAt(f.entries, k)) : RemoveAt(f.entries, k)[m] = f.entries[i]
  BY <1>1, RemoveAtKeeps
<1>3. g \in Files /\ g.entries = RemoveAt(f.entries, k)
  BY <1>2 DEF Files
<1>4. DOMAIN g.entries = 1..Len(RemoveAt(f.entries, k))
  BY <1>2, <1>3
<1>5. ASSUME NEW e \in ToSet(f.entries), e.id # f.entries[k].id
      PROVE  e \in ToSet(g.entries)
  BY <1>1, <1>2, <1>3, <1>4, <1>5 DEF ToSet
<1> QED
  BY <1>3, <1>5 DEF Keeps

(* A file written from the parsed tree, without the entry at k. *)
LEMMA ReserializedWithoutKeeps ==
  ASSUME NEW f \in Files, NEW k \in 1..Len(f.entries)
  PROVE  /\ Serialized(f, RemoveAt(f.entries, k)) \in Files
         /\ Keeps(f, Serialized(f, RemoveAt(f.entries, k)), {f.entries[k].id})
<1> DEFINE s == RemoveAt(f.entries, k)
           g == Serialized(f, s)
<1>1. f.entries \in Seq(Entries) /\ DOMAIN f.entries = 1..Len(f.entries)
  BY DEF Files
<1>2. /\ s \in Seq(Entries)
      /\ \A i \in 1..Len(f.entries) : i # k => \E m \in 1..Len(s) : s[m] = f.entries[i]
  BY <1>1, RemoveAtKeeps
<1> HIDE DEF s
<1>3. g.entries = [m \in 1..Len(s) |-> Unescaped(s[m])]
  BY DEF Serialized, File
<1>4. \A m \in 1..Len(s) : s[m] \in Entries /\ Unescaped(s[m]) \in Entries
  BY <1>2, UnescapedKeeps
<1>5. g.entries \in Seq(Entries)
  BY <1>2, <1>3, <1>4, IsASeq
<1>6. g \in Files
  BY <1>5 DEF Serialized, File, Files, Forms
<1>7. ASSUME NEW e \in ToSet(f.entries), e.id # f.entries[k].id
      PROVE  \E n \in ToSet(g.entries) : n.id = e.id /\ n.text = e.text
  <2>1. PICK i \in 1..Len(f.entries) : e = f.entries[i] /\ i # k
    BY <1>1, <1>7 DEF ToSet
  <2>2. PICK m \in 1..Len(s) : s[m] = e
    BY <1>2, <2>1
  <2>3. m \in DOMAIN g.entries /\ g.entries[m] = Unescaped(e) /\ e \in Entries
    BY <1>3, <1>4, <2>2
  <2>4. g.entries[m].id = e.id /\ g.entries[m].text = e.text
    BY <2>3, UnescapedKeeps
  <2> QED
    BY <2>3, <2>4 DEF ToSet
<1> QED
  BY <1>6, <1>7 DEF Keeps, s

(* A block replaced in the text (replace_rule). *)
LEMMA ReplacedKeeps ==
  ASSUME NEW f \in Files, NEW k \in 1..Len(f.entries), NEW r \in Entries
  PROVE  /\ [f EXCEPT !.entries = [f.entries EXCEPT ![k] = r]] \in Files
         /\ Keeps(f, [f EXCEPT !.entries = [f.entries EXCEPT ![k] = r]], {f.entries[k].id})
<1> DEFINE s == [f.entries EXCEPT ![k] = r]
           g == [f EXCEPT !.entries = s]
<1>1. /\ f.entries \in Seq(Entries) /\ DOMAIN f.entries = 1..Len(f.entries)
      /\ s \in Seq(Entries) /\ DOMAIN s = 1..Len(f.entries)
      /\ \A i \in 1..Len(f.entries) : i # k => s[i] = f.entries[i]
  BY DEF Files
<1>2. g \in Files /\ g.entries = s
  BY <1>1 DEF Files
<1>3. ASSUME NEW e \in ToSet(f.entries), e.id # f.entries[k].id
      PROVE  e \in ToSet(g.entries)
  BY <1>1, <1>2, <1>3 DEF ToSet
<1> QED
  BY <1>2, <1>3 DEF Keeps

LEMMA KeepsItself ==
  ASSUME NEW f, NEW ids
  PROVE  Keeps(f, f, ids)
BY DEF Keeps

LEMMA KeepsMore ==
  ASSUME NEW f, NEW g, NEW ids, NEW more, ids \subseteq more, Keeps(f, g, ids)
  PROVE  Keeps(f, g, more)
BY DEF Keeps

(* merge_rule: a file that parses keeps every rule with another id. *)
LEMMA MergeRuleKeeps ==
  ASSUME NEW f \in Files, NEW r \in Entries, NEW over \in BOOLEAN
  PROVE  /\ MergeRule(f, r, over) \in Files
         /\ Parses(f) => Keeps(f, MergeRule(f, r, over), {r.id})
<1>1. CASE ~Parses(f)
  <2>1. <<Unescaped(r)>> \in Seq(Entries)
    BY UnescapedKeeps
  <2>2. File("group", TRUE, <<Unescaped(r)>>) \in Files
    BY <2>1 DEF File, Files, Forms
  <2> QED
    BY <1>1, <2>2 DEF MergeRule
<1>2. CASE Parses(f) /\ Has(f, r.id) /\ over
  <2>1. MergeRule(f, r, over) = Serialized(f, [f.entries EXCEPT ![First(f, r.id)] = r])
    BY <1>2 DEF MergeRule
  <2>2. First(f, r.id) \in 1..Len(f.entries) /\ f.entries[First(f, r.id)].id = r.id
    BY <1>2, FirstIsAPlace
  <2> QED
    BY <2>1, <2>2, ReserializedKeeps
<1>3. CASE Parses(f) /\ Has(f, r.id) /\ ~over
  <2>1. MergeRule(f, r, over) = f
    BY <1>3 DEF MergeRule
  <2> QED
    BY <2>1, KeepsItself
<1>4. CASE Parses(f) /\ ~Has(f, r.id)
  <2>1. MergeRule(f, r, over) = IF f.form = "group" THEN Appended(f, r) ELSE f
    BY <1>4 DEF MergeRule
  <2> QED
    BY <2>1, KeepsItself, AppendedKeeps
<1> QED
  BY <1>1, <1>2, <1>3, <1>4

(* merge_decoder keeps every other decoder. *)
LEMMA MergeDecoderKeeps ==
  ASSUME NEW f \in Files, NEW d \in Entries, NEW ids
  PROVE  /\ MergeDecoder(f, d) \in Files
         /\ Keeps(f, MergeDecoder(f, d), ids)
<1>1. Appended(f, d) \in Files /\ Keeps(f, Appended(f, d), ids)
  BY AppendedKeeps
<1>2. /\ [Appended(f, d) EXCEPT !.form = "roots"] \in Files
      /\ [Appended(f, d) EXCEPT !.form = "roots"].entries = Appended(f, d).entries
  BY <1>1 DEF Files, Forms
<1>3. Keeps(f, [Appended(f, d) EXCEPT !.form = "roots"], ids)
  BY <1>1, <1>2 DEF Keeps
<1> QED
  BY <1>1, <1>2, <1>3, KeepsItself DEF MergeDecoder

-----------------------------------------------------------------------------
(* What a tool makes of a file is a file, or nothing; if the file parses, the  *)
(* change keeps every entry it does not name.                                  *)
Sound(f, g, op) ==
  g = Refused \/ (g \in Files /\ (Parses(f) => Keeps(f, g, Named(op))))

LEMMA EditsAreSound ==
  ASSUME NEW f \in Files, NEW op \in Changes
  PROVE  /\ Sound(f, UpdateWazuhRule(f, op), op)
         /\ Sound(f, DeleteWazuhRule(f, op), op)
         /\ Sound(f, ModifyWazuhDecoder(f, op), op)
         /\ Sound(f, DeleteWazuhDecoder(f, op), op)
<1> DEFINE k == First(f, op.id)
<1>1. /\ op.item \in Entries /\ {op.id} \subseteq Named(op)
      /\ Unescaped(op.item) \in Entries
  BY UnescapedKeeps DEF Changes, Named
<1>2. ASSUME Has(f, op.id)
      PROVE  k \in 1..Len(f.entries) /\ f.entries[k].id = op.id
  BY <1>2, FirstIsAPlace
<1> HIDE DEF k
<1>3. ASSUME Has(f, op.id)
      PROVE  Sound(f, [f EXCEPT !.entries = [f.entries EXCEPT ![k] = Unescaped(op.item)]], op)
  BY <1>1, <1>2, <1>3, ReplacedKeeps, KeepsMore DEF Sound
<1>4. ASSUME Has(f, op.id)
      PROVE  Sound(f, [f EXCEPT !.entries = RemoveAt(f.entries, k)], op)
  BY <1>1, <1>2, <1>4, RemovedKeeps, KeepsMore DEF Sound
<1>5. ASSUME Has(f, op.id)
      PROVE  Sound(f, Serialized(f, [f.entries EXCEPT ![k] = op.item]), op)
  <2> DEFINE g == Serialized(f, [f.entries EXCEPT ![k] = op.item])
  <2>1. g \in Files /\ Keeps(f, g, {f.entries[k].id})
    BY <1>1, <1>2, <1>5, ReserializedKeeps
  <2> HIDE DEF g
  <2>2. Keeps(f, g, Named(op))
    BY <1>1, <1>2, <1>5, <2>1, KeepsMore
  <2> QED
    BY <2>1, <2>2 DEF Sound, g
<1>6. Sound(f, UpdateWazuhRule(f, op), op)
  <2>1. ReplaceRule(f, op.id, op.item)
          = [f EXCEPT !.entries = [f.entries EXCEPT ![k] = Unescaped(op.item)]]
    BY DEF ReplaceRule, k
  <2> QED
    BY <1>3, <2>1 DEF UpdateWazuhRule, Sound
<1>7. Sound(f, DeleteWazuhRule(f, op), op)
  BY <1>4 DEF DeleteWazuhRule, RemoveRule, Sound, k
<1>8. Sound(f, ModifyWazuhDecoder(f, op), op)
  BY <1>5 DEF ModifyWazuhDecoder, ReplaceDecoder, Editable, Sound, k
<1>9. ASSUME Has(f, op.id)
      PROVE  Sound(f, Serialized(f, RemoveAt(f.entries, k)), op)
  <2> DEFINE g == Serialized(f, RemoveAt(f.entries, k))
  <2>1. g \in Files /\ Keeps(f, g, {f.entries[k].id})
    BY <1>2, <1>9, ReserializedWithoutKeeps
  <2> HIDE DEF g
  <2>2. Keeps(f, g, Named(op))
    BY <1>1, <1>2, <1>9, <2>1, KeepsMore
  <2> QED
    BY <2>1, <2>2 DEF Sound, g
<1>10. Sound(f, DeleteWazuhDecoder(f, op), op)
  BY <1>9 DEF DeleteWazuhDecoder, RemoveDecoder, Editable, Sound, k
<1> QED
  BY <1>6, <1>7, <1>8, <1>10

LEMMA MergesAreSound ==
  ASSUME NEW f \in Files, NEW op \in Changes
  PROVE  Sound(f, Merged(f, op), op)
<1>1. /\ op.item \in Entries /\ op.over \in BOOLEAN /\ op.kind \in Kinds
      /\ {op.item.id} \subseteq Named(op)
  BY DEF Changes, Named
<1>2. ASSUME NEW over \in BOOLEAN
      PROVE  /\ MergeRule(f, op.item, over) \in Files
             /\ Parses(f) => Keeps(f, MergeRule(f, op.item, over), Named(op))
  BY <1>1, MergeRuleKeeps, KeepsMore
<1>3. \A over \in BOOLEAN : Sound(f, MergeRule(f, op.item, over), op)
  BY <1>2 DEF Sound
<1>4. Sound(f, CreateWazuhRule(f, op), op) /\ Sound(f, TestWazuhRule(f, op), op)
  BY <1>1, <1>3 DEF CreateWazuhRule, TestWazuhRule, Changed, Sound
<1>5. Sound(f, DevelopRule(f, op), op)
  BY <1>3 DEF DevelopRule, Changed, Sound
<1>6. Sound(f, CreateWazuhDecoder(f, op), op)
  <2>1. Sound(f, MergeDecoder(f, op.item), op)
    BY <1>1, MergeDecoderKeeps DEF Sound
  <2> QED
    BY <2>1 DEF CreateWazuhDecoder, Changed, Sound
<1>7. Sound(f, f, op)
  BY KeepsItself DEF Sound
<1> QED
  BY <1>1, <1>4, <1>5, <1>6, <1>7, EditsAreSound DEF Merged, Kinds

-----------------------------------------------------------------------------
(* The inductive invariant: until it has uploaded, a job has stored nothing    *)
(* and reports nothing, and what it is about to upload is a sound change of    *)
(* the file it fetched.                                                        *)
JobsInv ==
  \A j \in Job :
    /\ jobs[j].pos \in {"proposed", "merged"} => jobs[j].puts = 0
    /\ jobs[j].pos # "idle" => jobs[j].result = "none"
    /\ jobs[j].result = "executed" => jobs[j].puts = 1
    /\ jobs[j].pos = "merged" =>
         /\ jobs[j].base \in Files /\ jobs[j].new \in Files
         /\ Sound(jobs[j].base, jobs[j].new, jobs[j].op)

ManagerInv == FilesTypeOK /\ JobsInv

Jobs == [pos : Positions, op : Changes, base : Files \cup {Refused},
         new : Files \cup {Refused}, attempt : {0, 1}, puts : {0, 1}, result : Results]

(* A job in the state JobsInv asks of every job. *)
Fit(job) ==
  /\ job.pos \in {"proposed", "merged"} => job.puts = 0
  /\ job.pos # "idle" => job.result = "none"
  /\ job.result = "executed" => job.puts = 1
  /\ job.pos = "merged" =>
       /\ job.base \in Files /\ job.new \in Files
       /\ Sound(job.base, job.new, job.op)

LEMMA RefusedIsNoFile == Refused \notin Files
BY DEF Refused, File, Files, Forms

LEMMA FileIsOne ==
  ASSUME files \in [rules : Files, decoders : Files], NEW op \in Changes
  PROVE  files[FileOf(op)] \in Files
BY DEF FileOf

LEMMA IdleIsFit == Idle \in Jobs /\ Fit(Idle)
<1>1. NoOperation \in Changes
  BY ManagerAssumption DEF NoOperation, Changes, Entry, Entries, Kinds, Texts
<1> QED
  BY <1>1 DEF Idle, Jobs, Fit, Positions, Results

(* It is enough to look at the one job a step changes. *)
LEMMA OneJob ==
  ASSUME JobsInv, jobs \in [Job -> Jobs], NEW j \in Job, NEW job \in Jobs, Fit(job), SetJob(j, job)
  PROVE  jobs' \in [Job -> Jobs] /\ JobsInv'
<1>1. jobs' \in [Job -> Jobs] /\ \A k \in Job : jobs'[k] = IF k = j THEN job ELSE jobs[k]
  BY DEF SetJob
<1>2. \A k \in Job : Fit(jobs[k])
  BY DEF JobsInv, Fit
<1>3. \A k \in Job : Fit(jobs'[k])
  BY <1>1, <1>2
<1>4. JobsInv'
  BY <1>3 DEF JobsInv, Fit
<1> QED
  BY <1>1, <1>4

(* A job that ends with a report. *)
LEMMA EndedIsFit ==
  ASSUME NEW job \in Jobs, NEW result \in Results, result = "executed" => job.puts = 1
  PROVE  Ended(job, result) \in Jobs /\ Fit(Ended(job, result))
BY DEF Ended, Jobs, Fit, Positions, Results

LEMMA InvHoldsFirst == ManagerInit => ManagerInv
<1> SUFFICES ASSUME ManagerInit PROVE ManagerInv
  OBVIOUS
<1>1. files \in [rules : Files, decoders : Files] /\ loaded \in Seq(Entries)
  BY ManagerAssumption DEF ManagerInit, Files
<1>2. jobs \in [Job -> Jobs] /\ \A j \in Job : Fit(jobs[j])
  BY IdleIsFit DEF ManagerInit
<1>3. started \in 0..MaxJobs
  BY ManagerAssumption DEF ManagerInit
<1> QED
  BY <1>1, <1>2, <1>3 DEF ManagerInv, FilesTypeOK, JobsInv, Fit, Jobs

(* What a tool merges is fit for the approver and for the upload. *)
LEMMA MergedIsFit ==
  ASSUME files \in [rules : Files, decoders : Files], NEW job \in Jobs,
         Fit(job), job.pos = "proposed",
         NEW f \in Files, NEW new, new = Merged(f, job.op), new # Refused
  PROVE  /\ [job EXCEPT !.pos = "merged", !.base = f, !.new = new] \in Jobs
         /\ Fit([job EXCEPT !.pos = "merged", !.base = f, !.new = new])
<1>1. job.op \in Changes
  BY DEF Jobs
<1>2. Sound(f, new, job.op)
  BY <1>1, MergesAreSound
<1>3. new \in Files
  BY <1>2 DEF Sound
<1> QED
  BY <1>2, <1>3 DEF Jobs, Fit, Positions

LEMMA ProposalIsFit ==
  ASSUME NEW op \in Changes, NEW f \in Files, NEW new \in Files
  PROVE  /\ [Idle EXCEPT !.pos = "proposed", !.op = Stored(op), !.base = f, !.new = new] \in Jobs
         /\ Fit([Idle EXCEPT !.pos = "proposed", !.op = Stored(op), !.base = f, !.new = new])
<1>1. Stored(op) \in Changes
  BY DEF Stored, Changes, Kinds
<1> QED
  BY <1>1, IdleIsFit DEF Jobs, Fit, Positions, Idle

(* The manager takes an upload. *)
LEMMA TakenIsTyped ==
  ASSUME files \in [rules : Files, decoders : Files], loaded \in Seq(Entries),
         NEW job \in Jobs, job.new \in Files, Takes(job)
  PROVE  files' \in [rules : Files, decoders : Files] /\ loaded' \in Seq(Entries)
<1>1. files.rules \in Files /\ files.rules.entries \in Seq(Entries)
  BY DEF Files
<1>2. CASE job.op.kind = "restart"
  BY <1>1, <1>2 DEF Takes
<1>3. CASE job.op.kind # "restart"
  BY <1>3 DEF Takes, FileOf
<1> QED
  BY <1>2, <1>3

LEMMA UploadedIsFit ==
  ASSUME NEW job \in Jobs, Fit(job), job.pos = "merged"
  PROVE  LET up == [job EXCEPT !.puts = @ + 1]
         IN  /\ up \in Jobs /\ up.puts = 1 /\ up.new = job.new /\ up.op = job.op
             /\ AfterUpload(up) \in Jobs /\ Fit(AfterUpload(up))
<1> DEFINE up == [job EXCEPT !.puts = @ + 1]
<1>1. up \in Jobs /\ up.puts = 1 /\ up.new = job.new /\ up.op = job.op /\ up.result = "none"
  BY DEF Jobs, Fit
<1> HIDE DEF up
<1>2. Ended(up, "executed") \in Jobs /\ Fit(Ended(up, "executed"))
  BY <1>1, EndedIsFit DEF Results
<1>3. [up EXCEPT !.pos = "staged"] \in Jobs /\ Fit([up EXCEPT !.pos = "staged"])
  BY <1>1 DEF Jobs, Fit, Positions
<1>4. AfterUpload(up) \in Jobs /\ Fit(AfterUpload(up))
  BY <1>2, <1>3 DEF AfterUpload
<1> QED
  BY <1>1, <1>4 DEF up

LEMMA InvIsKept == ManagerInv /\ [ManagerNext]_managerVars => ManagerInv'
<1> SUFFICES ASSUME ManagerInv, [ManagerNext]_managerVars PROVE ManagerInv'
  OBVIOUS
<1>1. /\ files \in [rules : Files, decoders : Files] /\ loaded \in Seq(Entries)
      /\ started \in 0..MaxJobs /\ jobs \in [Job -> Jobs] /\ JobsInv
  BY DEF ManagerInv, FilesTypeOK, Jobs
<1>2. \A j \in Job : jobs[j] \in Jobs /\ Fit(jobs[j]) /\ jobs[j].op \in Changes
  BY <1>1 DEF JobsInv, Fit, Jobs
<1>3. SUFFICES /\ files' \in [rules : Files, decoders : Files] /\ loaded' \in Seq(Entries)
               /\ started' \in 0..MaxJobs /\ jobs' \in [Job -> Jobs] /\ JobsInv'
  BY DEF ManagerInv, FilesTypeOK, Jobs
<1>4. CASE UNCHANGED managerVars
  BY <1>1, <1>4 DEF managerVars, JobsInv
<1>5. CASE ManagerNext
  <2> PICK j \in Job :
        \/ \E op \in Operations : Propose(j, op)
        \/ Execute(j) \/ FetchFails(j)
        \/ Accepted(j) \/ AnswerLost(j) \/ RejectedInBody(j) \/ RequestFails(j)
        \/ Unauthorized(j) \/ Logtest(j)
    BY <1>5 DEF ManagerNext
  <2> DEFINE job == jobs[j]
  <2>0. job \in Jobs /\ Fit(job) /\ job.op \in Changes /\ Ended(job, "failed") \in Jobs /\ Fit(Ended(job, "failed"))
    BY <1>2, EndedIsFit DEF Results
  <2>1. ASSUME NEW op \in Operations, Propose(j, op)
        PROVE  <1>3!1
    <3> DEFINE f == files[FileOf(op)]
               new == Merged(f, op)
               next == [Idle EXCEPT !.pos = "proposed", !.op = Stored(op), !.base = f, !.new = new]
    <3>1. op \in Changes /\ f \in Files
      BY <1>1, ManagerAssumption, FileIsOne
    <3>2. new # Refused /\ SetJob(j, next) /\ UNCHANGED <<files, loaded>>
          /\ started < MaxJobs /\ started' = started + 1
      BY <2>1 DEF Propose
    <3>3. new \in Files
      BY <3>1, <3>2, MergesAreSound DEF Sound
    <3> HIDE DEF f, new
    <3>4. next \in Jobs /\ Fit(next)
      BY <3>1, <3>3, ProposalIsFit
    <3> HIDE DEF next
    <3>5. jobs' \in [Job -> Jobs] /\ JobsInv'
      BY <1>1, <3>2, <3>4, OneJob
    <3>6. started' \in 0..MaxJobs
      BY <1>1, <3>2, ManagerAssumption
    <3> QED
      BY <1>1, <3>2, <3>5, <3>6
  <2>2. CASE Execute(j)
    <3> DEFINE f == files[FileOf(job.op)]
               new == Merged(f, job.op)
               next == IF new = Refused THEN Ended(job, "failed")
                       ELSE IF job.op.kind = "test" /\ new = f THEN [job EXCEPT !.pos = "staged"]
                       ELSE [job EXCEPT !.pos = "merged", !.base = f, !.new = new]
    <3>1. f \in Files
      BY <1>1, <2>0, FileIsOne
    <3>2. job.pos = "proposed" /\ SetJob(j, next) /\ UNCHANGED <<files, loaded, started>>
      BY <2>2 DEF Execute
    <3>3. [job EXCEPT !.pos = "staged"] \in Jobs /\ Fit([job EXCEPT !.pos = "staged"])
      BY <2>0, <3>2 DEF Jobs, Fit, Positions
    <3>4. next \in Jobs /\ Fit(next)
      BY <1>1, <2>0, <3>1, <3>2, <3>3, MergedIsFit
    <3> HIDE DEF next
    <3>5. jobs' \in [Job -> Jobs] /\ JobsInv'
      BY <1>1, <3>2, <3>4, OneJob
    <3> QED
      BY <1>1, <3>2, <3>5
  <2>3. CASE FetchFails(j) \/ RejectedInBody(j) \/ RequestFails(j)
    <3>1. SetJob(j, Ended(job, "failed")) /\ UNCHANGED <<files, loaded, started>>
      BY <2>3 DEF FetchFails, RejectedInBody, InBodyError, RequestFails
    <3>2. jobs' \in [Job -> Jobs] /\ JobsInv'
      BY <1>1, <2>0, <3>1, OneJob
    <3> QED
      BY <1>1, <3>1, <3>2
  <2>4. CASE Accepted(j) \/ AnswerLost(j)
    <3> DEFINE up == [job EXCEPT !.puts = @ + 1]
    <3>1. /\ job.pos = "merged" /\ Takes(up) /\ UNCHANGED started
          /\ SetJob(j, AfterUpload(up)) \/ SetJob(j, Ended(up, "failed"))
      BY <2>4 DEF Accepted, AnswerLost, LostAnswer, Uploading
    <3>2. /\ up \in Jobs /\ up.new = job.new
          /\ AfterUpload(up) \in Jobs /\ Fit(AfterUpload(up))
      BY <2>0, <3>1, UploadedIsFit
    <3>3. job.new \in Files
      BY <2>0, <3>1 DEF Fit
    <3> HIDE DEF up
    <3>4. Ended(up, "failed") \in Jobs /\ Fit(Ended(up, "failed"))
      BY <3>2, EndedIsFit DEF Results
    <3>5. jobs' \in [Job -> Jobs] /\ JobsInv'
      BY <1>1, <3>1, <3>2, <3>4, OneJob
    <3>6. files' \in [rules : Files, decoders : Files] /\ loaded' \in Seq(Entries)
      BY <1>1, <3>1, <3>2, <3>3, TakenIsTyped
    <3> QED
      BY <1>1, <3>1, <3>5, <3>6
  <2>5. CASE Unauthorized(j)
    <3> DEFINE next == [job EXCEPT !.attempt = 1]
    <3>1. SetJob(j, next) /\ UNCHANGED <<files, loaded, started>>
      BY <2>5 DEF Unauthorized
    <3>2. next \in Jobs /\ Fit(next)
      BY <2>0 DEF Jobs, Fit
    <3> HIDE DEF next
    <3>3. jobs' \in [Job -> Jobs] /\ JobsInv'
      BY <1>1, <3>1, <3>2, OneJob
    <3> QED
      BY <1>1, <3>1, <3>3
  <2>6. CASE Logtest(j)
    <3>1. PICK result \in {"tested", "not matched"} :
            SetJob(j, Ended(job, result)) /\ UNCHANGED <<files, loaded, started>>
      BY <2>6 DEF Logtest
    <3>2. Ended(job, result) \in Jobs /\ Fit(Ended(job, result))
      BY <2>0, EndedIsFit DEF Results
    <3>3. jobs' \in [Job -> Jobs] /\ JobsInv'
      BY <1>1, <3>1, <3>2, OneJob
    <3> QED
      BY <1>1, <3>1, <3>3
  <2> QED
    BY <2>1, <2>2, <2>3, <2>4, <2>5, <2>6
<1> QED
  BY <1>4, <1>5

-----------------------------------------------------------------------------
(* The files, what the manager loaded and the changes in progress keep their   *)
(* types, for any number of jobs and any changes (local_rules.py, api_client.  *)
(* py).                                                                        *)
THEOREM FilesKeepTheirTypes == ManagerSpec => []FilesTypeOK
<1>1. ManagerInv => FilesTypeOK
  BY DEF ManagerInv
<1> QED
  BY <1>1, InvHoldsFirst, InvIsKept, PTL DEF ManagerSpec

(* What is reported as executed was stored, and one approval stores at most    *)
(* once, for any number of concurrent jobs and any refused, lost or repeated   *)
(* answers (api_client.py, WazuhManagerAPI.request).                           *)
THEOREM ReportsAreTrue == ManagerSpec => []ReportedIsStored
<1>1. ManagerInv => ReportedIsStored
  <2> SUFFICES ASSUME ManagerInv, NEW j \in Job
               PROVE  jobs[j].puts <= 1 /\ (jobs[j].result = "executed" => jobs[j].puts = 1)
    BY DEF ReportedIsStored
  <2>1. jobs[j].puts \in {0, 1}
    BY DEF ManagerInv, FilesTypeOK
  <2> QED
    BY <2>1 DEF ManagerInv, JobsInv
<1> QED
  BY <1>1, InvHoldsFirst, InvIsKept, PTL DEF ManagerSpec

(* An upload into the file it was merged from keeps every rule and decoder it  *)
(* does not name, whatever the file holds, provided an XML parser accepts it   *)
(* (local_rules.py, "keeps that merge lossless").                              *)
THEOREM UndisturbedUploadsKeepOthers == ManagerSpec => AloneOthersKept
<1> DEFINE Kept == \A j \in Job : Stores(j) /\ Undisturbed(j) /\ Parses(jobs[j].base) => KeepsOthers(j)
<1>1. ManagerInv /\ [ManagerNext]_managerVars => [Kept]_managerVars
  <2> SUFFICES ASSUME ManagerInv, ManagerNext, NEW j \in Job,
                      Stores(j), Undisturbed(j), Parses(jobs[j].base)
               PROVE  KeepsOthers(j)
    OBVIOUS
  <2>1. jobs \in [Job -> Jobs] /\ JobsInv /\ files \in [rules : Files, decoders : Files]
    BY DEF ManagerInv, FilesTypeOK, Jobs
  <2>2. Fit(jobs[j]) /\ jobs[j] \in Jobs /\ jobs[j].op \in Changes
    BY <2>1 DEF JobsInv, Fit, Jobs
  <2>3. jobs[j].pos = "merged" /\ Takes([jobs[j] EXCEPT !.puts = @ + 1])
    <3> PICK k \in Job :
          \/ \E op \in Operations : Propose(k, op)
          \/ Execute(k) \/ FetchFails(k)
          \/ Accepted(k) \/ AnswerLost(k) \/ RejectedInBody(k) \/ RequestFails(k)
          \/ Unauthorized(k) \/ Logtest(k)
      BY DEF ManagerNext
    <3> DEFINE job == jobs[k]
    <3>1. /\ job \in Jobs /\ job.puts \in {0, 1} /\ jobs[j].puts \in {0, 1}
          /\ jobs'[j].puts > jobs[j].puts
      BY <2>1 DEF Jobs, Stores
    <3>2. ASSUME NEW next, SetJob(k, next)
          PROVE  j = k /\ next.puts > job.puts
      BY <2>1, <3>1, <3>2 DEF SetJob
    <3>3. CASE Accepted(k) \/ AnswerLost(k)
      <4>1. /\ job.pos = "merged" /\ Takes([job EXCEPT !.puts = @ + 1])
            /\ \E next : SetJob(k, next)
        BY <3>3 DEF Accepted, AnswerLost, Uploading
      <4> QED
        BY <3>2, <4>1
    <3>4. CASE \E op \in Operations : Propose(k, op)
      <4>1. PICK op \in Operations : Propose(k, op)
        BY <3>4
      <4> DEFINE new == Merged(files[FileOf(op)], op)
                 next == [Idle EXCEPT !.pos = "proposed", !.op = Stored(op),
                                      !.base = files[FileOf(op)], !.new = new]
      <4>2. SetJob(k, next)
        BY <4>1 DEF Propose
      <4>3. next.puts = 0
        BY DEF Idle
      <4>4. \E first : SetJob(k, first) /\ first.puts = 0
        BY <4>2, <4>3
      <4> HIDE DEF new, next
      <4>5. PICK first : SetJob(k, first) /\ first.puts = 0
        BY <4>4
      <4>6. 0 > job.puts
        BY <3>2, <4>5
      <4> QED
        BY <3>1, <4>6
    <3>5. CASE \/ Execute(k) \/ FetchFails(k) \/ RejectedInBody(k) \/ RequestFails(k)
               \/ Unauthorized(k) \/ Logtest(k)
      <4>1. \E next : SetJob(k, next) /\ next.puts = job.puts
        <5>1. \A result : Ended(job, result).puts = job.puts
          BY <3>1 DEF Ended, Jobs
        <5>2. \A f, new : /\ [job EXCEPT !.pos = "merged", !.base = f, !.new = new].puts = job.puts
                          /\ [job EXCEPT !.pos = "staged"].puts = job.puts
                          /\ [job EXCEPT !.attempt = 1].puts = job.puts
          BY <3>1 DEF Jobs
        <5>3. CASE Execute(k)
          <6> DEFINE f == files[FileOf(job.op)]
                     new == Merged(f, job.op)
                     next == IF new = Refused THEN Ended(job, "failed")
                             ELSE IF job.op.kind = "test" /\ new = f
                                  THEN [job EXCEPT !.pos = "staged"]
                                  ELSE [job EXCEPT !.pos = "merged", !.base = f, !.new = new]
          <6>1. SetJob(k, next)
            BY <5>3 DEF Execute
          <6>2. next.puts = job.puts
            BY <5>1, <5>2
          <6> QED
            BY <6>1, <6>2
        <5>4. CASE FetchFails(k) \/ RejectedInBody(k) \/ RequestFails(k) \/ Logtest(k)
          BY <5>1, <5>4 DEF FetchFails, RejectedInBody, InBodyError, RequestFails, Logtest
        <5>5. CASE Unauthorized(k)
          BY <5>2, <5>5 DEF Unauthorized
        <5> QED
          BY <3>5, <5>3, <5>4, <5>5
      <4> QED
        BY <3>1, <3>2, <4>1
    <3> QED
      BY <3>3, <3>4, <3>5
  <2>4. files' = [files EXCEPT ![FileOf(jobs[j].op)] = jobs[j].new]
    BY <2>2, <2>3 DEF Takes, Stores, Jobs
  <2>5. files'[FileOf(jobs[j].op)] = jobs[j].new
    BY <2>1, <2>4 DEF FileOf
  <2>6. Keeps(jobs[j].base, jobs[j].new, Named(jobs[j].op))
    BY <2>2, <2>3, RefusedIsNoFile DEF Fit, Sound
  <2> QED
    BY <2>5, <2>6 DEF KeepsOthers, Keeps, Undisturbed
<1> QED
  BY <1>1, InvHoldsFirst, InvIsKept, PTL DEF ManagerSpec, AloneOthersKept
=============================================================================
