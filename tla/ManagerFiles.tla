---------------------------- MODULE ManagerFiles ----------------------------
(* The rules and decoders files of a Wazuh manager, local_rules.xml and        *)
(* local_decoder.xml, and the tools that change them: each fetches the file,   *)
(* merges one rule or decoder into it (tools/wazuh/local_rules.py), shows the  *)
(* approver the difference and, run with the approval, fetches and merges      *)
(* again and uploads the whole file (tools/wazuh/rules.py, decoders.py,        *)
(* tools/api_client.py).  The manager keeps no lock and takes the last upload. *)
EXTENDS Integers, SequencesExt

CONSTANTS
  Id,           \* ids of rules and names of decoders; 0 names nothing
  Job,          \* who may propose and execute a change, each one at a time
  Operations,   \* the changes: [kind, id, item, over], see below
  FirstFiles,   \* the files a manager may start with: [rules, decoders]
  MaxJobs       \* bounds the changes of a behaviour

VARIABLES
  files,    \* [rules, decoders] as stored on the manager
  loaded,   \* the rules the running manager has loaded
  jobs,     \* the change each job is at
  started   \* how many changes were started, for the bound

managerVars == <<files, loaded, jobs, started>>

(* A file is its form, whether it has comments, and its entries.  An entry may *)
(* hold an ampersand, as the XML entity or raw; a raw one is no XML.  Forms:   *)
(*   missing  the manager answers "not found"                                  *)
(*   group    one <group> whose closing tag is on a line of its own            *)
(*   closed   one <group> whose closing tag is not                             *)
(*   many     several <group> elements, which the manager takes and an XML     *)
(*            parser does not                                                  *)
(*   roots    <decoder> elements one after the other                           *)
(*   wrapped  <decoder> elements in one <decoders>                             *)
Entry(id, text, amp) == [id |-> id, text |-> text, amp |-> amp]
File(form, notes, entries) == [form |-> form, notes |-> notes, entries |-> entries]

Texts == {"old", "new", "newer"}
Forms == {"missing", "group", "closed", "many", "roots", "wrapped"}
Kinds == {"create", "update", "delete", "test", "develop", "decoder", "modify", "remove", "restart"}

Entries == [id : Id, text : Texts, amp : {"no", "entity", "raw"}]
Files == [form : Forms, notes : BOOLEAN, entries : Seq(Entries)]
Changes == [kind : Kinds, id : Id, item : Entries, over : BOOLEAN]

ASSUME ManagerAssumption ==
  /\ 0 \in Id
  /\ Operations \subseteq Changes
  /\ FirstFiles \subseteq [rules : Files, decoders : Files]
  /\ MaxJobs \in Nat

FileOf(op) == IF op.kind \in {"decoder", "modify", "remove"} THEN "decoders" ELSE "rules"

-----------------------------------------------------------------------------
(* local_rules.py.  What is written from parsed XML has its entities raw, and  *)
(* a file written that way has lost its comments.                              *)
Unescaped(e) == [e EXCEPT !.amp = IF @ = "entity" THEN "raw" ELSE @]
WellFormed(f) == \A i \in 1..Len(f.entries) : f.entries[i].amp # "raw"
Parses(f) == f.form \in {"group", "closed", "wrapped"} /\ WellFormed(f)

Places(f, id) == {i \in 1..Len(f.entries) : f.entries[i].id = id}
Has(f, id) == Places(f, id) # {}
First(f, id) == CHOOSE i \in Places(f, id) : \A k \in Places(f, id) : i <= k

SerializedShort(f, entries) ==
  File(f.form, FALSE, [i \in 1..(Len(entries) - 1) |-> Unescaped(entries[i])])

Serialized(f, entries) ==
  File(IF f.form = "wrapped" THEN "wrapped" ELSE "group", FALSE,
       [i \in 1..Len(entries) |-> Unescaped(entries[i])])

Appended(f, r) == [f EXCEPT !.entries = Append(@, Unescaped(r))]

(* A rule that is there is replaced only with "overwrite"; a new one goes      *)
(* before the closing tag.  A file that does not parse is taken for an empty   *)
(* one.                                                                        *)
MergeRule(f, r, over) ==
  IF ~Parses(f) THEN File("group", TRUE, <<Unescaped(r)>>)
  ELSE IF Has(f, r.id)
       THEN IF over
            THEN Serialized(f, [f.entries EXCEPT ![First(f, r.id)] = r])
            ELSE f
       ELSE IF f.form = "group" THEN Appended(f, r) ELSE f

(* The two below work on the text: the first block with the id, in a file of   *)
(* any form.  The new block may have another id.                               *)
ReplaceRule(f, id, r) == [f EXCEPT !.entries[First(f, id)] = Unescaped(r)]
RemoveRule(f, id) == [f EXCEPT !.entries = RemoveAt(@, First(f, id))]

(* Decoders are found among the children of the one element the file is, so    *)
(* only in a wrapped file; a file without wrapper just grows.                  *)
MergeDecoder(f, d) ==
  IF Parses(f) THEN IF Has(f, d.id) THEN f ELSE Appended(f, d)
  ELSE [Appended(f, d) EXCEPT !.form = "roots"]

Editable(f, name) == Parses(f) /\ Has(f, name)
ReplaceDecoder(f, name, d) == Serialized(f, [f.entries EXCEPT ![First(f, name)] = d])
RemoveDecoder(f, name) == Serialized(f, RemoveAt(f.entries, First(f, name)))

-----------------------------------------------------------------------------
(* What each tool makes of the file it fetched; "refused" is a ToolError.      *)
Refused == File("refused", FALSE, <<>>)
Changed(f, new) == IF new = f THEN Refused ELSE new

CreateWazuhRule(f, op) == Changed(f, MergeRule(f, op.item, op.over))
UpdateWazuhRule(f, op) == IF Has(f, op.id) THEN ReplaceRule(f, op.id, op.item) ELSE Refused
DeleteWazuhRule(f, op) == IF Has(f, op.id) THEN RemoveRule(f, op.id) ELSE Refused

(* test_wazuh_rule stages its candidate; one that is there already is not      *)
(* written again.                                                              *)
TestWazuhRule(f, op) == MergeRule(f, op.item, TRUE)

(* develop_wazuh_rule: its id must be free in the rules the manager loaded.    *)
(* What it proposes is a create_wazuh_rule: the approval runs that one.        *)
DevelopRule(f, op) ==
  IF \E i \in 1..Len(loaded) : loaded[i].id = op.item.id
  THEN Refused
  ELSE Changed(f, MergeRule(f, op.item, FALSE))

Stored(op) == IF op.kind = "develop" THEN [op EXCEPT !.kind = "create", !.over = FALSE] ELSE op

CreateWazuhDecoder(f, op) ==
  IF ~op.over /\ Has(f, op.item.id) THEN Refused ELSE Changed(f, MergeDecoder(f, op.item))
ModifyWazuhDecoder(f, op) ==
  IF Editable(f, op.id) THEN ReplaceDecoder(f, op.id, op.item) ELSE Refused
DeleteWazuhDecoder(f, op) ==
  IF Editable(f, op.id) THEN RemoveDecoder(f, op.id) ELSE Refused

Merged(f, op) ==
  CASE op.kind = "create"  -> CreateWazuhRule(f, op)
    [] op.kind = "update"  -> UpdateWazuhRule(f, op)
    [] op.kind = "delete"  -> DeleteWazuhRule(f, op)
    [] op.kind = "test"    -> TestWazuhRule(f, op)
    [] op.kind = "develop" -> DevelopRule(f, op)
    [] op.kind = "decoder" -> CreateWazuhDecoder(f, op)
    [] op.kind = "modify"  -> ModifyWazuhDecoder(f, op)
    [] op.kind = "remove"  -> DeleteWazuhDecoder(f, op)
    [] op.kind = "restart" -> f

-----------------------------------------------------------------------------
NoOperation == [kind |-> "restart", id |-> 0, item |-> Entry(0, "old", "no"), over |-> FALSE]
Idle == [pos |-> "idle", op |-> NoOperation, base |-> Refused, new |-> Refused,
         attempt |-> 0, puts |-> 0, result |-> "none"]

ManagerInit ==
  /\ files \in FirstFiles
  /\ loaded = files.rules.entries
  /\ jobs = [j \in Job |-> Idle]
  /\ started = 0

SetJob(j, job) == jobs' = [jobs EXCEPT ![j] = job]
Ended(job, result) == [job EXCEPT !.pos = "idle", !.result = result]

(* The tool runs without an approval: what it would write goes to the approver *)
(* as generated_config and diff.                                               *)
Propose(j, op) ==
  LET f == files[FileOf(op)]
      new == Merged(f, op)
  IN /\ jobs[j].pos = "idle"
     /\ started < MaxJobs
     /\ new # Refused
     /\ op.kind = "test" => new # f
     /\ started' = started + 1
     /\ SetJob(j, [Idle EXCEPT !.pos = "proposed", !.op = Stored(op), !.base = f, !.new = new])
     /\ UNCHANGED <<files, loaded>>

(* The approved proposal is executed: the tool fetches and merges again, in    *)
(* whatever the file is by now; a file it cannot fetch is a failure.           *)
Execute(j) ==
  LET job == jobs[j]
      f == files[FileOf(job.op)]
      new == Merged(f, job.op)
  IN /\ job.pos = "proposed"
     /\ SetJob(j, IF new = Refused THEN Ended(job, "failed")
                  ELSE IF job.op.kind = "test" /\ new = f THEN [job EXCEPT !.pos = "staged"]
                  ELSE [job EXCEPT !.pos = "merged", !.base = f, !.new = new])
     /\ UNCHANGED <<files, loaded, started>>

FetchFails(j) ==
  /\ jobs[j].pos = "proposed"
  /\ SetJob(j, Ended(jobs[j], "failed"))
  /\ UNCHANGED <<files, loaded, started>>

(* The manager takes a request: it stores the file, or restarts with the files *)
(* it has.                                                                     *)
Takes(job) ==
  IF job.op.kind = "restart"
  THEN loaded' = files.rules.entries /\ UNCHANGED files
  ELSE files' = [files EXCEPT ![FileOf(job.op)] = job.new] /\ UNCHANGED loaded

AfterUpload(job) ==
  IF job.op.kind = "test" THEN [job EXCEPT !.pos = "staged"] ELSE Ended(job, "executed")

(* A refusal inside an answer with status 200 is an error (raise_for_inbody_   *)
(* error), like one with status 400 or more.                                   *)
InBodyErrorPassed(job) == AfterUpload(job)
InBodyError(job) == Ended(job, "failed")

(* WazuhManagerAPI.request: the upload and the restart.  Only a 401 of the     *)
(* first attempt is tried again, with a new token.                             *)
Uploading(j) == jobs[j].pos = "merged"

Accepted(j) ==
  LET job == [jobs[j] EXCEPT !.puts = @ + 1]
  IN /\ Uploading(j)
     /\ Takes(job)
     /\ SetJob(j, AfterUpload(job))
     /\ UNCHANGED started

(* The manager did it, the answer did not arrive. *)
LostAnswerRetried(job) ==
  IF job.attempt = 0 THEN [job EXCEPT !.attempt = 1] ELSE Ended(job, "failed")
LostAnswer(job) == Ended(job, "failed")

AnswerLost(j) ==
  LET job == [jobs[j] EXCEPT !.puts = @ + 1]
  IN /\ Uploading(j)
     /\ Takes(job)
     /\ SetJob(j, LostAnswer(job))
     /\ UNCHANGED started

RejectedInBody(j) ==
  /\ Uploading(j)
  /\ SetJob(j, InBodyError(jobs[j]))
  /\ UNCHANGED <<files, loaded, started>>

RequestFails(j) ==
  /\ Uploading(j)
  /\ SetJob(j, Ended(jobs[j], "failed"))
  /\ UNCHANGED <<files, loaded, started>>

Unauthorized(j) ==
  /\ Uploading(j)
  /\ jobs[j].attempt = 0
  /\ SetJob(j, [jobs[j] EXCEPT !.attempt = 1])
  /\ UNCHANGED <<files, loaded, started>>

(* The logtest of test_wazuh_rule: the manager runs the sample through the     *)
(* rules it has loaded.  "tested" is reported if the rule that fires has the   *)
(* candidate's id.                                                             *)
LoadedAs(id) == {e \in ToSet(loaded) : e.id = id}

Logtest(j) ==
  LET job == jobs[j]
  IN /\ job.pos = "staged"
     /\ \E fires \in BOOLEAN :
          /\ fires => LoadedAs(job.op.item.id) # {}
          /\ SetJob(j, Ended(job, IF fires THEN "tested" ELSE "not matched"))
     /\ UNCHANGED <<files, loaded, started>>

ManagerNext ==
  \E j \in Job :
    \/ \E op \in Operations : Propose(j, op)
    \/ Execute(j) \/ FetchFails(j)
    \/ Accepted(j) \/ AnswerLost(j) \/ RejectedInBody(j) \/ RequestFails(j)
    \/ Unauthorized(j) \/ Logtest(j)

ManagerSpec == ManagerInit /\ [][ManagerNext]_managerVars

-----------------------------------------------------------------------------
(* Properties. *)
Positions == {"idle", "proposed", "merged", "staged"}
Results == {"none", "executed", "failed", "tested", "not matched"}

FilesTypeOK ==
  /\ files \in [rules : Files, decoders : Files]
  /\ loaded \in Seq(Entries)
  /\ started \in 0..MaxJobs
  /\ jobs \in [Job -> [pos : Positions, op : Changes, base : Files \cup {Refused},
                       new : Files \cup {Refused}, attempt : {0, 1}, puts : {0, 1},
                       result : Results]]

(* An upload that is stored while the file is the one that was merged into     *)
(* keeps every rule and decoder the change is not about, provided the file was *)
(* one an XML parser accepts, or is changed as text.                           *)
Stores(j) == jobs'[j].puts > jobs[j].puts /\ jobs[j].op.kind # "restart"
Named(op) == {op.id, op.item.id}
KeepsOthers(j) ==
  LET which == FileOf(jobs[j].op)
  IN \A e \in ToSet(files[which].entries) :
       e.id \notin Named(jobs[j].op) =>
         \E n \in ToSet(files'[which].entries) : n.id = e.id /\ n.text = e.text
Undisturbed(j) == files[FileOf(jobs[j].op)] = jobs[j].base

AloneOthersKept ==
  [][\A j \in Job : Stores(j) /\ Undisturbed(j) /\ Parses(jobs[j].base) => KeepsOthers(j)]_managerVars

(* "This module keeps that merge lossless (existing rules/comments preserved)" *)
(* (tools/wazuh/local_rules.py), for the rules and decoders alone.             *)
MergeKeepsRules ==
  [][\A j \in Job : Stores(j) /\ Undisturbed(j) => KeepsOthers(j)]_managerVars

(* What is reported as executed was stored by the manager, and no approval     *)
(* stores twice, whatever is refused, lost or answered with 401 on the way.    *)
ReportedIsStored ==
  \A j \in Job : /\ jobs[j].puts <= 1
                 /\ jobs[j].result = "executed" => jobs[j].puts = 1
=============================================================================
