----------------------------- MODULE JsonStores -----------------------------
(* The JSON files several processes of the program keep on disk without a     *)
(* lock: alert rules (rules.py), their threshold counters, the lookup tables  *)
(* (lookup_tables.py) and the SIEM connections (siem_providers.py).  Every    *)
(* operation loads a whole file, changes its own copy and saves the whole     *)
(* file.  A save of the first three goes through ONE temporary file, which    *)
(* all writers share, and a rename; the connections are written in place.     *)
(* This module is the disk and the save; AlertRules adds the operations.      *)
EXTENDS FiniteSets, Integers, Sequences

CONSTANTS
  Proc,     \* dashboard request threads, watchers and command lines
  Torn,     \* a file truncated or half written: there is no JSON in it
  NoFile    \* there is no temporary file

VARIABLES
  disk,     \* what each file holds: a set of records, or Torn
  tmp,      \* what its temporary file holds, or NoFile
  job,      \* what each process is doing, with the copy it works on
  raced     \* history: the files two writers have held at the same time

Store == {"rules", "state", "lookup", "providers"}

(* One operation in progress: its file, its position in it, the copy it works  *)
(* on, where its open file is now, its number, and its arguments and locals.   *)
NoJob == [op |-> "idle", file |-> "rules", pos |-> "idle", copy |-> {}, fd |-> "none",
          num |-> 0, at |-> 0, alert |-> [src |-> "none", sev |-> "none"], rules |-> {},
          hits |-> {}, items |-> {}, names |-> {}, rest |-> <<>>, over |-> FALSE]

(* _save of siem_providers.py writes the file itself. *)
InPlace == {"providers"}

(* _load answers the empty value when the file cannot be parsed. *)
Load(f) == IF disk[f] = Torn THEN {} ELSE disk[f]

(* A writer holds a file from its load until it learns that its save is done. *)
Holding == {"match", "open", "write", "replace", "saved"}

Holds(p, f) == job[p].file = f /\ job[p].pos \in Holding

Contended(p, f) == \E q \in Proc \ {p} : Holds(q, f)

NoteRace(p, f) == raced' = raced \cup {g \in {f} : Contended(p, f)}

(* write_text opens with truncation: the temporary file, or the file itself. *)
OpenForWrite(p) ==
  LET f == job[p].file IN
  /\ job[p].pos = "open"
  /\ IF f \in InPlace
       THEN /\ disk' = [disk EXCEPT ![f] = Torn]
            /\ job' = [job EXCEPT ![p].pos = "write", ![p].fd = "disk"]
            /\ UNCHANGED tmp
       ELSE /\ tmp' = [tmp EXCEPT ![f] = Torn]
            /\ job' = [job EXCEPT ![p].pos = "write", ![p].fd = "tmp"]
            /\ UNCHANGED disk
  /\ UNCHANGED raced

(* What a write at offset 0 leaves in a file that holds c: the whole copy, or  *)
(* a mixture when another writer has already written to the same open file.   *)
Written(c, copy) == IF c = Torn THEN {copy} ELSE {copy, Torn}

(* The text goes to the open file, wherever a rename has put it meanwhile. *)
WriteText(p) ==
  LET f == job[p].file IN
  /\ job[p].pos = "write"
  /\ \/ /\ job[p].fd = "tmp"
        /\ \E c \in Written(tmp[f], job[p].copy) : tmp' = [tmp EXCEPT ![f] = c]
        /\ UNCHANGED disk
     \/ /\ job[p].fd = "disk"
        /\ \E c \in Written(disk[f], job[p].copy) : disk' = [disk EXCEPT ![f] = c]
        /\ UNCHANGED tmp
     \/ /\ job[p].fd = "gone"
        /\ UNCHANGED <<disk, tmp>>
  /\ job' = [job EXCEPT ![p].pos = IF f \in InPlace THEN "saved" ELSE "replace"]
  /\ UNCHANGED raced

(* A rename moves the open files of the other writers with it. *)
Moved(j, f) ==
  IF j.file # f \/ j.pos # "write" THEN j
  ELSE [j EXCEPT !.fd = IF j.fd = "tmp" THEN "disk" ELSE "gone"]

(* tmp.replace(file); without a temporary file it raises FileNotFoundError. *)
Replace(p) ==
  LET f == job[p].file IN
  /\ job[p].pos = "replace"
  /\ IF tmp[f] = NoFile
       THEN /\ job' = [job EXCEPT ![p].pos = "failed"]
            /\ UNCHANGED <<disk, tmp>>
       ELSE /\ disk' = [disk EXCEPT ![f] = tmp[f]]
            /\ tmp' = [tmp EXCEPT ![f] = NoFile]
            /\ job' = [q \in Proc |-> IF q = p THEN [job[p] EXCEPT !.pos = "saved"]
                                      ELSE Moved(job[q], f)]
  /\ UNCHANGED raced

SaveStep(p) == OpenForWrite(p) \/ WriteText(p) \/ Replace(p)
=============================================================================
