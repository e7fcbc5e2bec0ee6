------------------------------- MODULE LogViews ------------------------------
(* What is derived from the triage log without writing anything: the cases of  *)
(* cases.py, a union-find over the entries.                                    *)
EXTENDS TriageLog

CONSTANTS HostOf, UserOf,  \* host and user of each alert, "" when it has none
          Limit            \* DEFAULT_SCAN_LIMIT of group_cases

(* The default is 500 lines; the default window has 1800 seconds. *)
ASSUME LimitAssumption == Limit \in 1..1800

(* The first index of the sequences of a union-find forest over n entries. *)
Numbered(n) == [i \in 1..n |-> i]

(* find: follow the parents to the root (its path halving moves no root). *)
Root(parent, i) ==
  LET up[k \in 0..Len(parent)] == IF k = 0 THEN i ELSE parent[up[k - 1]] IN up[Len(parent)]

UnionAtLeaf(parent, i, j) == [parent EXCEPT ![i] = j]   \* mutant: without find

Union(parent, i, j) == [parent EXCEPT ![Root(parent, i)] = Root(parent, j)]

(* _shares_host_or_user *)
Linked(e, f) ==
  \/ HostOf[e.case] # "" /\ HostOf[e.case] = HostOf[f.case]
  \/ UserOf[e.case] # "" /\ UserOf[e.case] = UserOf[f.case]

(* _read_entries: the last Limit lines, less those without an alert.  The      *)
(* entries that have one have no time stamp and count as a second apart, so    *)
(* that within Limit lines the window never tells two of them apart.           *)
Scanned ==
  LET lines == IF Len(log) > Limit THEN SubSeq(log, Len(log) - Limit + 1, Len(log)) ELSE log
      out[k \in 0..Len(lines)] ==
        IF k = 0 THEN <<>>
        ELSE IF lines[k].hasAlert THEN Append(out[k - 1], lines[k]) ELSE out[k - 1]
  IN out[Len(lines)]

(* group_cases: every linked pair is united, in the order of the two loops. *)
Forest ==
  LET n == Len(Scanned)
      grow[p \in 0..(n * n)] ==
        IF p = 0 THEN Numbered(n)
        ELSE LET i == ((p - 1) \div n) + 1
                 j == ((p - 1) % n) + 1
             IN IF i < j /\ Linked(Scanned[i], Scanned[j])
                THEN Union(grow[p - 1], i, j) ELSE grow[p - 1]
  IN grow[n * n]

CaseAt(i) == {j \in DOMAIN Scanned : Root(Forest, j) = Root(Forest, i)}

-----------------------------------------------------------------------------
(* Two alerts are in one case exactly when a chain of shared hosts and users   *)
(* joins them (cases.py:8-14), in whatever order the pairs were united.        *)
Chained(i, j) ==
  \E path \in UNION {[1..n -> DOMAIN Scanned] : n \in 1..Len(Scanned)} :
    /\ path[1] = i /\ path[Len(path)] = j
    /\ \A k \in 1..(Len(path) - 1) : Linked(Scanned[path[k]], Scanned[path[k + 1]])

CasesAreChains ==
  \A i, j \in DOMAIN Scanned : (j \in CaseAt(i)) <=> Chained(i, j)
=============================================================================
