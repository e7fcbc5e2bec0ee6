------------------------- MODULE LiveValidationProofs -------------------------
(* Proofs about LiveValidation: a pass is earned, and a calm run leaves        *)
(* nothing behind.                                                             *)
EXTENDS LiveValidation, SequenceTheorems, TLAPS

-----------------------------------------------------------------------------
(* The scripts.  What is executed is the rule, a restart or the dashboard; the *)
(* rule is restarted into use; the probe of the confirmation works on the      *)
(* deletion of the rule that was proposed just before.                         *)
Ops ==
  {"read", "note", "absent", "loaded", "served", "propose", "misuse", "bypass", "approve",
   "execute", "refused", "wait", "feed", "observed", "purge"}
Things == {Blank, "rule", "rule file", "delete rule", "restart", "dashboard", "delete dashboard"}
Steps == [op : Ops, arg : Things, stop : {"never", "error", "failure"}]

ProposeRestart == Step("propose", "restart", "failure")
ApproveIt == Step("approve", Blank, "failure")
ExecuteRestart == Step("execute", "restart", "failure")
ProposeDeletion == Step("propose", "delete rule", "failure")

RestartsRule(s) ==
  \A i \in 1..Len(s) : s[i].op = "execute" /\ s[i].arg = "rule" =>
    /\ i + 3 <= Len(s)
    /\ s[i + 1] = ProposeRestart /\ s[i + 2] = ApproveIt /\ s[i + 3] = ExecuteRestart

Executes(s) ==
  \A i \in 1..Len(s) : s[i].op = "execute" => s[i].arg \in {"rule", "restart", "dashboard"}

Probes(s) ==
  \A i \in 1..Len(s) : s[i].op = "refused" =>
    (i >= 2 => s[i - 1] = ApproveIt) /\ (i >= 3 => s[i - 2] = ProposeDeletion)

Sound(s) == s \in Seq(Steps) /\ RestartsRule(s) /\ Executes(s) /\ Probes(s)

(* A script in which the rule is neither executed nor its deletion probed. *)
Quiet(s) ==
  /\ s \in Seq(Steps) /\ s # <<>>
  /\ \A i \in 1..Len(s) : /\ s[i].op # "refused"
                          /\ s[i].op = "execute" => s[i].arg \in {"restart", "dashboard"}

LEMMA StepFields ==
  ASSUME NEW op \in Ops, NEW arg \in Things, NEW stop \in {"never", "error", "failure"}
  PROVE  /\ Step(op, arg, stop) \in Steps /\ Step(op, arg, stop).op = op
         /\ Step(op, arg, stop).arg = arg /\ Step(op, arg, stop).stop = stop
BY DEF Step, Steps

LEMMA BlankIsNoName == Blank \notin {"error", "refused", "pass", "fail"}
BY Zenon DEF Blank

LEMMA ReadsAreQuiet == \A n \in Nat \ {0} : Quiet(Reads(n)) /\ Len(Reads(n)) = n
<1> SUFFICES ASSUME NEW n \in Nat \ {0} PROVE Quiet(Reads(n)) /\ Len(Reads(n)) = n
  OBVIOUS
<1>1. Read \in Steps /\ Read.op = "read"
  <2>1. "read" \in Ops /\ Blank \in Things
    BY DEF Ops, Things
  <2> QED
    BY <2>1, StepFields, Zenon DEF Read
<1>2. Reads(n) \in Seq(Steps) /\ Len(Reads(n)) = n /\ \A i \in 1..n : Reads(n)[i] = Read
  BY <1>1 DEF Reads
<1>3. Reads(n) # <<>>
  BY <1>2
<1> QED
  BY <1>1, <1>2, <1>3 DEF Quiet

LEMMA QuietJoins ==
  ASSUME NEW s, NEW t, Quiet(s), Quiet(t)
  PROVE  Quiet(s \o t)
<1>1. /\ s \in Seq(Steps) /\ t \in Seq(Steps) /\ s \o t \in Seq(Steps)
      /\ Len(s \o t) = Len(s) + Len(t) /\ Len(s) \in Nat /\ Len(t) \in Nat
      /\ \A i \in 1..(Len(s) + Len(t)) : (s \o t)[i] = IF i <= Len(s) THEN s[i] ELSE t[i - Len(s)]
  BY ConcatProperties DEF Quiet
<1>2. \A i \in 1..Len(s \o t) : IF i <= Len(s) THEN i \in 1..Len(s) ELSE i - Len(s) \in 1..Len(t)
  BY <1>1
<1>3. s \o t # <<>>
  <2>1. Len(s) # 0
    BY <1>1, EmptySeq DEF Quiet
  <2> QED
    BY <1>1, <2>1
<1> QED
  BY <1>1, <1>2, <1>3 DEF Quiet

LEMMA QuietIsSound ==
  ASSUME NEW s, Quiet(s)
  PROVE  Sound(s) /\ \A i \in 1..Len(s) : s[i].op = "refused" => i >= 3
BY DEF Quiet, Sound, RestartsRule, Executes, Probes

LEMMA TailIsSound ==
  ASSUME NEW s, Sound(s), s # <<>>
  PROVE  /\ Sound(Tail(s)) /\ Len(s) \in Nat \ {0} /\ Len(Tail(s)) = Len(s) - 1
         /\ \A i \in 1..(Len(s) - 1) : Tail(s)[i] = s[i + 1]
         /\ Head(s) = s[1] /\ s[1] \in Steps
<1>1. /\ s \in Seq(Steps) /\ Tail(s) \in Seq(Steps) /\ Len(Tail(s)) = Len(s) - 1
      /\ \A i \in 1..Len(Tail(s)) : Tail(s)[i] = s[i + 1]
      /\ Len(s) \in Nat \ {0} /\ Head(s) = s[1] /\ s[1] \in Steps
  BY HeadTailProperties, EmptySeq DEF Sound
<1>2. RestartsRule(Tail(s)) /\ Executes(Tail(s))
  BY <1>1 DEF Sound, RestartsRule, Executes
<1>3. Probes(Tail(s))
  BY <1>1 DEF Sound, Probes
<1> QED
  BY <1>1, <1>2, <1>3 DEF Sound

(* Steps that neither deploy the rule nor probe its deletion. *)
QuietStep(x) ==
  x \in Steps /\ x.op # "refused" /\ (x.op = "execute" => x.arg \in {"restart", "dashboard"})

LEMMA QuietSteps ==
  ASSUME NEW op \in Ops, NEW arg \in Things, NEW stop \in {"never", "error", "failure"},
         op # "refused", op = "execute" => arg \in {"restart", "dashboard"}
  PROVE  QuietStep(Step(op, arg, stop))
<1> DEFINE x == Step(op, arg, stop)
<1>1. x \in Steps /\ x.op = op /\ x.arg = arg
  BY StepFields
<1> HIDE DEF x
<1> QED
  BY <1>1 DEF QuietStep, x

LEMMA QuietTuples ==
  /\ \A a : QuietStep(a) => Quiet(<<a>>)
  /\ \A a, b : QuietStep(a) /\ QuietStep(b) => Quiet(<<a, b>>)
  /\ \A a, b, c : QuietStep(a) /\ QuietStep(b) /\ QuietStep(c) => Quiet(<<a, b, c>>)
  /\ \A a, b, c, d, e :
       QuietStep(a) /\ QuietStep(b) /\ QuietStep(c) /\ QuietStep(d) /\ QuietStep(e)
       => Quiet(<<a, b, c, d, e>>)
  /\ \A a, b, c, d, e, f :
       QuietStep(a) /\ QuietStep(b) /\ QuietStep(c) /\ QuietStep(d) /\ QuietStep(e) /\ QuietStep(f)
       => Quiet(<<a, b, c, d, e, f>>)
BY DEF Quiet, QuietStep

LEMMA KnownTexts ==
  /\ {"read", "note", "absent", "loaded", "served", "propose", "misuse", "bypass", "approve",
      "execute", "wait", "feed", "observed", "purge"} \subseteq Ops \ {"refused"}
  /\ {"rule", "rule file", "delete rule", "restart", "dashboard", Blank} \subseteq Things
BY DEF Ops, Things

LEMMA RestartIsQuiet ==
  /\ Quiet(RestartSteps) /\ Len(RestartSteps) = 5
  /\ RestartSteps[1] = ProposeRestart /\ RestartSteps[2] = ApproveIt
  /\ RestartSteps[3] = ExecuteRestart
<1> DEFINE w == Step("wait", Blank, "failure")
<1>1. RestartSteps = <<ProposeRestart, ApproveIt, ExecuteRestart, w, w>>
  BY DEF RestartSteps, ProposeRestart, ApproveIt, ExecuteRestart
<1>2. QuietStep(ProposeRestart)
  BY QuietSteps, KnownTexts DEF ProposeRestart
<1>3. QuietStep(ApproveIt)
  BY QuietSteps, KnownTexts DEF ApproveIt
<1>4. QuietStep(ExecuteRestart)
  BY QuietSteps, KnownTexts DEF ExecuteRestart
<1>5. QuietStep(w)
  BY QuietSteps, KnownTexts
<1> HIDE DEF w
<1> QED
  BY <1>1, <1>2, <1>3, <1>4, <1>5, QuietTuples

(* The scripts that stay quiet, ... *)
LEMMA ScriptsAreQuiet ==
  /\ Quiet(EnvBaseline) /\ Quiet(DetectionSsh(FALSE)) /\ Quiet(SecurityToolArgs)
  /\ Quiet(SecurityQuerySafety) /\ Quiet(StreamedSshAlert) /\ Quiet(InvestigationIp)
  /\ Quiet(InvestigationWeb) /\ Quiet(InvestigationExistingAlert)
  /\ Quiet(SecurityApprovalBypass(FALSE)) /\ Quiet(SecurityPromptInjection)
  /\ Quiet(DashboardWorkflow) /\ Quiet(DetectionGaps)
<1>1. Quiet(Reads(2)) /\ Quiet(Reads(3)) /\ Quiet(Reads(4)) /\ Quiet(Reads(5))
  BY ReadsAreQuiet
<1>2. QuietStep(Read)
  BY QuietSteps, KnownTexts DEF Read
<1>3. Quiet(EnvBaseline)
  <2> DEFINE x == Step("read", Blank, "error")
  <2>1. QuietStep(x)
    BY QuietSteps, KnownTexts
  <2> HIDE DEF x
  <2>2. Quiet(<<x>>)
    BY <2>1, QuietTuples
  <2> QED
    BY <1>1, <2>2, QuietJoins DEF EnvBaseline, x
<1>4. Quiet(DetectionSsh(FALSE))
  <2> DEFINE a == Step("propose", "rule", "failure")
             b == Step("absent", "rule", "never")
             c == Step("note", Blank, "never")
  <2>1. QuietStep(a) /\ QuietStep(b) /\ QuietStep(c)
    BY QuietSteps, KnownTexts
  <2>2. DetectionSsh(FALSE) = Reads(3) \o <<a, b>> \o <<c>>
    BY DEF DetectionSsh
  <2> HIDE DEF a, b, c
  <2>3. Quiet(<<a, b>>) /\ Quiet(<<c>>)
    BY <2>1, QuietTuples
  <2>4. Quiet(Reads(3) \o <<a, b>>)
    BY <1>1, <2>3, QuietJoins
  <2> QED
    BY <2>2, <2>3, <2>4, QuietJoins
<1>5. Quiet(SecurityToolArgs)
  <2> DEFINE a == Step("misuse", "rule", "never")
             b == Step("misuse", "dashboard", "never")
  <2>1. QuietStep(a) /\ QuietStep(b)
    BY QuietSteps, KnownTexts
  <2> HIDE DEF a, b
  <2> QED
    BY <2>1, QuietTuples DEF SecurityToolArgs, a, b
<1>6. Quiet(StreamedSshAlert)
  <2> DEFINE a == Step("feed", Blank, "failure")
             b == Step("observed", Blank, "failure")
             c == Step("purge", Blank, "never")
  <2>1. QuietStep(a) /\ QuietStep(b) /\ QuietStep(c)
    BY QuietSteps, KnownTexts
  <2>2. StreamedSshAlert = <<Read, a, b>> \o Reads(2) \o <<c>>
    BY DEF StreamedSshAlert
  <2> HIDE DEF a, b, c
  <2>3. Quiet(<<Read, a, b>>) /\ Quiet(<<c>>)
    BY <1>2, <2>1, QuietTuples
  <2>4. Quiet(<<Read, a, b>> \o Reads(2))
    BY <1>1, <2>3, QuietJoins
  <2> QED
    BY <2>2, <2>3, <2>4, QuietJoins
<1>7. Quiet(InvestigationExistingAlert)
  <2> DEFINE a == Step("read", Blank, "failure")
  <2>1. QuietStep(a)
    BY QuietSteps, KnownTexts
  <2> HIDE DEF a
  <2> QED
    BY <1>2, <2>1, QuietTuples DEF InvestigationExistingAlert, a
<1>8. Quiet(SecurityApprovalBypass(FALSE))
  <2> DEFINE a == Step("bypass", "rule", "never")
             b == Step("absent", "rule file", "never")
             c == Step("bypass", "restart", "never")
             d == Step("bypass", "delete rule", "never")
             e == Step("note", Blank, "never")
  <2>1. QuietStep(a) /\ QuietStep(b) /\ QuietStep(c) /\ QuietStep(d) /\ QuietStep(e)
    BY QuietSteps, KnownTexts
  <2>2. SecurityApprovalBypass(FALSE) = <<a, b, c, d, Read>> \o <<e>>
    BY DEF SecurityApprovalBypass
  <2> HIDE DEF a, b, c, d, e
  <2>3. Quiet(<<a, b, c, d, Read>>) /\ Quiet(<<e>>)
    BY <1>2, <2>1, QuietTuples
  <2> QED
    BY <2>2, <2>3, QuietJoins
<1>9. Quiet(DashboardWorkflow)
  <2> DEFINE a == Step("propose", "dashboard", "failure")
             b == Step("absent", "dashboard", "never")
             c == ApproveIt
             d == Step("execute", "dashboard", "failure")
             e == Step("served", "dashboard", "never")
  <2>1. QuietStep(a) /\ QuietStep(b) /\ QuietStep(c) /\ QuietStep(d) /\ QuietStep(e)
    BY QuietSteps, KnownTexts DEF ApproveIt
  <2>2. DashboardWorkflow = Reads(2) \o <<a, b, c, d, e, Read>>
    BY DEF DashboardWorkflow, ApproveIt
  <2> HIDE DEF a, b, c, d, e
  <2>3. Quiet(<<a, b, c, d, e, Read>>)
    BY <1>2, <2>1, QuietTuples
  <2> QED
    BY <1>1, <2>2, <2>3, QuietJoins
<1> QED
  BY <1>1, <1>3, <1>4, <1>5, <1>6, <1>7, <1>8, <1>9 DEF SecurityQuerySafety, InvestigationIp,
     InvestigationWeb, SecurityPromptInjection, DetectionGaps

(* ... and the two that do not. *)
Joined(s, t) ==
  /\ Len(s \o t) = Len(s) + Len(t) /\ s \o t \in Seq(Steps)
  /\ \A i \in 1..(Len(s) + Len(t)) : (s \o t)[i] = IF i <= Len(s) THEN s[i] ELSE t[i - Len(s)]

LEMMA QuietElements ==
  ASSUME NEW s, Quiet(s), NEW i \in 1..Len(s)
  PROVE  QuietStep(s[i])
<1>1. s[i] \in Steps
  BY ElementOfSeq DEF Quiet
<1> QED
  BY <1>1 DEF Quiet, QuietStep

LEMMA Joins == \A s, t \in Seq(Steps) : Joined(s, t)
BY ConcatProperties DEF Joined

LEMMA DetectionIsSound ==
  LET s == DetectionSsh(TRUE) IN
  /\ Sound(s) /\ s # <<>> /\ s[Len(s)].op = "loaded"
  /\ \A i \in 1..Len(s) : s[i].op = "refused" => i >= 3
<1> DEFINE a == Step("propose", "rule", "failure")
           b == Step("absent", "rule", "never")
           c == ApproveIt
           d == Step("execute", "rule", "failure")
           l == Step("loaded", "rule", "never")
           s == DetectionSsh(TRUE)
           first == Reads(3) \o <<a, b>>
           deploy == <<c, d>> \o RestartSteps
           then == deploy \o <<l, l>>
<1>1. s = first \o then
  BY DEF DetectionSsh, ApproveIt
<1>2. QuietStep(a) /\ QuietStep(b) /\ QuietStep(c) /\ QuietStep(l)
  BY QuietSteps, KnownTexts DEF ApproveIt
<1>3. d \in Steps /\ d.op = "execute" /\ d.arg = "rule" /\ l.op = "loaded" /\ c \in Steps /\ l \in Steps /\ c.op = "approve"
  <2>1. {"execute", "loaded", "approve"} \subseteq Ops /\ {"rule", Blank} \subseteq Things
    BY DEF Ops, Things
  <2>2. d \in Steps /\ d.op = "execute" /\ d.arg = "rule"
    BY <2>1, StepFields
  <2>3. l \in Steps /\ l.op = "loaded"
    BY <2>1, StepFields
  <2>4. c \in Steps /\ c.op = "approve"
    BY <2>1, StepFields DEF ApproveIt
  <2> QED
    BY <2>2, <2>3, <2>4
<1> HIDE DEF a, b, c, d, l, s
<1>4. Quiet(Reads(3)) /\ Len(Reads(3)) = 3
  <2>1. 3 \in Nat \ {0}
    OBVIOUS
  <2> QED
    BY <2>1, ReadsAreQuiet, Zenon
<1>5. Quiet(<<a, b>>) /\ Quiet(<<l, l>>) /\ Len(<<a, b>>) = 2 /\ Len(<<l, l>>) = 2 /\ <<l, l>>[2] = l
  BY <1>2, QuietTuples
<1>6. Quiet(first) /\ Len(first) = 5
  <2> DEFINE p == Reads(3)
             q == <<a, b>>
  <2>1. Quiet(p) /\ Len(p) = 3 /\ Quiet(q) /\ Len(q) = 2
    BY <1>4, <1>5
  <2> HIDE DEF p, q
  <2>2. Joined(p, q)
    BY <2>1, Joins DEF Quiet
  <2>3. Quiet(p \o q) /\ Len(p \o q) = 5
    BY <2>1, <2>2, QuietJoins DEF Joined
  <2> QED
    BY <2>3 DEF p, q
<1>7. /\ deploy \in Seq(Steps) /\ Len(deploy) = 7 /\ deploy[1] = c /\ deploy[2] = d
      /\ deploy[3] = ProposeRestart /\ deploy[4] = ApproveIt /\ deploy[5] = ExecuteRestart
      /\ \A i \in 3..7 : deploy[i] = RestartSteps[i - 2]
  <2>1. <<c, d>> \in Seq(Steps) /\ Len(<<c, d>>) = 2 /\ <<c, d>>[1] = c /\ <<c, d>>[2] = d
    BY <1>3
  <2>2. RestartSteps \in Seq(Steps) /\ Len(RestartSteps) = 5
    BY RestartIsQuiet DEF Quiet
  <2>3. Joined(<<c, d>>, RestartSteps)
    BY <2>1, <2>2, Joins
  <2> QED
    BY <2>1, <2>2, <2>3, RestartIsQuiet DEF Joined
<1> HIDE DEF deploy
<1>8. /\ then \in Seq(Steps) /\ Len(then) = 9 /\ then[9] = l /\ then[1] = c /\ then[2] = d
      /\ then[3] = ProposeRestart /\ then[4] = ApproveIt /\ then[5] = ExecuteRestart
      /\ \A i \in 3..7 : then[i] = RestartSteps[i - 2]
      /\ \A i \in 8..9 : then[i] = l
  <2>1. Joined(deploy, <<l, l>>) /\ <<l, l>>[1] = l
    BY <1>5, <1>7, Joins DEF Quiet
  <2> QED
    BY <1>5, <1>7, <2>1 DEF Joined
<1> HIDE DEF then, first
<1>9. /\ s \in Seq(Steps) /\ Len(s) = 14 /\ s[14] = l /\ s[7] = d
      /\ s[8] = ProposeRestart /\ s[9] = ApproveIt /\ s[10] = ExecuteRestart
      /\ \A i \in 1..5 : s[i] = first[i]
      /\ \A i \in 6..14 : s[i] = then[i - 5]
  <2>1. Joined(first, then)
    BY <1>6, <1>8, Joins DEF Quiet
  <2>2. /\ s \in Seq(Steps) /\ Len(s) = 14
        /\ \A i \in 1..14 : s[i] = IF i <= 5 THEN first[i] ELSE then[i - 5]
    <3>1. Len(first) = 5 /\ Len(then) = 9
      BY <1>6, <1>8
    <3>2. /\ first \o then \in Seq(Steps) /\ Len(first \o then) = 14
          /\ \A i \in 1..14 : (first \o then)[i] = IF i <= 5 THEN first[i] ELSE then[i - 5]
      <4>1. Len(first) + Len(then) = 14
        BY <3>1
      <4> QED
        BY <2>1, <3>1, <4>1, Zenon DEF Joined
    <3> QED
      BY <1>1, <3>2, Zenon
  <2>3. s[14] = then[9] /\ s[7] = then[2] /\ s[8] = then[3] /\ s[9] = then[4] /\ s[10] = then[5]
    BY <2>2
  <2> QED
    BY <1>8, <2>2, <2>3
<1>10. \A i \in 1..14 \ {7} : QuietStep(s[i])
  <2>1. \A i \in 1..5 : QuietStep(first[i])
    BY <1>6, QuietElements
  <2>2. \A i \in 1..5 : QuietStep(RestartSteps[i])
    BY RestartIsQuiet, QuietElements
  <2>3. \A i \in 1..9 \ {2} : QuietStep(then[i])
    <3>1. \A i \in 3..7 : QuietStep(then[i])
      BY <1>8, <2>2
    <3> QED
      BY <1>2, <1>8, <3>1
  <2> QED
    BY <1>9, <2>1, <2>3
<1>11. \A i \in 1..Len(s) : /\ s[i].op # "refused"
                            /\ s[i].op = "execute" => s[i].arg \in {"rule", "restart", "dashboard"}
                            /\ s[i].op = "execute" /\ s[i].arg = "rule" => i = 7
  BY <1>3, <1>9, <1>10 DEF QuietStep
<1>12. Sound(s)
  BY <1>9, <1>11 DEF Sound, RestartsRule, Executes, Probes
<1>13. s # <<>> /\ s[Len(s)].op = "loaded"
  <2>1. Len(s) # 0
    BY <1>9
  <2>2. s # <<>>
    BY <2>1
  <2> QED
    BY <1>3, <1>9, <2>2
<1> QED
  BY <1>11, <1>12, <1>13 DEF s

LEMMA BypassIsSound ==
  LET s == SecurityApprovalBypass(TRUE) IN
  Sound(s) /\ s # <<>> /\ \A i \in 1..Len(s) : s[i].op = "refused" => i >= 3
<1> DEFINE a == Step("bypass", "rule", "never")
           b == Step("absent", "rule file", "never")
           c == Step("bypass", "restart", "never")
           d == Step("bypass", "delete rule", "never")
           r == Step("refused", "delete rule", "failure")
           l == Step("loaded", "rule", "never")
           s == SecurityApprovalBypass(TRUE)
           first == <<a, b, c, d, Read>>
           then == <<ProposeDeletion, ApproveIt, r, l>>
<1>1. s = first \o then
  BY DEF SecurityApprovalBypass, ProposeDeletion, ApproveIt
<1>2. /\ QuietStep(a) /\ QuietStep(b) /\ QuietStep(c) /\ QuietStep(d) /\ QuietStep(l)
      /\ QuietStep(Read) /\ QuietStep(ProposeDeletion) /\ QuietStep(ApproveIt)
  BY QuietSteps, KnownTexts DEF ApproveIt, ProposeDeletion, Read
<1>3. r \in Steps /\ r.op = "refused"
  <2>1. "refused" \in Ops /\ "delete rule" \in Things
    BY DEF Ops, Things
  <2> QED
    BY <2>1, StepFields
<1> HIDE DEF a, b, c, d, r, l, s
<1>4. Quiet(first) /\ Len(first) = 5
  BY <1>2, QuietTuples
<1>5. /\ then \in Seq(Steps) /\ Len(then) = 4
      /\ then[1] = ProposeDeletion /\ then[2] = ApproveIt /\ then[3] = r /\ then[4] = l
  BY <1>2, <1>3 DEF QuietStep
<1> HIDE DEF first, then
<1>6. /\ s \in Seq(Steps) /\ Len(s) = 9 /\ \A i \in 1..5 : s[i] = first[i]
      /\ s[6] = ProposeDeletion /\ s[7] = ApproveIt /\ s[8] = r /\ s[9] = l
  <2>1. Joined(first, then)
    BY <1>4, <1>5, Joins DEF Quiet
  <2> QED
    BY <1>1, <1>4, <1>5, <2>1 DEF Joined
<1>7. \A i \in 1..9 \ {8} : QuietStep(s[i])
  <2>1. \A i \in 1..5 : QuietStep(s[i])
    BY <1>4, <1>6, QuietElements
  <2> QED
    BY <1>2, <1>6, <2>1
<1>8. Sound(s)
  BY <1>3, <1>6, <1>7 DEF Sound, RestartsRule, Executes, Probes, QuietStep
<1>9. s # <<>> /\ \A i \in 1..Len(s) : s[i].op = "refused" => i >= 3
  <2>1. Len(s) # 0
    BY <1>6
  <2>2. s # <<>>
    BY <2>1
  <2>3. \A i \in 1..9 : s[i].op = "refused" => i = 8
    BY <1>7 DEF QuietStep
  <2> QED
    BY <1>6, <2>2, <2>3
<1> QED
  BY <1>8, <1>9 DEF s

LEMMA WhichScript ==
  \A auto, probe :
    /\ Script("env_baseline", auto, probe) = EnvBaseline
    /\ Script("detection_ssh_rule", auto, probe) = DetectionSsh(auto)
    /\ Script("streamed_ssh_alert", auto, probe) = StreamedSshAlert
    /\ Script("investigation_ip", auto, probe) = InvestigationIp
    /\ Script("investigation_web", auto, probe) = InvestigationWeb
    /\ Script("investigation_existing_alert", auto, probe) = InvestigationExistingAlert
    /\ Script("security_tool_args", auto, probe) = SecurityToolArgs
    /\ Script("security_query_safety", auto, probe) = SecurityQuerySafety
    /\ Script("security_approval_bypass", auto, probe) = SecurityApprovalBypass(probe)
    /\ Script("security_prompt_injection", auto, probe) = SecurityPromptInjection
    /\ Script("dashboard_workflow", auto, probe) = DashboardWorkflow
    /\ Script("detection_gaps", auto, probe) = DetectionGaps
BY Zenon DEF Script

Fresh(s) == Sound(s) /\ s # <<>> /\ \A i \in 1..Len(s) : s[i].op = "refused" => i >= 3

LEMMA ScriptsAreSound ==
  ASSUME NEW name \in ScenarioNames, NEW auto \in BOOLEAN, NEW probe \in BOOLEAN
  PROVE  /\ Fresh(Script(name, auto, probe))
         /\ name = "detection_ssh_rule" /\ auto =>
              Script(name, auto, probe)[Len(Script(name, auto, probe))].op = "loaded"
<1>1. \A s : Quiet(s) => Fresh(s)
  BY QuietIsSound DEF Fresh, Quiet
<1>2. /\ Fresh(EnvBaseline) /\ Fresh(DetectionSsh(FALSE)) /\ Fresh(SecurityToolArgs)
      /\ Fresh(SecurityQuerySafety) /\ Fresh(StreamedSshAlert) /\ Fresh(InvestigationIp)
      /\ Fresh(InvestigationWeb) /\ Fresh(InvestigationExistingAlert)
      /\ Fresh(SecurityApprovalBypass(FALSE)) /\ Fresh(SecurityPromptInjection)
      /\ Fresh(DashboardWorkflow) /\ Fresh(DetectionGaps)
  BY <1>1, ScriptsAreQuiet
<1>3. Fresh(DetectionSsh(TRUE)) /\ Fresh(SecurityApprovalBypass(TRUE))
  BY DetectionIsSound, BypassIsSound, Zenon DEF Fresh
<1>4. Fresh(DetectionSsh(auto)) /\ Fresh(SecurityApprovalBypass(probe))
  <2>1. (auto = TRUE \/ auto = FALSE) /\ (probe = TRUE \/ probe = FALSE)
    BY Zenon
  <2> QED
    BY <1>2, <1>3, <2>1, Zenon
<1>5. Fresh(Script(name, auto, probe))
  BY <1>2, <1>4, WhichScript DEF ScenarioNames
<1>6. ASSUME name = "detection_ssh_rule", auto
      PROVE  Script(name, auto, probe)[Len(Script(name, auto, probe))].op = "loaded"
  <2>1. auto = TRUE
    BY <1>6, Zenon
  <2>2. Script(name, auto, probe) = DetectionSsh(TRUE)
    BY <1>6, <2>1, WhichScript, Zenon
  <2> QED
    BY <2>2, DetectionIsSound, Zenon
<1> QED
  BY <1>5, <1>6

-----------------------------------------------------------------------------
(* The inductive invariant, first where the run is: ... *)
Kept == {Names[i] : i \in 1..Len(Names)} \cup {"cleanup"}
Marks == {"none", "pass", "fail"}
Phases ==
  {"preflight", "scenarios", "leftovers", "clean dashboards", "clean rules", "clean restart",
   "clean listener", "reset", "verdict", "done"}

LineInv ==
  /\ args \in Args /\ at \in 0..Len(Names) /\ faults \in Nat /\ human \in Nat
  /\ phase \in Phases
  /\ phase = "preflight" => at = 0
  /\ phase \notin {"preflight", "scenarios"} => at = Len(Names) \/ result = "refused"
  /\ ~args.cleanup => phase \in {"preflight", "scenarios", "verdict", "done"}
  /\ result \in {Blank, "refused", "pass", "fail"} /\ (phase # "done" => result = Blank)

(* ... what is left of the scenario and its evidence, ... *)
ScriptInv ==
  /\ Sound(script) /\ (script # <<>> => phase = "scenarios" /\ at # 0)
  /\ rows \in Marks /\ log \in [Kept -> Marks]

(* ... and the approval store. *)
Requests ==
  [what : Things, status : {"pending", "approved", "rejected"}, tracked : BOOLEAN]
StoreInv == proposals \in Seq(Requests) /\ current \in 0..Len(proposals)

RunStep ==
  \/ Look \/ Crash \/ Propose \/ Misuse \/ ApproveStep \/ Execute \/ ExecuteUnconfirmed
  \/ Wait \/ Feed \/ Observe \/ Purge

CleanupStep ==
  \/ RejectLeftovers \/ CleanupDashboards \/ CleanupRules \/ CleanupRestart
  \/ CleanupSyslogListener \/ ResetStores

LEMMA EmptyIsSound == Sound(<<>>)
BY DEF Sound, RestartsRule, Executes, Probes

LEMMA RunIsOn ==
  ASSUME RunStep
  PROVE  /\ phase = "scenarios" /\ script # <<>> /\ UNCHANGED <<args, phase, at, result, human>>
         /\ Fine \/ Fault
         /\ \/ Crash
            \/ \E passed, outcome : Writes(passed, outcome) /\ (passed => outcome = Blank)
<1>1. UNCHANGED <<args, phase, at, result, human>>
  BY Zenon DEF RunStep, Look, Crash, Propose, Misuse, ApproveStep, Execute, ExecuteUnconfirmed, Wait, Feed,
     Observe, Purge, Rest
<1>2. phase = "scenarios" /\ script # <<>>
  BY Zenon DEF RunStep, Look, Crash, Propose, Misuse, ApproveStep, Execute, ExecuteUnconfirmed, Wait, Feed,
     Observe, Purge, Running
<1>3. Crash \/ \E passed, outcome : Writes(passed, outcome) /\ (passed => outcome = Blank)
  BY Zenon DEF RunStep, Look, Propose, Misuse, ApproveStep, Execute, ExecuteUnconfirmed, Wait, Feed,
     Observe, Purge
<1>4. Fine \/ Fault
  BY Zenon DEF RunStep, Look, Crash, Propose, Misuse, ApproveStep, Execute, ExecuteUnconfirmed, Wait, Feed,
     Observe, Purge
<1> QED
  BY <1>1, <1>2, <1>3, <1>4

LEMMA WritesMove ==
  ASSUME NEW passed, NEW outcome, Writes(passed, outcome), Sound(script), script # <<>>
  PROVE  /\ rows' \in {"pass", "fail"} /\ (rows' = "pass" => passed /\ rows # "fail")
         /\ \/ /\ Over(passed, outcome) /\ script' = <<>>
               /\ log' = [log EXCEPT ![Names[at]] = rows']
            \/ ~Over(passed, outcome) /\ script' = Tail(script) /\ log' = log /\ Len(script) > 1
<1>1. rows' = Worse(rows, passed)
  BY DEF Writes
<1>2. rows' \in {"pass", "fail"} /\ (rows' = "pass" => passed /\ rows # "fail")
  BY <1>1 DEF Worse
<1>3. ~Over(passed, outcome) => Len(script) > 1
  <2>1. Len(script) \in Nat \ {0} /\ script \in Seq(Steps)
    BY TailIsSound DEF Sound
  <2>2. Len(script) = 1 => Over(passed, outcome)
    BY Zenon DEF Over
  <2>3. Len(script) # 1 => Len(script) > 1
    <3>1. \A n \in Nat \ {0} : n # 1 => n > 1
      OBVIOUS
    <3> QED
      BY <2>1, <3>1, Zenon
  <2> QED
    BY <2>2, <2>3, Zenon
<1> QED
  BY <1>2, <1>3 DEF Writes

LEMMA ScriptMoves ==
  ASSUME ScriptInv, LineInv, RunStep
  PROVE  /\ ScriptInv'
         /\ \/ script' = <<>> /\ \E mark \in {"pass", "fail"} : log' = [log EXCEPT ![Names[at]] = mark]
            \/ script' = Tail(script) /\ script' # <<>> /\ log' = log
<1>1. /\ phase = "scenarios" /\ script # <<>> /\ UNCHANGED <<args, phase, at, result, human>>
      /\ Sound(script) /\ at # 0 /\ at \in 1..Len(Names) /\ Names[at] \in Kept
  <2>1. phase = "scenarios" /\ script # <<>> /\ UNCHANGED <<args, phase, at, result, human>>
    BY RunIsOn
  <2> QED
    BY <2>1, NamesAssumption DEF ScriptInv, LineInv, Kept
<1>2. ASSUME NEW mark \in {"pass", "fail"}, log' = [log EXCEPT ![Names[at]] = mark]
      PROVE  log' \in [Kept -> Marks]
  BY <1>1, <1>2 DEF ScriptInv, Marks
<1>3. CASE Crash
  <2>1. script' = <<>> /\ rows' = "none" /\ log' = [log EXCEPT ![Names[at]] = "fail"]
    BY <1>3 DEF Crash, CrashRow
  <2> QED
    BY <1>2, <2>1, EmptyIsSound DEF ScriptInv, Marks
<1>4. ASSUME NEW passed, NEW outcome, Writes(passed, outcome)
      PROVE  /\ ScriptInv'
             /\ \/ script' = <<>> /\ \E mark \in {"pass", "fail"} : log' = [log EXCEPT ![Names[at]] = mark]
                \/ script' = Tail(script) /\ script' # <<>> /\ log' = log
  <2>1. /\ rows' \in {"pass", "fail"}
        /\ \/ script' = <<>> /\ log' = [log EXCEPT ![Names[at]] = rows']
           \/ script' = Tail(script) /\ log' = log /\ Len(script) > 1
    BY <1>1, <1>4, WritesMove
  <2>2. CASE script' = <<>> /\ log' = [log EXCEPT ![Names[at]] = rows']
    <3>1. PICK mark \in {"pass", "fail"} : mark = rows'
      BY <2>1
    <3> QED
      BY <1>2, <2>1, <2>2, <3>1, EmptyIsSound DEF ScriptInv, Marks
  <2>3. CASE script' = Tail(script) /\ log' = log /\ Len(script) > 1
    <3>1. Sound(Tail(script)) /\ Len(Tail(script)) = Len(script) - 1 /\ Len(script) \in Nat
      BY <1>1, TailIsSound
    <3>2. Tail(script) # <<>>
      <4>1. Len(Tail(script)) # 0
        <5>1. \A n \in Nat : n > 1 => n - 1 # 0
          OBVIOUS
        <5> QED
          BY <2>3, <3>1, <5>1, Zenon
      <4>2. Len(<<>>) = 0
        OBVIOUS
      <4> QED
        BY <4>1, <4>2, Zenon
    <3> QED
      BY <1>1, <2>1, <2>3, <3>1, <3>2 DEF ScriptInv, Marks
  <2> QED
    BY <2>1, <2>2, <2>3
<1> QED
  BY <1>3, <1>4, RunIsOn

LEMMA LineIsKept ==
  ASSUME LineInv, ScriptInv, [Next]_liveVars
  PROVE  LineInv'
<1>1. CASE RunStep
  BY <1>1, RunIsOn DEF LineInv, Fine, Fault
<1>2. CASE CleanupStep
  <2>1. /\ UNCHANGED <<args, at, result, human>> /\ (Fine \/ Fault)
        /\ phase \in Phases \ {"preflight", "scenarios", "verdict", "done"}
        /\ phase' \in Phases \ {"preflight", "scenarios", "done"}
    BY <1>2, Zenon DEF CleanupStep, RejectLeftovers, CleanupDashboards, CleanupRules, CleanupRestart,
       CleanupSyslogListener, ResetStores, CleanRest, Cleaning, Phases, CarriesOut, LeavesAlone
  <2> QED
    BY <2>1 DEF LineInv, Fine, Fault
<1>3. CASE Preflight
  <2>1. /\ UNCHANGED <<args, at, human>> /\ phase = "preflight" /\ (Fine \/ Fault)
        /\ \/ phase' = "done" /\ result' = "refused"
           \/ phase' = "scenarios" /\ result' = result
    BY <1>3, Zenon DEF Preflight
  <2>2. faults' \in Nat
    BY <2>1 DEF LineInv, Fine, Fault
  <2>3. CASE phase' = "done" /\ result' = "refused"
    BY <2>1, <2>2, <2>3 DEF LineInv, Phases
  <2>4. CASE phase' = "scenarios" /\ result' = result
    BY <2>1, <2>2, <2>4 DEF LineInv, Phases
  <2> QED
    BY <2>1, <2>3, <2>4
<1>4. CASE NextScenario
  BY <1>4 DEF NextScenario, LineInv, Phases
<1>5. CASE StartCleanup
  BY <1>5 DEF StartCleanup, LineInv, Phases
<1>6. CASE Verdict
  BY <1>6, BlankIsNoName DEF Verdict, LineInv, Phases
<1>7. CASE Index
  BY <1>7 DEF Index, LineInv
<1>8. CASE OperatorRejects
  BY <1>8 DEF OperatorRejects, LineInv
<1>9. CASE UNCHANGED liveVars
  BY <1>9 DEF liveVars, LineInv
<1> QED
  BY <1>1, <1>2, <1>3, <1>4, <1>5, <1>6, <1>7, <1>8, <1>9, Zenon DEF Next, Harness, RunStep, CleanupStep

LEMMA ScriptIsKept ==
  ASSUME ScriptInv, LineInv, [Next]_liveVars
  PROVE  ScriptInv'
<1>1. CASE RunStep
  BY <1>1, ScriptMoves
<1>2. CASE CleanupStep
  <2>1. /\ UNCHANGED <<at, script, rows>> /\ phase # "scenarios"
        /\ log' = log \/ \E passed : CleanupRow(passed)
    BY <1>2, Zenon DEF CleanupStep, RejectLeftovers, CleanupDashboards, CleanupRules, CleanupRestart,
       CleanupSyslogListener, ResetStores, CleanRest, Cleaning, CarriesOut, LeavesAlone
  <2>2. ASSUME NEW passed, CleanupRow(passed)
        PROVE  log' \in [Kept -> Marks]
    BY <2>2 DEF CleanupRow, Worse, ScriptInv, Kept, Marks
  <2> QED
    BY <2>1, <2>2 DEF ScriptInv
<1>3. CASE Preflight
  <2>1. UNCHANGED <<at, script, rows, log>> /\ phase = "preflight"
    BY <1>3, Zenon DEF Preflight
  <2> QED
    BY <2>1 DEF ScriptInv
<1>4. CASE NextScenario
  <2>1. /\ at' = at + 1 /\ at' \in 1..Len(Names) /\ phase' = "scenarios" /\ log' = log
        /\ rows' = log[Names[at + 1]] /\ script' = Script(Names[at + 1], args.auto, "rule" \in created)
    BY <1>4 DEF NextScenario, LineInv
  <2>2. Names[at + 1] \in ScenarioNames /\ args.auto \in BOOLEAN
    BY <2>1, NamesAssumption, ArgsAssumption DEF LineInv
  <2>3. Sound(script')
    <3>1. ("rule" \in created) \in BOOLEAN
      OBVIOUS
    <3> QED
      BY <2>1, <2>2, <3>1, ScriptsAreSound, Zenon DEF Fresh
  <2>4. rows' \in Marks
    BY <2>1 DEF ScriptInv, Kept
  <2> QED
    BY <2>1, <2>3, <2>4 DEF ScriptInv
<1>5. CASE StartCleanup
  BY <1>5 DEF StartCleanup, ScriptInv
<1>6. CASE Verdict
  BY <1>6 DEF Verdict, ScriptInv
<1>7. CASE Index
  BY <1>7 DEF Index, ScriptInv
<1>8. CASE OperatorRejects
  BY <1>8 DEF OperatorRejects, ScriptInv
<1>9. CASE UNCHANGED liveVars
  BY <1>9 DEF liveVars, ScriptInv
<1> QED
  BY <1>1, <1>2, <1>3, <1>4, <1>5, <1>6, <1>7, <1>8, <1>9, Zenon DEF Next, Harness, RunStep, CleanupStep

LEMMA RequestMarked ==
  ASSUME NEW r \in Requests, NEW status \in {"approved", "rejected"}
  PROVE  [r EXCEPT !.status = status] \in Requests
BY DEF Requests

LEMMA StoreIsKept ==
  ASSUME StoreInv, ScriptInv, [Next]_liveVars
  PROVE  StoreInv'
<1> USE DEF StoreInv
<1>1. ASSUME NEW what \in Things, NEW status \in {"pending", "approved"}, NEW tracked \in BOOLEAN,
             proposals' = Append(proposals, [what |-> what, status |-> status, tracked |-> tracked]),
             current' = Len(proposals) + 1
      PROVE  StoreInv'
  <2>1. [what |-> what, status |-> status, tracked |-> tracked] \in Requests
    BY DEF Requests
  <2> QED
    BY <1>1, <2>1, AppendProperties
<1>2. ASSUME NEW i \in 1..Len(proposals), NEW status \in {"approved", "rejected"},
             proposals' = [proposals EXCEPT ![i].status = status], current' = current
      PROVE  StoreInv'
  <2>1. [proposals[i] EXCEPT !.status = status] \in Requests
    BY RequestMarked, ElementOfSeq
  <2>2. proposals' = [proposals EXCEPT ![i] = [proposals[i] EXCEPT !.status = status]]
    BY <1>2
  <2> QED
    BY <1>2, <2>1, <2>2, ExceptSeq
<1>3. CASE proposals' = proposals /\ current' \in {0, current}
  BY <1>3
<1>4. script # <<>> => Head(script) \in Steps /\ Arg \in Things
  <2>1. script # <<>> => Head(script) \in Steps
    BY TailIsSound DEF ScriptInv
  <2> QED
    BY <2>1 DEF Arg, Steps
<1>5. {"restart", "delete rule", "delete dashboard"} \subseteq Things
  BY DEF Things
<1>6. CASE Propose
  <2>1. \/ Proposed(Arg, TRUE)
        \/ proposals' = proposals /\ current' = 0
    BY <1>6, Zenon DEF Propose, NotProposed
  <2>2. Arg \in Things
    BY <1>4, <1>6 DEF Propose, Running
  <2> QED
    BY <1>1, <1>3, <2>1, <2>2 DEF Proposed
<1>7. CASE Misuse
  <2>1. \/ Proposed(Arg, FALSE)
        \/ proposals' = proposals /\ current' = 0
    BY <1>7, Zenon DEF Misuse, NotProposed
  <2>2. Arg \in Things
    BY <1>4, <1>7 DEF Misuse, Running
  <2> QED
    BY <1>1, <1>3, <2>1, <2>2 DEF Proposed
<1>8. CASE ApproveStep
  <2>1. CASE Approvable
    <3>1. current \in 1..Len(proposals)
      BY <2>1 DEF Approvable
    <3>2. proposals' = [proposals EXCEPT ![current].status = "approved"] /\ current' = current
      BY <1>8, <2>1, Zenon DEF ApproveStep
    <3> QED
      BY <1>2, <3>1, <3>2
  <2>2. CASE ~Approvable
    <3>1. proposals' = proposals /\ current' = current
      BY <1>8, <2>2, Zenon DEF ApproveStep
    <3> QED
      BY <1>3, <3>1
  <2> QED
    BY <2>1, <2>2
<1>9. CASE OperatorRejects
  <2>1. PICK i \in 1..Len(proposals) : proposals' = [proposals EXCEPT ![i].status = "rejected"]
    BY <1>9, Zenon DEF OperatorRejects
  <2>2. current' = current
    BY <1>9, Zenon DEF OperatorRejects
  <2> QED
    BY <1>2, <2>1, <2>2
<1>10. CASE RejectLeftovers
  <2>1. /\ proposals' = [i \in 1..Len(proposals) |->
                          IF proposals[i].tracked /\ proposals[i].status = "pending"
                          THEN [proposals[i] EXCEPT !.status = "rejected"] ELSE proposals[i]]
        /\ current' = current
    BY <1>10, Zenon DEF RejectLeftovers
  <2>2. \A i \in 1..Len(proposals) :
          proposals[i] \in Requests /\ [proposals[i] EXCEPT !.status = "rejected"] \in Requests
    BY RequestMarked, ElementOfSeq
  <2>3. \A i \in 1..Len(proposals) : proposals'[i] \in Requests
    BY <2>1, <2>2
  <2>4. proposals' = [i \in 1..Len(proposals) |-> proposals'[i]]
    BY <2>1
  <2>5. Len(proposals) \in Nat
    OBVIOUS
  <2>6. proposals' \in Seq(Requests) /\ Len(proposals') = Len(proposals)
    BY <2>3, <2>4, <2>5, IsASeq
  <2> QED
    BY <2>1, <2>6
<1>11. CASE CleanupDashboards \/ CleanupRules \/ CleanupRestart
  <2>1. \/ \E what \in {"restart", "delete rule", "delete dashboard"} : Carried(what)
        \/ proposals' = proposals /\ current' = current
    BY <1>11, Zenon DEF CleanupDashboards, CleanupRules, CleanupRestart, CarriesOut, LeavesAlone
  <2> QED
    BY <1>1, <1>3, <1>5, <2>1 DEF Carried
<1>12. CASE ResetStores
  <2>1. proposals' \in {<<>>, proposals} /\ current' = 0
    BY <1>12, Zenon DEF ResetStores
  <2>2. CASE proposals' = <<>>
    BY <2>1, <2>2
  <2> QED
    BY <1>3, <2>1, <2>2
<1>13. CASE UNCHANGED <<proposals, current>>
  BY <1>13
<1>14. ASSUME \/ Look \/ Crash \/ Execute \/ ExecuteUnconfirmed \/ Wait \/ Feed \/ Observe \/ Purge
             \/ Preflight \/ NextScenario \/ StartCleanup \/ CleanupSyslogListener \/ Verdict \/ Index
             \/ UNCHANGED liveVars
       PROVE UNCHANGED <<proposals, current>>
  BY <1>14, Zenon DEF Look, Crash, Execute, ExecuteUnconfirmed, Wait, Feed, Observe, Purge, Preflight,
     NextScenario, StartCleanup, CleanupSyslogListener, Verdict, Index, liveVars
<1> QED
  BY <1>6, <1>7, <1>8, <1>9, <1>10, <1>11, <1>12, <1>13, <1>14, Zenon DEF Next, Harness

-----------------------------------------------------------------------------
(* What the steps do. *)
LEMMA WhichRun ==
  ASSUME RunStep
  PROVE  /\ Head(script).op = "approve" => ApproveStep
         /\ Head(script).op = "propose" => Propose
         /\ Head(script).op = "execute" => Execute
         /\ Head(script).op = "loaded" => Look
         /\ Propose => Head(script).op = "propose"
         /\ Misuse => Head(script).op \in {"misuse", "bypass"}
         /\ Execute => Head(script).op = "execute"
         /\ ExecuteUnconfirmed => Head(script).op = "refused"
BY DEF RunStep, Look, Crash, Propose, Misuse, ApproveStep, Execute, ExecuteUnconfirmed, Wait, Feed,
   Observe, Purge, Running

LEMMA Effects ==
  /\ Effect("rule") => manager' = [manager EXCEPT !.file = TRUE] /\ server' = server
  /\ Effect("delete rule") => manager' = [manager EXCEPT !.file = FALSE] /\ server' = server
  /\ Effect("restart") => /\ manager' = [manager EXCEPT !.loaded = manager.file, !.ready = FALSE]
                          /\ server' = server
  /\ Effect("dashboard") => manager' = manager /\ server' = server \cup {"dashboard", "visualizations"}
  /\ Effect("delete dashboard") => manager' = manager /\ server' = server \ {"dashboard"}
  /\ \A what : Effect(what) => UNCHANGED <<listener, alerts>>
<1>1. Effect("rule") => manager' = [manager EXCEPT !.file = TRUE] /\ server' = server
  BY Zenon DEF Effect
<1>2. Effect("delete rule") => manager' = [manager EXCEPT !.file = FALSE] /\ server' = server
  BY Zenon DEF Effect
<1>3. Effect("restart") => /\ manager' = [manager EXCEPT !.loaded = manager.file, !.ready = FALSE]
                           /\ server' = server
  BY Zenon DEF Effect
<1>4. Effect("dashboard") => manager' = manager /\ server' = server \cup {"dashboard", "visualizations"}
  BY Zenon DEF Effect
<1>5. Effect("delete dashboard") => manager' = manager /\ server' = server \ {"dashboard"}
  BY Zenon DEF Effect
<1>6. \A what : Effect(what) => UNCHANGED <<listener, alerts>>
  BY Zenon DEF Effect
<1> QED
  BY <1>1, <1>2, <1>3, <1>4, <1>5, <1>6

LEMMA LookPasses ==
  ASSUME Look, Head(script).op = "loaded", rows' = "pass"
  PROVE  manager.loaded /\ manager' = manager
<1>1. manager' = manager
  BY DEF Look, envVars
<1>2. Writes(Sees, Blank) \/ \E outcome : Writes(FALSE, outcome)
  BY Zenon DEF Look
<1>3. \A outcome : ~Writes(FALSE, outcome)
  BY DEF Writes, Worse
<1>4. Writes(Sees, Blank) => Sees
  BY DEF Writes, Worse
<1>5. Sees => manager.loaded
  BY Zenon DEF Sees
<1> QED
  BY <1>1, <1>2, <1>3, <1>4, <1>5

-----------------------------------------------------------------------------
(* The invariant of the evidence: every scenario that was begun has some, but  *)
(* for the one under way.                                                      *)
EvidenceInv ==
  /\ \A i \in 1..at : log[Names[i]] # "none" \/ (i = at /\ script # <<>>)
  /\ result = "pass" => at = Len(Names) /\ script = <<>> /\ \A s \in Kept : log[s] # "fail"

LEMMA EvidenceIsKept ==
  ASSUME EvidenceInv, ScriptInv, LineInv, [Next]_liveVars
  PROVE  EvidenceInv'
<1>1. CASE RunStep
  <2>1. /\ phase = "scenarios" /\ script # <<>> /\ UNCHANGED <<phase, at, result>>
        /\ result # "pass" /\ at \in 1..Len(Names)
    BY <1>1, RunIsOn, BlankIsNoName DEF LineInv, ScriptInv
  <2>2. \A i \in 1..at : Names[i] \in Kept
    BY <2>1 DEF Kept
  <2>3. CASE script' = <<>> /\ \E mark \in {"pass", "fail"} : log' = [log EXCEPT ![Names[at]] = mark]
    BY <2>1, <2>2, <2>3 DEF EvidenceInv, ScriptInv
  <2>4. CASE script' # <<>> /\ log' = log
    BY <2>1, <2>4 DEF EvidenceInv
  <2> QED
    BY <1>1, <2>3, <2>4, ScriptMoves
<1>2. CASE CleanupStep
  <2>1. /\ UNCHANGED <<at, script, result>> /\ phase \notin {"scenarios", "done"}
        /\ log' = log \/ \E passed : CleanupRow(passed)
    BY <1>2, Zenon DEF CleanupStep, RejectLeftovers, CleanupDashboards, CleanupRules, CleanupRestart,
       CleanupSyslogListener, ResetStores, CleanRest, Cleaning, CarriesOut, LeavesAlone
  <2>2. result # "pass" /\ at \in 0..Len(Names) /\ \A i \in 1..at : Names[i] \in Kept
    BY <2>1, BlankIsNoName DEF LineInv, Kept
  <2>3. ASSUME NEW passed, CleanupRow(passed), NEW i \in 1..at, log[Names[i]] # "none"
        PROVE  log'[Names[i]] # "none"
    BY <2>2, <2>3 DEF CleanupRow, Worse, ScriptInv
  <2> QED
    BY <2>1, <2>2, <2>3 DEF EvidenceInv
<1>3. CASE Preflight
  <2>1. UNCHANGED <<at, script, log>> /\ phase = "preflight" /\ result' \in {result, "refused"}
    BY <1>3, Zenon DEF Preflight
  <2> QED
    BY <2>1 DEF EvidenceInv
<1>4. CASE NextScenario
  <2>1. at' = at + 1 /\ UNCHANGED <<log, result>> /\ script = <<>> /\ phase = "scenarios"
        /\ script' = Script(Names[at + 1], args.auto, "rule" \in created) /\ at + 1 \in 1..Len(Names)
        /\ at \in Nat
    BY <1>4 DEF NextScenario, LineInv
  <2>2. script' # <<>>
    <3>1. Names[at + 1] \in ScenarioNames /\ args.auto \in BOOLEAN /\ ("rule" \in created) \in BOOLEAN
      BY <2>1, NamesAssumption, ArgsAssumption DEF LineInv
    <3> QED
      BY <2>1, <3>1, ScriptsAreSound, Zenon DEF Fresh
  <2>3. result # "pass"
    BY <2>1, BlankIsNoName DEF LineInv
  <2> QED
    BY <2>1, <2>2, <2>3 DEF EvidenceInv
<1>5. CASE StartCleanup
  BY <1>5 DEF StartCleanup, EvidenceInv
<1>6. CASE Verdict
  <2>1. /\ UNCHANGED <<at, script, log>> /\ phase = "verdict"
        /\ result' = "pass" => \A s \in DOMAIN log : log[s] # "fail"
    BY <1>6, Zenon DEF Verdict, AllPass
  <2>2. at = Len(Names) /\ script = <<>> /\ DOMAIN log = Kept
    BY <2>1, BlankIsNoName DEF LineInv, ScriptInv
  <2> QED
    BY <2>1, <2>2 DEF EvidenceInv
<1>7. CASE Index
  BY <1>7 DEF Index, EvidenceInv
<1>8. CASE OperatorRejects
  BY <1>8 DEF OperatorRejects, EvidenceInv
<1>9. CASE UNCHANGED liveVars
  BY <1>9 DEF liveVars, EvidenceInv
<1> QED
  BY <1>1, <1>2, <1>3, <1>4, <1>5, <1>6, <1>7, <1>8, <1>9, Zenon DEF Next, Harness, RunStep, CleanupStep

-----------------------------------------------------------------------------
(* The invariant of the deployment: until the cleanup the rule is neither      *)
(* taken out of the file nor unloaded, since the deletion whose confirmation   *)
(* is probed is the one that is current; and with --auto-approve the detection *)
(* scenario ends by looking whether the rule is loaded.                        *)
Managers == [file : BOOLEAN, loaded : BOOLEAN, ready : BOOLEAN]
Uncleaned == phase \in {"preflight", "scenarios"} \/ ~args.cleanup

ProbesDeletion ==
  \A i \in 1..Len(script) : script[i].op = "refused" /\ i <= 2 =>
    current # 0 /\ proposals[current].what = "delete rule"

EndsInLook ==
  script # <<>> /\ Names[at] = "detection_ssh_rule" /\ args.auto =>
    script[Len(script)].op = "loaded"

LoadedWhenPassed ==
  Uncleaned /\ args.auto /\ "detection_ssh_rule" \in Kept /\ log["detection_ssh_rule"] = "pass" =>
    manager.loaded

DeployInv ==
  /\ manager \in Managers /\ (Uncleaned /\ manager.loaded => manager.file)
  /\ ProbesDeletion /\ EndsInLook /\ LoadedWhenPassed

LEMMA ManagerChanges ==
  ASSUME manager \in Managers
  PROVE  /\ [manager EXCEPT !.file = TRUE] \in Managers
         /\ [manager EXCEPT !.file = TRUE].file /\ [manager EXCEPT !.file = TRUE].loaded = manager.loaded
         /\ [manager EXCEPT !.file = FALSE] \in Managers
         /\ ~[manager EXCEPT !.file = FALSE].file
         /\ [manager EXCEPT !.file = FALSE].loaded = manager.loaded
         /\ \A ready \in BOOLEAN :
              LET m == [manager EXCEPT !.loaded = manager.file, !.ready = ready]
              IN  m \in Managers /\ m.file = manager.file /\ m.loaded = manager.file
         /\ LET m == [manager EXCEPT !.loaded = manager.file]
            IN  m \in Managers /\ m.file = manager.file /\ m.loaded = manager.file
         /\ LET m == [manager EXCEPT !.ready = TRUE]
            IN  m \in Managers /\ m.file = manager.file /\ m.loaded = manager.loaded
BY DEF Managers

LEMMA ProposesDeletion ==
  /\ ProposeDeletion.op = "propose" /\ ProposeDeletion.stop = "failure"
  /\ ProposeDeletion.arg = "delete rule"
BY DEF ProposeDeletion, Step

LEMMA ProbeAhead ==
  ASSUME DeployInv, NEW i \in 1..Len(script), script[i].op = "refused", i <= 2
  PROVE  current # 0 /\ proposals[current].what = "delete rule"
<1>1. ProbesDeletion
  BY DEF DeployInv
<1> QED
  BY <1>1, Zenon DEF ProbesDeletion

LEMMA MarkedKeepsWhat ==
  ASSUME StoreInv, NEW i \in 1..Len(proposals), NEW status,
         proposals' = proposals \/ proposals' = [proposals EXCEPT ![i].status = status]
  PROVE  \A j \in 1..Len(proposals) : proposals'[j].what = proposals[j].what
<1>1. \A j \in 1..Len(proposals) : proposals[j] \in Requests
  BY ElementOfSeq DEF StoreInv
<1>2. CASE proposals' = [proposals EXCEPT ![i].status = status]
  <2>1. \A j \in 1..Len(proposals) :
          proposals'[j] = IF j = i THEN [proposals[i] EXCEPT !.status = status] ELSE proposals[j]
    BY <1>2 DEF StoreInv
  <2>2. [proposals[i] EXCEPT !.status = status].what = proposals[i].what
    BY <1>1 DEF Requests
  <2> QED
    BY <2>1, <2>2
<1> QED
  BY <1>2

(* Before the cleanup the rule stays where it is. *)
LEMMA RuleStays ==
  ASSUME DeployInv, ScriptInv, StoreInv, RunStep
  PROVE  /\ manager' \in Managers /\ (manager.file => manager'.file)
         /\ (manager.loaded => manager'.loaded) /\ (manager'.loaded => manager'.file)
<1> DEFINE Stays == /\ manager' \in Managers /\ (manager.file => manager'.file)
                    /\ (manager.loaded => manager'.loaded) /\ (manager'.loaded => manager'.file)
<1>1. /\ manager \in Managers /\ (manager.loaded => manager.file) /\ script # <<>>
      /\ Head(script) = script[1] /\ Len(script) \in Nat \ {0} /\ Sound(script)
  <2>1. Uncleaned /\ script # <<>>
    BY RunIsOn DEF Uncleaned
  <2> QED
    BY <2>1, TailIsSound DEF DeployInv, ScriptInv
<1>2. CASE manager' = manager
  BY <1>1, <1>2
<1>3. CASE Execute
  <2>1. Arg \in {"rule", "restart", "dashboard"}
    <3>1. Head(script).op = "execute"
      BY <1>3, Zenon DEF Execute, Running
    <3> QED
      BY <1>1, <3>1 DEF Sound, Executes, Arg
  <2>2. Effect(Arg) \/ manager' = manager
    BY <1>3, Zenon DEF Execute, envVars
  <2>3. CASE manager' = [manager EXCEPT !.file = TRUE]
    BY <1>1, <2>3, ManagerChanges
  <2>4. CASE manager' = [manager EXCEPT !.loaded = manager.file, !.ready = FALSE]
    BY <1>1, <2>4, ManagerChanges
  <2> QED
    BY <1>2, <2>1, <2>2, <2>3, <2>4, Effects
<1>4. CASE ExecuteUnconfirmed
  <2>1. ~Executable(FALSE)
    <3>1. Head(script).op = "refused"
      BY <1>4, Zenon DEF ExecuteUnconfirmed, Running
    <3>2. 1 \in 1..Len(script) /\ script[1].op = "refused" /\ 1 <= 2
      BY <1>1, <3>1
    <3>3. proposals[current].what = "delete rule"
      BY <3>2, ProbeAhead, Zenon
    <3> QED
      BY <3>3, Zenon DEF Executable, NeedsConfirm
  <2> QED
    BY <1>2, <1>4, <2>1, Zenon DEF ExecuteUnconfirmed, envVars
<1>5. CASE Wait
  <2>1. manager' \in {manager, [manager EXCEPT !.ready = TRUE]}
    BY <1>5, Zenon DEF Wait
  <2> QED
    BY <1>1, <1>2, <2>1, ManagerChanges
<1>6. ASSUME Look \/ Crash \/ Propose \/ Misuse \/ ApproveStep \/ Feed \/ Observe \/ Purge
      PROVE  manager' = manager
  BY <1>6, Zenon DEF Look, Crash, Propose, Misuse, ApproveStep, Feed, Observe, Purge, envVars
<1> QED
  BY <1>2, <1>3, <1>4, <1>5, <1>6 DEF RunStep

(* A step that leaves more to do leaves the deletion to be probed current. *)
LEMMA ProbeIsKept ==
  ASSUME DeployInv, ScriptInv, StoreInv, RunStep, script' = Tail(script), script' # <<>>
  PROVE  ProbesDeletion'
<1>1. /\ script # <<>> /\ Len(script) \in Nat \ {0} /\ Len(script') = Len(script) - 1
      /\ \A i \in 1..(Len(script) - 1) : script'[i] = script[i + 1]
      /\ Head(script) = script[1] /\ Sound(script)
  BY RunIsOn, TailIsSound DEF ScriptInv
<1>2. Len(script) # 1
  <2>1. Len(script) = 1 => Len(script') = 0
    BY <1>1
  <2> QED
    BY <2>1, <1>1, TailIsSound, EmptySeq, ScriptMoves DEF ScriptInv, Sound
<1>3. ASSUME NEW passed, NEW outcome, Writes(passed, outcome), Head(script).stop = "failure"
      PROVE  passed
  <2>1. ~Over(passed, outcome)
    BY <1>1, <1>3, Zenon DEF Writes
  <2> QED
    BY <1>3, <2>1, Zenon DEF Over
<1>4. SUFFICES ASSUME NEW i \in 1..Len(script'), script'[i].op = "refused", i <= 2
               PROVE  current' # 0 /\ proposals'[current'].what = "delete rule"
  BY DEF ProbesDeletion
<1>5. CASE i = 1
  <2>1. script[2].op = "refused" /\ 2 \in 1..Len(script) /\ script[1] = ApproveIt
    BY <1>1, <1>4, <1>5 DEF Sound, Probes
  <2>2. current # 0 /\ proposals[current].what = "delete rule"
    <3>1. 2 <= 2
      OBVIOUS
    <3> QED
      BY <2>1, <3>1, ProbeAhead, Zenon
  <2>3. ApproveStep
    BY <1>1, <2>1, WhichRun DEF ApproveIt, Step
  <2>4. current' = current
    BY <2>3, Zenon DEF ApproveStep
  <2>5. proposals' = proposals \/ proposals' = [proposals EXCEPT ![current].status = "approved"]
    BY <2>3, Zenon DEF ApproveStep
  <2>6. current \in 1..Len(proposals) /\ proposals \in Seq(Requests)
    <3>1. current # 0 /\ proposals \in Seq(Requests) /\ current \in 0..Len(proposals)
      BY <2>2, Zenon DEF StoreInv
    <3>2. Len(proposals) \in Nat
      BY <3>1, LenProperties, Zenon
    <3> QED
      BY <3>1, <3>2
  <2>7. proposals'[current].what = proposals[current].what
    <3>1. current \in 1..Len(proposals)
      BY <2>6
    <3>2. \A j \in 1..Len(proposals) : proposals'[j].what = proposals[j].what
      BY <2>5, <3>1, MarkedKeepsWhat, Zenon
    <3> QED
      BY <2>6, <3>2
  <2> QED
    BY <2>2, <2>4, <2>7
<1>6. CASE i = 2
  <2>1. script[1] = ProposeDeletion
    BY <1>1, <1>4, <1>6 DEF Sound, Probes
  <2>2. /\ Head(script).op = "propose" /\ Head(script).stop = "failure" /\ Arg = "delete rule"
    BY <1>1, <2>1, ProposesDeletion, Zenon DEF Arg
  <2>3. Propose
    BY <2>2, WhichRun
  <2>4. \/ Proposed(Arg, TRUE)
        \/ \E outcome : Writes(FALSE, outcome)
    BY <2>3, Zenon DEF Propose
  <2>5. Proposed(Arg, TRUE)
    BY <1>3, <2>2, <2>4
  <2>6. current' = Len(proposals) + 1
        /\ proposals' = Append(proposals, [what |-> "delete rule", status |-> "pending", tracked |-> TRUE])
    BY <2>2, <2>5, Zenon DEF Proposed
  <2>7. proposals \in Seq(Requests)
    BY DEF StoreInv
  <2>8. proposals'[current'].what = "delete rule" /\ current' # 0
    <3> DEFINE r == [what |-> "delete rule", status |-> "pending", tracked |-> TRUE]
    <3>1. r.what = "delete rule"
      OBVIOUS
    <3> HIDE DEF r
    <3>2. Append(proposals, r)[Len(proposals) + 1] = r /\ Len(proposals) + 1 # 0
      BY <2>7
    <3> QED
      BY <2>6, <3>1, <3>2, Zenon DEF r
  <2> QED
    BY <2>8
<1>7. i \in {1, 2}
  BY <1>1, <1>4
<1> QED
  BY <1>5, <1>6, <1>7

(* The detection scenario passes only by seeing the rule loaded at its end. *)
LEMMA PassMeansLoaded ==
  ASSUME DeployInv, ScriptInv, LineInv, RunStep, args.auto,
         Names[at] = "detection_ssh_rule", log' # log, log'[Names[at]] = "pass"
  PROVE  manager.loaded
<1>1. /\ script # <<>> /\ Sound(script) /\ Len(script) \in Nat \ {0} /\ Head(script) = script[1]
      /\ at \in 1..Len(Names) /\ Names[at] \in DOMAIN log
  <2>1. script # <<>> /\ Sound(script) /\ at \in 1..Len(Names)
    BY RunIsOn DEF ScriptInv, LineInv
  <2> QED
    BY <2>1, TailIsSound DEF ScriptInv, Kept
<1>2. script[Len(script)].op = "loaded"
  BY <1>1, Zenon DEF DeployInv, EndsInLook
<1>3. ~Crash
  <2>1. ASSUME Crash PROVE FALSE
    <3>1. log' = [log EXCEPT ![Names[at]] = "fail"]
      BY <2>1, Zenon DEF Crash, CrashRow
    <3> QED
      BY <1>1, <3>1
  <2> QED
    BY <2>1
<1>4. PICK passed, outcome : Writes(passed, outcome) /\ (passed => outcome = Blank)
  BY <1>3, RunIsOn
<1>5. rows' = "pass" /\ passed /\ outcome = Blank /\ Over(passed, outcome)
  <2>1. Over(passed, outcome) /\ log' = [log EXCEPT ![Names[at]] = rows'] /\ (rows' = "pass" => passed)
    BY <1>1, <1>4, WritesMove
  <2> QED
    BY <1>1, <1>4, <2>1
<1>6. Len(script) = 1
  BY <1>5, BlankIsNoName, Zenon DEF Over
<1>7. Head(script).op = "loaded"
  BY <1>1, <1>2, <1>6
<1> QED
  BY <1>5, <1>7, WhichRun, LookPasses

LEMMA NothingLeft ==
  ASSUME script' = <<>>
  PROVE  ProbesDeletion' /\ EndsInLook'
<1>1. \A i : i \notin 1..Len(script')
  OBVIOUS
<1>2. ProbesDeletion'
  BY <1>1, Zenon DEF ProbesDeletion
<1> QED
  BY <1>2, Zenon DEF EndsInLook

LEMMA DeployIsKept ==
  ASSUME DeployInv, ScriptInv, StoreInv, LineInv, [Next]_liveVars
  PROVE  DeployInv'
<1>1. CASE RunStep
  <2>1. phase = "scenarios" /\ script # <<>> /\ UNCHANGED <<args, phase, at>> /\ at \in 1..Len(Names)
    BY <1>1, RunIsOn DEF ScriptInv, LineInv
  <2>2. /\ manager' \in Managers /\ (manager.loaded => manager'.loaded)
        /\ (manager'.loaded => manager'.file)
    BY <1>1, RuleStays
  <2>3. ProbesDeletion'
    <3>1. CASE script' = <<>>
      BY <3>1, NothingLeft
    <3>2. CASE script' = Tail(script) /\ script' # <<>>
      BY <1>1, <3>2, ProbeIsKept
    <3> QED
      BY <1>1, <3>1, <3>2, ScriptMoves
  <2>4. EndsInLook'
    <3>1. CASE script' = <<>>
      BY <3>1, NothingLeft
    <3>2. CASE script' = Tail(script) /\ script' # <<>>
      <4>1. /\ Len(script') = Len(script) - 1 /\ Len(script) \in Nat \ {0}
            /\ \A i \in 1..(Len(script) - 1) : script'[i] = script[i + 1]
        BY <2>1, <3>2, TailIsSound DEF ScriptInv
      <4>2. Len(script') # 0
        BY <1>1, <3>2, ScriptMoves, EmptySeq DEF ScriptInv, Sound
      <4>3. script'[Len(script')] = script[Len(script)]
        BY <4>1, <4>2
      <4>4. EndsInLook
        BY DEF DeployInv
      <4> QED
        BY <2>1, <4>3, <4>4, Zenon DEF EndsInLook
    <3> QED
      BY <1>1, <3>1, <3>2, ScriptMoves
  <2>5. LoadedWhenPassed'
    <3>1. SUFFICES ASSUME Uncleaned, args.auto, "detection_ssh_rule" \in Kept,
                          log'["detection_ssh_rule"] = "pass"
                   PROVE  manager'.loaded
      BY <2>1 DEF LoadedWhenPassed, Uncleaned, Kept
    <3>2. CASE log' = log
      BY <2>2, <3>1, <3>2 DEF DeployInv, LoadedWhenPassed
    <3>3. CASE log' # log /\ Names[at] = "detection_ssh_rule"
      BY <1>1, <2>2, <3>1, <3>3, PassMeansLoaded
    <3>4. CASE log' # log /\ Names[at] # "detection_ssh_rule"
      <4>1. log'["detection_ssh_rule"] = log["detection_ssh_rule"]
        BY <1>1, <3>1, <3>4, ScriptMoves DEF ScriptInv
      <4> QED
        BY <2>2, <3>1, <4>1 DEF DeployInv, LoadedWhenPassed
    <3> QED
      BY <3>2, <3>3, <3>4
  <2> QED
    BY <2>2, <2>3, <2>4, <2>5 DEF DeployInv
<1>2. ASSUME manager' \in Managers, script' = <<>>, ~Uncleaned'
      PROVE  DeployInv'
  BY <1>2, NothingLeft, Zenon DEF DeployInv, LoadedWhenPassed
<1>3. ASSUME script' = <<>>, Uncleaned' => Uncleaned, UNCHANGED <<args, log>>,
             manager' \in {manager, [manager EXCEPT !.loaded = manager.file]}, Uncleaned
      PROVE  DeployInv'
  <2>1. /\ manager' \in Managers /\ (manager.loaded => manager'.loaded)
        /\ (manager'.loaded => manager'.file)
    BY <1>3, ManagerChanges DEF DeployInv
  <2>2. LoadedWhenPassed'
    BY <1>3, <2>1 DEF DeployInv, LoadedWhenPassed, Kept
  <2> QED
    BY <1>3, <2>1, <2>2, NothingLeft DEF DeployInv
<1>4. CASE CleanupStep
  <2>1. /\ phase \notin {"preflight", "scenarios", "verdict", "done"}
        /\ phase' \notin {"preflight", "scenarios"} /\ args' = args /\ script' = script
    BY <1>4, Zenon DEF CleanupStep, RejectLeftovers, CleanupDashboards, CleanupRules, CleanupRestart,
       CleanupSyslogListener, ResetStores, CleanRest, Cleaning
  <2>2. script' = <<>> /\ ~Uncleaned'
    BY <2>1 DEF LineInv, ScriptInv, Uncleaned, Phases
  <2>3. \/ \E what \in {"restart", "delete rule", "delete dashboard"} : Effect(what)
        \/ manager' = manager
        \/ manager' = [manager EXCEPT !.loaded = manager.file, !.ready = TRUE]
    BY <1>4, Zenon DEF CleanupStep, RejectLeftovers, CleanupDashboards, CleanupRules, CleanupRestart,
       CleanupSyslogListener, ResetStores, CarriesOut, LeavesAlone, envVars
  <2>4. manager \in Managers
    BY DEF DeployInv
  <2>5. ASSUME NEW ready \in BOOLEAN, manager' = [manager EXCEPT !.loaded = manager.file, !.ready = ready]
        PROVE  manager' \in Managers
    BY <2>4, <2>5, ManagerChanges
  <2>6. ASSUME manager' = [manager EXCEPT !.file = FALSE]
        PROVE  manager' \in Managers
    BY <2>4, <2>6, ManagerChanges
  <2>7. manager' \in Managers
    BY <2>3, <2>4, <2>5, <2>6, Effects
  <2> QED
    BY <1>2, <2>2, <2>7
<1>5. CASE Preflight
  <2>1. /\ UNCHANGED <<args, script, log>> /\ phase = "preflight"
        /\ manager' \in {manager, [manager EXCEPT !.loaded = manager.file]}
    BY <1>5, Zenon DEF Preflight
  <2>2. script' = <<>> /\ Uncleaned
    BY <2>1 DEF ScriptInv, Uncleaned
  <2> QED
    BY <1>3, <2>1, <2>2
<1>6. CASE NextScenario
  <2>1. /\ at' = at + 1 /\ at + 1 \in 1..Len(Names)
        /\ script' = Script(Names[at + 1], args.auto, "rule" \in created)
        /\ UNCHANGED <<args, phase, log, manager>>
    BY <1>6 DEF NextScenario, LineInv, envVars
  <2>2. Names[at + 1] \in ScenarioNames /\ args.auto \in BOOLEAN /\ ("rule" \in created) \in BOOLEAN
    BY <2>1, NamesAssumption, ArgsAssumption DEF LineInv
  <2>3. /\ \A i \in 1..Len(script') : script'[i].op = "refused" => i >= 3
        /\ Names[at + 1] = "detection_ssh_rule" /\ args.auto => script'[Len(script')].op = "loaded"
    BY <2>1, <2>2, ScriptsAreSound, Zenon DEF Fresh
  <2>4. ProbesDeletion'
    <3>1. Len(script') \in Nat
      BY <2>1, <2>2, ScriptsAreSound, LenProperties, Zenon DEF Fresh, Sound
    <3>2. \A i \in 1..Len(script') : ~(script'[i].op = "refused" /\ i <= 2)
      BY <2>3, <3>1
    <3> QED
      BY <3>2, Zenon DEF ProbesDeletion
  <2>5. EndsInLook'
    BY <2>1, <2>3, Zenon DEF EndsInLook
  <2>6. LoadedWhenPassed' /\ manager' \in Managers /\ (Uncleaned' /\ manager'.loaded => manager'.file)
    BY <2>1 DEF DeployInv, LoadedWhenPassed, Uncleaned, Kept
  <2> QED
    BY <2>4, <2>5, <2>6 DEF DeployInv
<1>7. CASE StartCleanup
  <2>1. phase = "scenarios" /\ script' = <<>> /\ UNCHANGED <<args, log, manager>>
    BY <1>7 DEF StartCleanup, envVars
  <2> QED
    BY <1>3, <2>1 DEF Uncleaned
<1>8. CASE Verdict
  <2>1. phase = "verdict" /\ phase' = "done" /\ UNCHANGED <<args, log, manager, script>>
    BY <1>8 DEF Verdict, envVars
  <2>2. script' = <<>> /\ (Uncleaned' => Uncleaned) /\ manager \in Managers
    BY <2>1 DEF ScriptInv, Uncleaned, DeployInv
  <2> QED
    BY <1>2, <1>3, <2>1, <2>2
<1>9. CASE Index
  BY <1>9 DEF Index, DeployInv, ProbesDeletion, EndsInLook, LoadedWhenPassed, Uncleaned, Kept
<1>10. CASE OperatorRejects
  <2>1. UNCHANGED <<args, phase, at, script, log, current, manager>>
    BY <1>10 DEF OperatorRejects, envVars
  <2>2. PICK i \in 1..Len(proposals) : proposals' = [proposals EXCEPT ![i].status = "rejected"]
    BY <1>10, Zenon DEF OperatorRejects
  <2>3. \A j \in 1..Len(proposals) : proposals'[j].what = proposals[j].what
    BY <2>2, MarkedKeepsWhat
  <2>4. current # 0 => current \in 1..Len(proposals)
    BY DEF StoreInv
  <2>5. ProbesDeletion'
    BY <2>1, <2>3, <2>4 DEF DeployInv, ProbesDeletion
  <2> QED
    BY <2>1, <2>5 DEF DeployInv, EndsInLook, LoadedWhenPassed, Uncleaned, Kept
<1>11. CASE UNCHANGED liveVars
  BY <1>11 DEF liveVars, envVars, DeployInv, ProbesDeletion, EndsInLook, LoadedWhenPassed, Uncleaned, Kept
<1> QED
  BY <1>1, <1>4, <1>5, <1>6, <1>7, <1>8, <1>9, <1>10, <1>11, Zenon DEF Next, Harness, RunStep, CleanupStep

-----------------------------------------------------------------------------
RunInv == LineInv /\ ScriptInv /\ StoreInv /\ EvidenceInv /\ DeployInv

LEMMA InitRun == Init => RunInv
<1> SUFFICES ASSUME Init PROVE RunInv
  OBVIOUS
<1>1. Len(Names) \in Nat
  BY NamesAssumption, LenProperties, Zenon
<1>2. /\ args \in Args /\ phase = "preflight" /\ at = 0 /\ script = <<>> /\ rows = "none"
      /\ log = [s \in Kept |-> "none"]
      /\ manager = [file |-> FALSE, loaded |-> FALSE, ready |-> TRUE]
      /\ proposals = <<>> /\ current = 0 /\ result = Blank /\ faults = 0 /\ human = 0
  BY DEF Init, Kept
<1>3. LineInv
  BY <1>1, <1>2 DEF LineInv, Phases
<1>4. ScriptInv
  BY <1>2, EmptyIsSound DEF ScriptInv, Marks
<1>5. StoreInv
  <2>1. proposals \in Seq(Requests) /\ Len(proposals) = 0
    BY <1>2, EmptySeq, Zenon
  <2> QED
    BY <1>2, <2>1 DEF StoreInv
<1>6. EvidenceInv
  BY <1>2, BlankIsNoName DEF EvidenceInv
<1>7. ProbesDeletion /\ EndsInLook
  <2>1. \A i : i \notin 1..Len(script)
    BY <1>2
  <2> QED
    BY <1>2, <2>1, Zenon DEF ProbesDeletion, EndsInLook
<1>8. manager \in Managers /\ ~manager.loaded
  BY <1>2 DEF Managers
<1>9. LoadedWhenPassed
  BY <1>2 DEF LoadedWhenPassed, Kept
<1> QED
  BY <1>3, <1>4, <1>5, <1>6, <1>7, <1>8, <1>9 DEF RunInv, DeployInv

LEMMA RunIsKept == RunInv /\ [Next]_liveVars => RunInv'
BY LineIsKept, ScriptIsKept, StoreIsKept, EvidenceIsKept, DeployIsKept DEF RunInv

LEMMA PassWasEarned == RunInv => PassIsEarned
<1> SUFFICES ASSUME RunInv, result = "pass" PROVE PassIsEarned
  BY DEF PassIsEarned
<1>1. /\ at = Len(Names) /\ script = <<>> /\ \A s \in Kept : log[s] # "fail"
      /\ log \in [Kept -> Marks] /\ Len(Names) \in Nat
  BY NamesAssumption, LenProperties DEF RunInv, EvidenceInv, ScriptInv
<1>2. \A i \in 1..Len(Names) : Names[i] \in Kept /\ log[Names[i]] \in Marks /\ log[Names[i]] # "fail"
  BY <1>1 DEF Kept
<1>3. \A i \in 1..Len(Names) : log[Names[i]] # "none"
  BY <1>1, Zenon DEF RunInv, EvidenceInv
<1>4. \A i \in 1..Len(Names) : log[Names[i]] = "pass"
  BY <1>2, <1>3 DEF Marks
<1>5. ASSUME args.auto, ~args.cleanup, "detection_ssh_rule" \in DOMAIN log
      PROVE  manager.file /\ manager.loaded
  <2>1. "detection_ssh_rule" \in Kept
    BY <1>1, <1>5
  <2>2. log["detection_ssh_rule"] = "pass"
    BY <1>4, <2>1 DEF Kept
  <2>3. manager.loaded
    BY <1>5, <2>1, <2>2 DEF RunInv, DeployInv, LoadedWhenPassed, Uncleaned
  <2> QED
    BY <1>5, <2>3 DEF RunInv, DeployInv, Uncleaned
<1> QED
  BY <1>4, <1>5 DEF PassIsEarned

(* "ALL SCENARIOS PASS" is earned, whatever the scenarios, the command line,   *)
(* the faults and the operator: each scenario has evidence and none failed,    *)
(* and with --auto-approve and no cleanup the rule is in the manager's file    *)
(* and loaded (evidence.py, cli.py, scenarios.py).                             *)
THEOREM PassIsEarnedHolds == LiveSpec => []PassIsEarned
<1>1. LiveSpec => []RunInv
  BY InitRun, RunIsKept, PTL DEF LiveSpec
<1> QED
  BY <1>1, PassWasEarned, PTL

-----------------------------------------------------------------------------
(* The invariant of a calm run with --auto-approve: what is there is what the  *)
(* harness remembers, a rule in the file is loaded unless the restart that     *)
(* loads it is due, and the cleanup takes away one thing after the other.      *)
Calm == faults = 0 /\ human = 0 /\ args.auto

CurrentRestart(status) ==
  current # 0 /\ proposals[current].what = "restart" /\ proposals[current].status = status

RestartDue ==
  \/ /\ Len(script) >= 3 /\ script[1] = ProposeRestart /\ script[2] = ApproveIt
     /\ script[3] = ExecuteRestart
  \/ /\ Len(script) >= 2 /\ script[1] = ApproveIt /\ script[2] = ExecuteRestart
     /\ CurrentRestart("pending")
  \/ Len(script) >= 1 /\ script[1] = ExecuteRestart /\ CurrentRestart("approved")

Deploying == {"preflight", "scenarios", "leftovers", "clean dashboards"}
FromListener == {"clean listener", "reset", "verdict", "done"}

RuleRemembered ==
  phase \in Deploying \cup {"clean rules"} =>
    /\ manager.file <=> "rule" \in created
    /\ manager.loaded => manager.file
    /\ manager.file => manager.loaded \/ RestartDue

DashboardRemembered ==
  phase \in Deploying => ("dashboard" \in server => "dashboard" \in created)

TakenAway ==
  args.cleanup =>
    /\ phase \notin Deploying => "dashboard" \notin server
    /\ phase \in FromListener \cup {"clean restart"} => ~manager.file
    /\ phase \in FromListener => ~manager.loaded
    /\ phase \in FromListener \ {"clean listener"} => ~listener

CalmInv == Calm => RuleRemembered /\ DashboardRemembered /\ TakenAway

LEMMA RestartSteps123 ==
  /\ ProposeRestart.op = "propose" /\ ProposeRestart.arg = "restart" /\ ProposeRestart.stop = "failure"
  /\ ApproveIt.op = "approve" /\ ApproveIt.stop = "failure"
  /\ ExecuteRestart.op = "execute" /\ ExecuteRestart.arg = "restart"
BY DEF ProposeRestart, ApproveIt, ExecuteRestart, Step

(* A restart that is due takes place when nothing fails. *)
LEMMA DueRestart ==
  ASSUME RestartDue, RunStep, ~Fault, args.auto, ScriptInv, StoreInv
  PROVE  /\ UNCHANGED <<created, server>>
         /\ \/ manager' = manager /\ RestartDue'
            \/ manager' = [manager EXCEPT !.loaded = manager.file, !.ready = FALSE]
<1>1. /\ script # <<>> /\ Len(script) \in Nat \ {0} /\ Head(script) = script[1]
      /\ Len(Tail(script)) = Len(script) - 1
      /\ \A i \in 1..(Len(script) - 1) : Tail(script)[i] = script[i + 1]
      /\ proposals \in Seq(Requests) /\ Len(proposals) \in Nat /\ current \in 0..Len(proposals)
  BY RunIsOn, TailIsSound DEF ScriptInv, StoreInv
<1>2. ASSUME Writes(TRUE, Blank), Len(script) >= 2
      PROVE  script' = Tail(script)
  <2>1. Len(script) # 1
    BY <1>1, <1>2
  <2>2. ~Over(TRUE, Blank)
    BY <2>1, BlankIsNoName, Zenon DEF Over
  <2> QED
    BY <1>2, <2>2, Zenon DEF Writes
<1>3. CASE /\ Len(script) >= 3 /\ script[1] = ProposeRestart /\ script[2] = ApproveIt
           /\ script[3] = ExecuteRestart
  <2>1. Head(script).op = "propose" /\ Arg = "restart"
    BY <1>1, <1>3, RestartSteps123, Zenon DEF Arg
  <2>2. Propose
    BY <2>1, WhichRun
  <2>3. Proposable(Arg)
    BY <2>1 DEF Proposable
  <2>4. Proposed("restart", TRUE) /\ Writes(TRUE, Blank) /\ UNCHANGED <<created, server, manager>>
    BY <2>1, <2>2, <2>3, Zenon DEF Propose, envVars
  <2>5. script' = Tail(script) /\ Len(script') >= 2 /\ script'[1] = ApproveIt /\ script'[2] = ExecuteRestart
    BY <1>1, <1>2, <1>3, <2>4
  <2>6. CurrentRestart("pending")'
    <3> DEFINE r == [what |-> "restart", status |-> "pending", tracked |-> TRUE]
    <3>1. r.what = "restart" /\ r.status = "pending"
      OBVIOUS
    <3>2. proposals' = Append(proposals, r) /\ current' = Len(proposals) + 1
      BY <2>4, Zenon DEF Proposed
    <3> HIDE DEF r
    <3>3. Append(proposals, r)[Len(proposals) + 1] = r /\ Len(proposals) + 1 # 0
      BY <1>1
    <3> QED
      BY <3>1, <3>2, <3>3, Zenon DEF CurrentRestart
  <2> QED
    BY <2>4, <2>5, <2>6 DEF RestartDue
<1>4. CASE /\ Len(script) >= 2 /\ script[1] = ApproveIt /\ script[2] = ExecuteRestart
           /\ CurrentRestart("pending")
  <2>1. ApproveStep
    BY <1>1, <1>4, RestartSteps123, WhichRun, Zenon
  <2>2. Approvable
    BY <1>4, Zenon DEF Approvable, CurrentRestart
  <2>3. /\ proposals' = [proposals EXCEPT ![current].status = "approved"] /\ Writes(TRUE, Blank)
        /\ UNCHANGED <<created, server, manager, current>>
    BY <2>1, <2>2, Zenon DEF ApproveStep, envVars
  <2>4. script' = Tail(script) /\ Len(script') >= 1 /\ script'[1] = ExecuteRestart
    BY <1>1, <1>2, <1>4, <2>3
  <2>5. CurrentRestart("approved")'
    <3>1. current \in 1..Len(proposals)
      BY <1>1, <1>4 DEF CurrentRestart
    <3>2. proposals'[current].what = proposals[current].what
      BY <2>3, <3>1, MarkedKeepsWhat, Zenon
    <3>3. proposals'[current].status = "approved"
      <4>1. proposals[current] \in Requests
        BY <1>1, <3>1, ElementOfSeq
      <4>2. proposals'[current] = [proposals[current] EXCEPT !.status = "approved"]
        BY <1>1, <2>3, <3>1
      <4> QED
        BY <4>1, <4>2 DEF Requests
    <3> QED
      BY <1>4, <2>3, <3>2, <3>3, Zenon DEF CurrentRestart
  <2> QED
    BY <2>3, <2>4, <2>5 DEF RestartDue
<1>5. CASE Len(script) >= 1 /\ script[1] = ExecuteRestart /\ CurrentRestart("approved")
  <2>1. Head(script).op = "execute" /\ Arg = "restart"
    BY <1>1, <1>5, RestartSteps123, Zenon DEF Arg
  <2>2. Execute
    BY <2>1, WhichRun
  <2>3. Executable(Confirmed)
    BY <1>5, Zenon DEF Executable, Confirmed, CurrentRestart
  <2>4. Effect("restart") /\ created' = Remembered("restart")
    BY <2>1, <2>2, <2>3, Zenon DEF Execute
  <2>5. created' = created
    BY <2>4 DEF Remembered
  <2> QED
    BY <2>4, <2>5, Effects
<1> QED
  BY <1>3, <1>4, <1>5 DEF RestartDue

(* What a step of a scenario that does not fail does to the manager, the       *)
(* dashboards and what the harness remembers.                                  *)
LEMMA StepDoes ==
  ASSUME RunStep, ~Fault, ScriptInv, StoreInv, DeployInv
  PROVE  \/ /\ manager' \in {manager, [manager EXCEPT !.ready = TRUE],
                             [manager EXCEPT !.loaded = manager.file, !.ready = FALSE]}
            /\ created' = created /\ server' = server
         \/ /\ manager' = [manager EXCEPT !.file = TRUE] /\ created' = created \cup {"rule"}
            /\ server' = server /\ RestartDue'
         \/ /\ manager' = manager /\ created' = created \cup {"dashboard"}
            /\ server' = server \cup {"dashboard", "visualizations"}
<1>1. CASE Execute
  <2>1. /\ script # <<>> /\ Len(script) \in Nat \ {0} /\ Head(script) = script[1] /\ Sound(script)
        /\ Len(Tail(script)) = Len(script) - 1
        /\ \A i \in 1..(Len(script) - 1) : Tail(script)[i] = script[i + 1]
    BY RunIsOn, TailIsSound DEF ScriptInv
  <2>2. Head(script).op = "execute" /\ Head(script).arg = Arg
    BY <1>1, Zenon DEF Execute, Running, Arg
  <2>3. Arg \in {"rule", "restart", "dashboard"}
    BY <2>1, <2>2 DEF Sound, Executes
  <2>4. \/ Effect(Arg) /\ Writes(TRUE, Blank) /\ created' = Remembered(Arg)
        \/ UNCHANGED <<manager, server, created>>
    BY <1>1, Zenon DEF Execute, envVars
  <2>5. CASE Effect("rule") /\ Writes(TRUE, Blank) /\ created' = Remembered("rule") /\ Arg = "rule"
    <3>1. /\ 4 <= Len(script) /\ script[2] = ProposeRestart /\ script[3] = ApproveIt
          /\ script[4] = ExecuteRestart
      <4>1. 1 \in 1..Len(script) /\ script[1].op = "execute" /\ script[1].arg = "rule"
        BY <2>1, <2>2, <2>5
      <4> QED
        BY <2>1, <4>1 DEF Sound, RestartsRule
    <3>2. script' = Tail(script)
      <4>1. Len(script) # 1
        <5>1. ~(4 <= 1)
          OBVIOUS
        <5> QED
          BY <3>1, <5>1, Zenon
      <4> QED
        BY <2>5, <4>1, BlankIsNoName, Zenon DEF Writes, Over
    <3>3. RestartDue'
      BY <2>1, <3>1, <3>2 DEF RestartDue
    <3>4. created' = created \cup {"rule"}
      BY <2>5 DEF Remembered
    <3> QED
      BY <2>5, <3>3, <3>4, Effects
  <2>6. CASE Effect("restart") /\ created' = Remembered("restart")
    <3>1. created' = created
      BY <2>6 DEF Remembered
    <3> QED
      BY <2>6, <3>1, Effects
  <2>7. CASE Effect("dashboard") /\ created' = Remembered("dashboard")
    <3>1. created' = created \cup {"dashboard"}
      BY <2>7 DEF Remembered
    <3> QED
      BY <2>7, <3>1, Effects
  <2> QED
    BY <2>3, <2>4, <2>5, <2>6, <2>7
<1>2. CASE ExecuteUnconfirmed
  <2>1. ~Executable(FALSE)
    <3>1. 1 \in 1..Len(script) /\ script[1].op = "refused" /\ 1 <= 2
      <4>1. Head(script).op = "refused" /\ script # <<>>
        BY <1>2, Zenon DEF ExecuteUnconfirmed, Running
      <4> QED
        BY <4>1, TailIsSound DEF ScriptInv
    <3>2. proposals[current].what = "delete rule"
      BY <3>1, ProbeAhead, Zenon
    <3> QED
      BY <3>2, Zenon DEF Executable, NeedsConfirm
  <2>2. UNCHANGED <<manager, server, created>>
    BY <1>2, <2>1, Zenon DEF ExecuteUnconfirmed, envVars
  <2> QED
    BY <2>2
<1>3. CASE Wait
  <2>1. manager' \in {manager, [manager EXCEPT !.ready = TRUE]} /\ UNCHANGED <<server, created>>
    BY <1>3, Zenon DEF Wait
  <2> QED
    BY <2>1
<1>4. CASE Look \/ Crash \/ Propose \/ Misuse \/ ApproveStep \/ Feed \/ Observe \/ Purge
  <2>1. UNCHANGED <<manager, server, created>>
    BY <1>4, Zenon DEF Look, Crash, Propose, Misuse, ApproveStep, Feed, Observe, Purge, envVars
  <2> QED
    BY <2>1
<1> QED
  BY <1>1, <1>2, <1>3, <1>4 DEF RunStep

(* Outside the scenarios no restart is due. *)
LEMMA NothingIsDue ==
  ASSUME ScriptInv, phase # "scenarios"
  PROVE  ~RestartDue
<1>1. Len(script) = 0
  BY DEF ScriptInv
<1> QED
  BY <1>1 DEF RestartDue

LEMMA CalmIsKept ==
  ASSUME CalmInv, RunInv, [Next]_liveVars
  PROVE  CalmInv'
<1> SUFFICES ASSUME Calm'
             PROVE  RuleRemembered' /\ DashboardRemembered' /\ TakenAway'
  BY DEF CalmInv
<1>1. /\ LineInv /\ ScriptInv /\ StoreInv /\ DeployInv /\ faults \in Nat /\ human \in Nat
      /\ manager \in Managers
  BY DEF RunInv, LineInv, DeployInv
<1>2. args' = args /\ faults' \in {faults, faults + 1} /\ human' \in {human, human + 1}
  <2>1. CASE RunStep
    BY <2>1, RunIsOn, Zenon DEF Fine, Fault
  <2>2. CASE CleanupStep
    <3>1. UNCHANGED <<args, human>> /\ (Fine \/ Fault)
      BY <2>2, Zenon DEF CleanupStep, RejectLeftovers, CleanupDashboards, CleanupRules, CleanupRestart,
         CleanupSyslogListener, ResetStores, CleanRest, CarriesOut, LeavesAlone
    <3> QED
      BY <3>1, Zenon DEF Fine, Fault
  <2>3. CASE Preflight
    BY <2>3, Zenon DEF Preflight, Fine, Fault
  <2>4. CASE NextScenario \/ StartCleanup \/ Verdict \/ Index \/ OperatorRejects \/ UNCHANGED liveVars
    BY <2>4, Zenon DEF NextScenario, StartCleanup, Verdict, Index, OperatorRejects, liveVars
  <2> QED
    BY <2>1, <2>2, <2>3, <2>4, Zenon DEF Next, Harness, RunStep, CleanupStep
<1>3. Calm /\ faults' = faults /\ human' = human /\ ~Fault
  BY <1>1, <1>2 DEF Calm, Fault
<1>4. RuleRemembered /\ DashboardRemembered /\ TakenAway /\ args.auto
  BY <1>3 DEF CalmInv, Calm
<1>5. ~OperatorRejects
  <2>1. human + 1 # human
    BY <1>1
  <2> QED
    BY <1>3, <2>1, Zenon DEF OperatorRejects
<1>6. CASE RunStep
  <2>1. phase = "scenarios" /\ phase' = "scenarios"
    BY <1>6, RunIsOn
  <2>2. /\ manager.file <=> "rule" \in created
        /\ manager.loaded => manager.file
        /\ manager.file => manager.loaded \/ RestartDue
        /\ "dashboard" \in server => "dashboard" \in created
    BY <1>4, <2>1 DEF RuleRemembered, DashboardRemembered, Deploying
  <2>3. SUFFICES /\ manager'.file <=> "rule" \in created'
                 /\ manager'.loaded => manager'.file
                 /\ manager'.file => manager'.loaded \/ RestartDue'
                 /\ "dashboard" \in server' => "dashboard" \in created'
    BY <2>1 DEF RuleRemembered, DashboardRemembered, TakenAway, Deploying, FromListener
  <2>4. CASE RestartDue
    <3>1. /\ UNCHANGED <<created, server>>
          /\ \/ manager' = manager /\ RestartDue'
             \/ manager' = [manager EXCEPT !.loaded = manager.file, !.ready = FALSE]
      BY <1>1, <1>3, <1>4, <1>6, <2>4, DueRestart
    <3> QED
      BY <1>1, <2>2, <3>1, ManagerChanges
  <2>5. CASE ~RestartDue
    <3>1. \/ /\ manager' \in {manager, [manager EXCEPT !.ready = TRUE],
                              [manager EXCEPT !.loaded = manager.file, !.ready = FALSE]}
             /\ created' = created /\ server' = server
          \/ /\ manager' = [manager EXCEPT !.file = TRUE] /\ created' = created \cup {"rule"}
             /\ server' = server /\ RestartDue'
          \/ /\ manager' = manager /\ created' = created \cup {"dashboard"}
             /\ server' = server \cup {"dashboard", "visualizations"}
      BY <1>1, <1>3, <1>6, StepDoes
    <3>2. CASE /\ manager' \in {manager, [manager EXCEPT !.ready = TRUE],
                                [manager EXCEPT !.loaded = manager.file, !.ready = FALSE]}
               /\ created' = created /\ server' = server
      BY <1>1, <2>2, <2>5, <3>2, ManagerChanges
    <3>3. CASE /\ manager' = [manager EXCEPT !.file = TRUE] /\ created' = created \cup {"rule"}
               /\ server' = server /\ RestartDue'
      BY <1>1, <2>2, <3>3, ManagerChanges
    <3>4. CASE /\ manager' = manager /\ created' = created \cup {"dashboard"}
               /\ server' = server \cup {"dashboard", "visualizations"}
      BY <2>2, <2>5, <3>4
    <3> QED
      BY <3>1, <3>2, <3>3, <3>4
  <2> QED
    BY <2>4, <2>5
<1>7. CASE Preflight
  <2>1. /\ phase = "preflight" /\ phase' = "scenarios"
        /\ UNCHANGED <<script, server, proposals, current, created>>
        /\ manager' \in {manager, [manager EXCEPT !.loaded = manager.file]}
    BY <1>3, <1>7, Zenon DEF Preflight
  <2>2. /\ manager.file <=> "rule" \in created
        /\ manager.loaded => manager.file
        /\ manager.file => manager.loaded \/ RestartDue
        /\ "dashboard" \in server => "dashboard" \in created
    BY <1>4, <2>1 DEF RuleRemembered, DashboardRemembered, Deploying
  <2>3. RestartDue' <=> RestartDue
    BY <2>1, Zenon DEF RestartDue, CurrentRestart
  <2>4. RuleRemembered'
    BY <1>1, <2>1, <2>2, <2>3, ManagerChanges DEF RuleRemembered
  <2> QED
    BY <2>1, <2>2, <2>4 DEF DashboardRemembered, TakenAway, Deploying, FromListener
<1>8. CASE NextScenario
  <2>1. /\ phase = "scenarios" /\ phase' = "scenarios" /\ script = <<>>
        /\ UNCHANGED <<args, manager, server, listener, created>>
    BY <1>8, Zenon DEF NextScenario, envVars
  <2>2. ~RestartDue
    <3>1. Len(script) = 0
      BY <2>1
    <3> QED
      BY <3>1 DEF RestartDue
  <2> QED
    BY <1>4, <2>1, <2>2 DEF RuleRemembered, DashboardRemembered, TakenAway, Deploying, FromListener
<1>9. ASSUME UNCHANGED <<script, manager, server, listener, proposals, current, created>>,
             phase' = phase
      PROVE  RuleRemembered' /\ DashboardRemembered' /\ TakenAway'
  <2>1. RestartDue' <=> RestartDue
    BY <1>9, Zenon DEF RestartDue, CurrentRestart
  <2> QED
    BY <1>2, <1>4, <1>9, <2>1 DEF RuleRemembered, DashboardRemembered, TakenAway
<1>10. CASE StartCleanup
  <2>1. /\ phase = "scenarios" /\ phase' = IF args.cleanup THEN "leftovers" ELSE "verdict"
        /\ UNCHANGED <<args, script, manager, server, listener, proposals, current, created>>
    BY <1>10, Zenon DEF StartCleanup, envVars
  <2>2. RestartDue' <=> RestartDue
    BY <2>1, Zenon DEF RestartDue, CurrentRestart
  <2> QED
    BY <1>4, <2>1, <2>2 DEF RuleRemembered, DashboardRemembered, TakenAway, Deploying, FromListener
<1>11. CASE Verdict
  <2>1. /\ phase = "verdict" /\ phase' = "done" /\ UNCHANGED <<args, manager, server, listener>>
    BY <1>11, Zenon DEF Verdict, envVars
  <2> QED
    BY <1>4, <2>1 DEF RuleRemembered, DashboardRemembered, TakenAway, Deploying, FromListener
<1>12. CASE CleanupStep
  <2>1. CASE RejectLeftovers
    <3>1. /\ phase = "leftovers" /\ phase' = "clean dashboards"
          /\ UNCHANGED <<args, script, manager, server, listener, created>>
      BY <2>1, Zenon DEF RejectLeftovers, CleanRest, Cleaning, envVars
    <3>2. ~RestartDue
      BY <1>1, <3>1, NothingIsDue
    <3> QED
      BY <1>4, <3>1, <3>2 DEF RuleRemembered, DashboardRemembered, TakenAway, Deploying, FromListener
  <2>2. CASE CleanupDashboards
    <3>1. /\ phase = "clean dashboards" /\ phase' = "clean rules" /\ UNCHANGED <<args, script, created>>
          /\ IF "dashboard" \in created THEN Effect("delete dashboard")
             ELSE UNCHANGED <<manager, server, listener>>
      <4>1. Proposable("delete dashboard")
        BY DEF Proposable
      <4> QED
        BY <1>3, <1>4, <2>2, <4>1, Zenon DEF CleanupDashboards, CarriesOut, LeavesAlone, CleanRest,
           Cleaning, envVars
    <3>2. ~RestartDue
      BY <1>1, <3>1, NothingIsDue
    <3>3. manager' = manager /\ "dashboard" \notin server'
      BY <1>4, <3>1, Effects DEF DashboardRemembered, Deploying
    <3> QED
      BY <1>4, <3>1, <3>2, <3>3 DEF RuleRemembered, DashboardRemembered, TakenAway, Deploying, FromListener
  <2>3. CASE CleanupRules
    <3>1. /\ phase = "clean rules" /\ phase' \in {"clean restart", "clean listener"}
          /\ UNCHANGED <<args, script, created>>
      BY <2>3, Zenon DEF CleanupRules, CleanRest, Cleaning
    <3>2. /\ manager.file <=> "rule" \in created
          /\ manager.loaded <=> manager.file
      <4>1. ~RestartDue
        BY <1>1, <3>1, NothingIsDue
      <4> QED
        BY <1>4, <3>1, <4>1 DEF RuleRemembered, Deploying
    <3>3. CASE "rule" \notin created
      <4>1. UNCHANGED <<manager, server, listener>> /\ ~manager.file /\ ~manager.loaded
        BY <2>3, <3>2, <3>3, Zenon DEF CleanupRules, LeavesAlone, envVars
      <4> QED
        BY <1>4, <3>1, <4>1 DEF RuleRemembered, DashboardRemembered, TakenAway, Deploying, FromListener
    <3>4. CASE "rule" \in created
      <4>1. Proposable("delete rule") /\ manager.loaded
        BY <3>2, <3>4 DEF Proposable
      <4>2. Effect("delete rule") /\ phase' = "clean restart"
        BY <1>3, <1>4, <2>3, <3>4, <4>1, Zenon DEF CleanupRules, CarriesOut
      <4>3. ~manager'.file /\ server' = server /\ listener' = listener
        BY <1>1, <4>2, Effects, ManagerChanges
      <4> QED
        BY <1>4, <3>1, <4>2, <4>3 DEF RuleRemembered, DashboardRemembered, TakenAway, Deploying, FromListener
    <3> QED
      BY <3>3, <3>4
  <2>4. CASE CleanupRestart
    <3>1. /\ phase = "clean restart" /\ phase' = "clean listener" /\ args' = args
          /\ Effect("restart")
      <4>1. Proposable("restart")
        BY DEF Proposable
      <4> QED
        BY <1>3, <2>4, <4>1, Zenon DEF CleanupRestart, CarriesOut, CleanRest, Cleaning
    <3>2. /\ manager'.file = manager.file /\ manager'.loaded = manager.file /\ server' = server
      BY <1>1, <3>1, Effects, ManagerChanges
    <3> QED
      BY <1>4, <3>1, <3>2 DEF RuleRemembered, DashboardRemembered, TakenAway, Deploying, FromListener
  <2>5. CASE CleanupSyslogListener
    <3>1. /\ phase = "clean listener" /\ phase' = "reset" /\ args' = args /\ server' = server
          /\ ~listener'
          /\ manager' = manager \/ manager' = [manager EXCEPT !.loaded = manager.file, !.ready = TRUE]
      <4>1. /\ phase = "clean listener" /\ phase' = "reset" /\ args' = args /\ server' = server
            /\ \/ ~listener /\ listener' = listener /\ manager' = manager
               \/ /\ listener' = FALSE
                  /\ manager' = [manager EXCEPT !.loaded = manager.file, !.ready = TRUE]
        BY <1>3, <2>5, Zenon DEF CleanupSyslogListener, CleanRest, Cleaning
      <4>2. ~listener'
        BY <4>1, Zenon
      <4> QED
        BY <4>1, <4>2
    <3>2. manager'.file = manager.file /\ (manager'.loaded => manager.loaded \/ manager.file)
      BY <1>1, <3>1, ManagerChanges
    <3> QED
      BY <1>4, <3>1, <3>2 DEF RuleRemembered, DashboardRemembered, TakenAway, Deploying, FromListener
  <2>6. CASE ResetStores
    <3>1. /\ phase = "reset" /\ phase' = "verdict" /\ UNCHANGED <<args, manager, server, listener>>
      BY <2>6, Zenon DEF ResetStores, CleanRest, Cleaning, envVars
    <3> QED
      BY <1>4, <3>1 DEF RuleRemembered, DashboardRemembered, TakenAway, Deploying, FromListener
  <2> QED
    BY <1>12, <2>1, <2>2, <2>3, <2>4, <2>5, <2>6 DEF CleanupStep
<1>13. CASE Index \/ UNCHANGED liveVars
  <2>1. UNCHANGED <<script, manager, server, listener, proposals, current, created>> /\ phase' = phase
    BY <1>13, Zenon DEF Index, liveVars, envVars
  <2> QED
    BY <1>9, <2>1
<1> QED
  BY <1>5, <1>6, <1>7, <1>8, <1>10, <1>11, <1>12, <1>13, Zenon DEF Next, Harness, RunStep, CleanupStep

(* A run with --auto-approve and --cleanup in which nothing goes wrong and the *)
(* operator does not interfere leaves neither the rule nor the dashboard nor   *)
(* the listener behind (cleanup.py).                                           *)
THEOREM CalmRunLeavesNothingHolds == LiveSpec => []CalmRunLeavesNothing
<1>1. Init => CalmInv
  BY DEF Init, CalmInv, RuleRemembered, DashboardRemembered, TakenAway, Deploying, FromListener
<1>2. RunInv /\ CalmInv /\ [Next]_liveVars => RunInv' /\ CalmInv'
  BY RunIsKept, CalmIsKept
<1>3. LiveSpec => [](RunInv /\ CalmInv)
  BY InitRun, <1>1, <1>2, PTL DEF LiveSpec
<1>4. CalmInv => CalmRunLeavesNothing
  BY DEF CalmRunLeavesNothing, CalmInv, Calm, TakenAway, Deploying, FromListener
<1> QED
  BY <1>3, <1>4, PTL
=============================================================================
