------------------------ MODULE EngineerSessionProofs ------------------------
(* Proofs about a terminal session: nothing runs that the operator was not     *)
(* asked for, a sub-agent keeps to its limits, what a turn proposed is shown,  *)
(* and the history pairs calls and results.                                    *)
EXTENDS EngineerSession, SequenceTheorems, TLAPS

-----------------------------------------------------------------------------
(* The types.                                                                  *)
Messages == [role : {"user", "text", "calls", "tool"}, n : Nat]

Frames ==
  [agent : DOMAIN SubAgent \cup {"main"}, base : Base, turn : Nat, round : Nat, used : Nat,
   msgs : Seq(Messages), size : Nat, batch : Seq(Calls), inside : BOOLEAN, props : Seq(Nat)]

Fields ==
  /\ cli = [mode |-> cli.mode, phase |-> cli.phase, inline |-> cli.inline,
            delegation |-> cli.delegation, lean |-> cli.lean, always |-> cli.always,
            allowed |-> cli.allowed,
            history |-> cli.history, extra |-> cli.extra, review |-> cli.review,
            seen |-> cli.seen, stage |-> cli.stage, prompts |-> cli.prompts,
            commands |-> cli.commands]
  /\ log = [said |-> log.said, yes |-> log.yes,
            outage |-> log.outage, listed |-> log.listed, before |-> log.before,
            cut |-> log.cut, dropped |-> log.dropped]

TypeInv ==
  /\ env \in Settings
  /\ Fields
  /\ cli.mode \in Base
  /\ cli.history \in Seq(Messages) /\ cli.extra \in Seq(Nat) /\ cli.review \in Seq(Nat)
  /\ log.before \in Nat
  /\ stack \in Seq(Frames)
  /\ center \in Seq(Proposal)

(* The operator's word: a proposal that waits in a review for his approval or  *)
(* its execution has it.                                                       *)
AskedInv ==
  /\ cli.always \subseteq log.said \ ExecuteLevel
  /\ cli.phase \in {"prompt", "turn"} => cli.stage = "show"
  /\ cli.phase = "review" => cli.review # <<>>
  /\ cli.phase = "review" /\ cli.stage \in {"approve", "execute"} => Consented(Shown)

(* The ids in hand are those of stored proposals.                              *)
Ids == 1..Len(center)

IdsInv ==
  /\ ToSet(cli.review) \subseteq Ids
  /\ ToSet(cli.extra) \subseteq Ids
  /\ \A i \in 1..Len(stack) : ToSet(stack[i].props) \subseteq Ids

(* One agent runs, or one and the sub-agent it delegated to by a call that the *)
(* middleware handles.                                                         *)
StackInv ==
  /\ (cli.phase = "turn") = (stack # <<>>)
  /\ Len(stack) <= 2
  /\ Len(stack) = 2 => /\ stack[1].agent = "main" /\ stack[2].agent # "main"
                       /\ stack[1].inside /\ stack[1].batch # <<>>

(* A sub-agent's calls are counted and permitted; the main agent's are none of *)
(* the middleware's.                                                           *)
Confined(f) ==
  /\ f.agent # "main" =>
       /\ f.used <= SubAgent[f.agent].calls
       /\ ~f.inside /\ f.batch # <<>> /\ SubAgent[f.agent].limited =>
            \A j \in 1..Len(f.batch) :
              f.batch[j][1] = "answer" \/ f.batch[j][2] \in SubAgent[f.agent].tools
  /\ f.agent = "main" /\ ~f.inside /\ cli.delegation =>
       \A j \in 1..Len(f.batch) : f.batch[j][1] \notin {"skill", "mcp", "delegate"}

ConfinedInv == \A i \in 1..Len(stack) : Confined(stack[i])

(* What the turn stored is in the hands of its agents, until it is over.       *)
InHand ==
  (UNION {ToSet(stack[i].props) : i \in 1..Len(stack)})
    \cup (IF stack # <<>> /\ stack[1].agent = "main" THEN ToSet(cli.extra) ELSE {})

ShownInv ==
  /\ \A i \in 1..Len(stack) : stack[i].base = "analyst" => stack[i].props = <<>>
  /\ ~log.outage => Stored \subseteq IF Running THEN InHand ELSE log.listed

(* The history pairs calls and results; so do the engineer's messages, but for *)
(* the calls it is about to run.                                               *)
Calling(f) == ~f.inside /\ f.batch # <<>>

PairedFrame(f) ==
  f.agent = "main" /\ f.base = "engineer" =>
    /\ ~Calling(f) => Paired(f.msgs)
    /\ Calling(f) => \E ms \in Seq(Messages) :
                       /\ Paired(ms)
                       /\ f.msgs = ms \o <<Message("calls", f.size)>>
                       /\ f.size # 0

PairedInv ==
  ~log.cut /\ ~log.dropped =>
    /\ Paired(cli.history)
    /\ \A i \in 1..Len(stack) : PairedFrame(stack[i])

SessionInv ==
  TypeInv /\ AskedInv /\ IdsInv /\ StackInv /\ ConfinedInv /\ ShownInv /\ PairedInv

-----------------------------------------------------------------------------
(* Sequences.                                                                  *)
LEMMA ElementsOfAppended ==
  ASSUME NEW S, NEW s \in Seq(S), NEW e \in S
  PROVE  ToSet(Append(s, e)) = ToSet(s) \cup {e}
<1>1. /\ Append(s, e) \in Seq(S) /\ Len(Append(s, e)) = Len(s) + 1
      /\ \A i \in 1..Len(s) : Append(s, e)[i] = s[i]
      /\ Append(s, e)[Len(s) + 1] = e
  BY AppendProperties
<1>2. DOMAIN s = 1..Len(s) /\ DOMAIN Append(s, e) = 1..Len(s) + 1 /\ Len(s) \in Nat
  BY <1>1, LenProperties
<1> QED
  BY <1>1, <1>2 DEF ToSet

LEMMA ElementsOfBoth ==
  ASSUME NEW S, NEW s \in Seq(S), NEW t \in Seq(S)
  PROVE  s \o t \in Seq(S) /\ ToSet(s \o t) = ToSet(s) \cup ToSet(t)
<1>1. /\ s \o t \in Seq(S) /\ Len(s \o t) = Len(s) + Len(t)
      /\ \A i \in 1..Len(s) + Len(t) :
           (s \o t)[i] = IF i <= Len(s) THEN s[i] ELSE t[i - Len(s)]
  BY ConcatProperties
<1>2. /\ DOMAIN s = 1..Len(s) /\ DOMAIN t = 1..Len(t) /\ DOMAIN (s \o t) = 1..Len(s) + Len(t)
      /\ Len(s) \in Nat /\ Len(t) \in Nat
  BY <1>1, LenProperties
<1>3. ASSUME NEW i \in 1..Len(t) PROVE t[i] \in ToSet(s \o t)
  <2>1. Len(s) + i \in 1..Len(s) + Len(t) /\ ~(Len(s) + i <= Len(s)) /\ Len(s) + i - Len(s) = i
    BY <1>2
  <2> QED
    BY <1>1, <1>2, <2>1 DEF ToSet
<1>4. ASSUME NEW i \in 1..Len(s) PROVE s[i] \in ToSet(s \o t)
  <2>1. i \in 1..Len(s) + Len(t) /\ i <= Len(s)
    BY <1>2
  <2> QED
    BY <1>1, <1>2, <2>1 DEF ToSet
<1>5. ASSUME NEW i \in 1..Len(s) + Len(t) PROVE (s \o t)[i] \in ToSet(s) \cup ToSet(t)
  <2>1. CASE i <= Len(s)
    BY <1>1, <1>2, <2>1 DEF ToSet
  <2>2. CASE ~(i <= Len(s))
    <3>1. i - Len(s) \in 1..Len(t)
      BY <1>2, <2>2
    <3> QED
      BY <1>1, <1>2, <2>2, <3>1 DEF ToSet
  <2> QED
    BY <2>1, <2>2
<1> QED
  BY <1>1, <1>2, <1>3, <1>4, <1>5 DEF ToSet

LEMMA ElementsOfTail ==
  ASSUME NEW S, NEW s \in Seq(S), s # <<>>
  PROVE  /\ Head(s) \in ToSet(s) /\ Tail(s) \in Seq(S) /\ ToSet(Tail(s)) \subseteq ToSet(s)
         /\ Len(Tail(s)) = Len(s) - 1 /\ Len(s) \in Nat /\ (Tail(s) = <<>> <=> Len(s) = 1)
         /\ \A i \in 1..Len(Tail(s)) : i + 1 \in 1..Len(s) /\ Tail(s)[i] = s[i + 1]
         /\ Head(s) = s[1] /\ 1 \in 1..Len(s) /\ Len(s) # 0
<1>1. /\ Head(s) = s[1] /\ Tail(s) \in Seq(S) /\ Len(Tail(s)) = Len(s) - 1
      /\ \A i \in 1..Len(Tail(s)) : Tail(s)[i] = s[i + 1]
  BY HeadTailProperties
<1>2. /\ Len(s) \in Nat /\ DOMAIN s = 1..Len(s) /\ DOMAIN Tail(s) = 1..Len(Tail(s))
      /\ Len(s) # 0 /\ (Tail(s) = <<>> <=> Len(Tail(s)) = 0)
  BY <1>1, LenProperties, EmptySeq
<1> QED
  BY <1>1, <1>2 DEF ToSet

LEMMA TailOfMore ==
  ASSUME NEW S, NEW s \in Seq(S), Len(s) > 1
  PROVE  /\ Tail(s) \in Seq(S) /\ Tail(s) # <<>>
         /\ \A i \in 1..Len(Tail(s)) : i + 1 \in 1..Len(s) /\ Tail(s)[i] = s[i + 1]
<1>1. Len(s) \in Nat /\ s # <<>>
  BY LenProperties, EmptySeq
<1>2. PICK n \in Nat : n = Len(s)
  BY <1>1
<1>3. n # 1
  BY <1>2
<1> QED
  BY <1>1, <1>2, <1>3, ElementsOfTail

(* The stack has one or two agents, and the top of it is the last.             *)
LEMMA OneOrTwo ==
  ASSUME TypeInv, StackInv, Running
  PROVE  /\ Len(stack) \in {1, 2} /\ Top = stack[Len(stack)] /\ Top \in Frames
         /\ \A i \in 1..Len(stack) : stack[i] \in Frames
         /\ stack \in Seq(Frames)
<1>1. stack \in Seq(Frames) /\ stack # <<>> /\ Len(stack) <= 2
  BY DEF TypeInv, StackInv, Running
<1>2. Len(stack) \in Nat /\ Len(stack) # 0 /\ DOMAIN stack = 1..Len(stack)
  BY <1>1, LenProperties, EmptySeq
<1>3. \A i \in 1..Len(stack) : stack[i] \in Frames
  BY <1>1, ElementOfSeq
<1> QED
  BY <1>1, <1>2, <1>3 DEF Top, Last

LEMMA OnTop ==
  ASSUME TypeInv, StackInv, Running, NEW f \in Frames
  PROVE  /\ WithTop(f) \in Seq(Frames) /\ Len(WithTop(f)) = Len(stack)
         /\ WithTop(f)[Len(stack)] = f
         /\ Len(stack) = 2 => WithTop(f)[1] = stack[1]
<1>1. Len(stack) \in {1, 2} /\ stack \in Seq(Frames) /\ Front(stack) = SubSeq(stack, 1, Len(stack) - 1)
  BY OneOrTwo DEF Front
<1>2. CASE Len(stack) = 1
  <2>1. Front(stack) = <<>>
    BY <1>1, <1>2, SubSeqEmpty
  <2> QED
    BY <1>2, <2>1 DEF WithTop
<1>3. CASE Len(stack) = 2
  <2>1. /\ Front(stack) \in Seq(Frames) /\ Len(Front(stack)) = 1
        /\ Front(stack)[1] = stack[1]
    BY <1>1, <1>3, SubSeqProperties, OneOrTwo
  <2>2. <<f>> \in Seq(Frames) /\ Len(<<f>>) = 1 /\ <<f>>[1] = f
    OBVIOUS
  <2> QED
    BY <1>3, <2>1, <2>2, ConcatProperties DEF WithTop
<1> QED
  BY <1>1, <1>2, <1>3

-----------------------------------------------------------------------------
(* A fit new state of the agent that runs: what it was, with what this step    *)
(* stored.                                                                     *)
Fit(f) ==
  /\ f \in Frames /\ f.agent = Top.agent /\ f.base = Top.base
  /\ f.base = "analyst" => f.props = <<>>
  /\ f.agent # "main" => f.used <= SubAgent[f.agent].calls
  /\ ToSet(Top.props) \subseteq ToSet(f.props) /\ ToSet(f.props) \subseteq Ids'
  /\ Ids \subseteq Ids' /\ \A n \in Ids' : n \in Ids \/ n \in ToSet(f.props)
  /\ env' = env /\ center' \in Seq(Proposal)

(* What is logged at the end of an agent.                                      *)
Like(l) ==
  /\ l = [said |-> log.said, yes |-> log.yes, outage |-> l.outage,
          listed |-> log.listed, before |-> log.before, cut |-> log.cut, dropped |-> l.dropped]
  /\ (log.outage => l.outage) /\ (log.dropped => l.dropped)

LEMMA HandledFrame ==
  ASSUME NEW f \in Frames, f.batch # <<>>
  PROVE  /\ Handled(f) \in Frames
         /\ Handled(f).agent = f.agent /\ Handled(f).base = f.base /\ Handled(f).used = f.used
         /\ Handled(f).msgs = f.msgs /\ Handled(f).props = f.props
         /\ Handled(f).inside = f.inside \/ Handled(f).batch = <<>>
         /\ Handled(f).size = f.size \/ Handled(f).batch = <<>>
         /\ \A j \in 1..Len(Handled(f).batch) : \E i \in 1..Len(f.batch) :
              Handled(f).batch[j] = f.batch[i]
<1>1. /\ f.batch \in Seq(Calls) /\ Tail(f.batch) \in Seq(Calls) /\ Len(Tail(f.batch)) = Len(f.batch) - 1
      /\ \A i \in 1..Len(Tail(f.batch)) : i + 1 \in 1..Len(f.batch) /\ Tail(f.batch)[i] = f.batch[i + 1]
  BY ElementsOfTail DEF Frames
<1>2. <<>> \in Seq(Calls) /\ Len(<<>>) = 0 /\ f.round + 1 \in Nat
  BY EmptySeq DEF Frames
<1>3. CASE Len(f.batch) > 1
  <2>1. Handled(f) = [agent |-> f.agent, base |-> f.base, turn |-> f.turn, round |-> f.round,
                      used |-> f.used, msgs |-> f.msgs, size |-> f.size,
                      batch |-> Tail(f.batch), inside |-> f.inside, props |-> f.props]
    BY <1>3 DEF Handled, Frames
  <2>2. Handled(f) \in Frames
    BY <1>1, <2>1 DEF Frames
  <2> QED
    BY <1>1, <2>1, <2>2
<1>4. CASE ~(Len(f.batch) > 1)
  <2>1. Handled(f) = [agent |-> f.agent, base |-> f.base, turn |-> f.turn,
                      round |-> f.round + 1, used |-> f.used, msgs |-> f.msgs, size |-> 0,
                      batch |-> <<>>, inside |-> FALSE, props |-> f.props]
    BY <1>4 DEF Handled, Frames
  <2>2. Handled(f) \in Frames
    BY <1>2, <2>1 DEF Frames
  <2> QED
    BY <1>2, <2>1, <2>2
<1> QED
  BY <1>3, <1>4

(* What a frame with no call in hand needs to be paired.                       *)
LEMMA PairedAtRest ==
  ASSUME NEW f, f.batch = <<>>, f.agent = "main" /\ f.base = "engineer" => Paired(f.msgs)
  PROVE  PairedFrame(f)
BY DEF PairedFrame, Calling

LEMMA ConfinedAtRest ==
  ASSUME NEW f, f.batch = <<>>, f.agent # "main" => f.used <= SubAgent[f.agent].calls
  PROVE  Confined(f) /\ Confined(f)'
<1>1. Len(<<>>) = 0
  OBVIOUS
<1> QED
  BY <1>1 DEF Confined

(* What changes, if anything, while a turn goes on is what the operator said   *)
(* of the tools.                                                               *)
SameTurn ==
  /\ Fields' /\ AskedInv'
  /\ cli'.mode = cli.mode /\ cli'.history = cli.history /\ cli'.extra = cli.extra
  /\ cli'.review = cli.review /\ cli'.phase = cli.phase /\ cli'.delegation = cli.delegation
  /\ log'.before = log.before /\ log'.outage = log.outage /\ log'.listed = log.listed
  /\ log'.cut = log.cut /\ log'.dropped = log.dropped

(* The agent that runs goes on.                                                *)
LEMMA GoesOnKeeps ==
  ASSUME SessionInv, Running, NEW g, Fit(g), Confined(g),
         ~log.cut /\ ~log.dropped => PairedFrame(g),
         stack' = WithTop(g), SameTurn
  PROVE  SessionInv'
<1> USE DEF SessionInv
<1>1. /\ stack' \in Seq(Frames) /\ Len(stack') = Len(stack) /\ Len(stack) \in {1, 2}
      /\ stack'[Len(stack)] = g /\ (Len(stack) = 2 => stack'[1] = stack[1])
      /\ Top = stack[Len(stack)]
  BY OneOrTwo, OnTop DEF Fit
<1>2. stack' # <<>>
  BY <1>1, EmptySeq
<1>3. TypeInv'
  BY <1>1 DEF TypeInv, SameTurn, Fit
<1>4. AskedInv'
  BY DEF SameTurn
<1>5. IdsInv'
  BY <1>1 DEF IdsInv, Fit, SameTurn
<1>6. StackInv'
  BY <1>1, <1>2 DEF StackInv, Fit, Running, SameTurn
<1>7. ConfinedInv'
  BY <1>1 DEF ConfinedInv, Confined, SameTurn
<1>8. ShownInv'
  <2>1. \A i \in 1..Len(stack') : stack'[i].base = "analyst" => stack'[i].props = <<>>
    BY <1>1 DEF ShownInv, Fit
  <2>2. InHand \subseteq InHand' /\ ToSet(g.props) \subseteq InHand'
    <3>1. \A i \in 1..Len(stack) : ToSet(stack[i].props) \subseteq ToSet(stack'[i].props)
      BY <1>1 DEF Fit
    <3>2. stack'[1].agent = stack[1].agent
      BY <1>1 DEF Fit
    <3> QED
      BY <1>1, <1>2, <3>1, <3>2 DEF InHand, SameTurn
  <2>3. Stored' \subseteq Stored \cup ToSet(g.props)
    BY DEF Stored, Fit, Ids, TypeInv, SameTurn
  <2> QED
    BY <2>1, <2>2, <2>3 DEF ShownInv, Running, SameTurn
<1>9. PairedInv'
  BY <1>1 DEF PairedInv, SameTurn
<1> QED
  BY <1>3, <1>4, <1>5, <1>6, <1>7, <1>8, <1>9

-----------------------------------------------------------------------------
(* Paired messages.                                                            *)
LEMMA PairedStays ==
  ASSUME NEW h \in Seq(Messages), NEW g \in Seq(Messages), Paired(h), Len(h) <= Len(g),
         \A i \in 1..Len(h) : g[i] = h[i], NEW i \in 1..Len(h)
  PROVE  /\ g[i].role = "tool" => ResultOf(g, i)
         /\ g[i].role = "calls" => \A k \in i + 1..i + g[i].n : k <= Len(g) /\ g[k].role = "tool"
<1>1. Len(h) \in Nat /\ Len(g) \in Nat /\ h[i] \in Messages
  BY LenProperties, ElementOfSeq
<1>2. ASSUME g[i].role = "tool" PROVE ResultOf(g, i)
  <2>1. ResultOf(h, i)
    BY <1>2 DEF Paired
  <2>2. PICK j \in 1..i - 1 : /\ h[j].role = "calls" /\ i - j <= h[j].n
                              /\ \A k \in j + 1..i : h[k].role = "tool"
    BY <2>1 DEF ResultOf
  <2>3. j \in 1..Len(h) /\ \A k \in j + 1..i : k \in 1..Len(h)
    BY <1>1
  <2> QED
    BY <2>2, <2>3 DEF ResultOf
<1>3. ASSUME g[i].role = "calls", NEW k \in i + 1..i + g[i].n
      PROVE  k <= Len(g) /\ g[k].role = "tool"
  <2>1. k <= Len(h) /\ h[k].role = "tool"
    BY <1>3 DEF Paired
  <2> QED
    BY <1>1, <2>1
<1> QED
  BY <1>2, <1>3

(* A message of the operator, or an answer in text.                            *)
LEMMA PairedAndText ==
  ASSUME NEW h \in Seq(Messages), NEW m \in Messages, m.role \in {"user", "text"}
  PROVE  /\ Append(h, m) \in Seq(Messages) /\ h \o <<m>> = Append(h, m)
         /\ Paired(h) => Paired(Append(h, m))
<1>1. /\ Append(h, m) \in Seq(Messages) /\ Len(Append(h, m)) = Len(h) + 1 /\ Len(h) \in Nat
      /\ \A i \in 1..Len(h) : Append(h, m)[i] = h[i]
      /\ Append(h, m)[Len(h) + 1] = m
  BY AppendProperties, LenProperties
<1>2. h \o <<m>> = Append(h, m)
  BY AppendIsConcat
<1>3. ASSUME NEW g, g = Append(h, m), Paired(h) PROVE Paired(g)
  <2> SUFFICES ASSUME NEW i \in 1..Len(g)
               PROVE  /\ g[i].role = "tool" => ResultOf(g, i)
                      /\ g[i].role = "calls" =>
                           \A k \in i + 1..i + g[i].n : k <= Len(g) /\ g[k].role = "tool"
    BY DEF Paired
  <2>1. CASE i = Len(h) + 1
    BY <1>1, <1>3, <2>1
  <2>2. CASE i \in 1..Len(h)
    <3>1. g \in Seq(Messages) /\ Len(h) <= Len(g) /\ \A j \in 1..Len(h) : g[j] = h[j]
      BY <1>1, <1>3
    <3> QED
      BY <1>3, <2>2, <3>1, PairedStays
  <2> QED
    BY <1>1, <1>3, <2>1, <2>2
<1> QED
  BY <1>1, <1>2, <1>3

(* Calls and as many results.                                                  *)
LEMMA PairedAndResults ==
  ASSUME NEW h \in Seq(Messages), Paired(h), NEW n \in Nat, n # 0,
         NEW rs \in Seq(Messages), Len(rs) = n, \A i \in 1..n : rs[i].role = "tool"
  PROVE  Paired((h \o <<Message("calls", n)>>) \o rs)
<1> DEFINE c == Message("calls", n)
           g == (h \o <<c>>) \o rs
<1>1. c \in Messages /\ c.role = "calls" /\ c.n = n /\ Len(h) \in Nat
  BY LenProperties DEF Message, Messages
<1> HIDE DEF c
<1>2. h \o <<c>> \in Seq(Messages) /\ Len(h \o <<c>>) = Len(h) + 1
      /\ \A i \in 1..Len(h) + 1 : (h \o <<c>>)[i] = IF i <= Len(h) THEN h[i] ELSE <<c>>[i - Len(h)]
  <2>1. <<c>> \in Seq(Messages) /\ Len(<<c>>) = 1
    BY <1>1
  <2> DEFINE t == <<c>>
  <2> HIDE DEF t
  <2>2. /\ h \o t \in Seq(Messages) /\ Len(h \o t) = Len(h) + Len(t)
        /\ \A i \in 1..Len(h) + Len(t) : (h \o t)[i] = IF i <= Len(h) THEN h[i] ELSE t[i - Len(h)]
    <3>1. t \in Seq(Messages)
      BY <2>1 DEF t
    <3> QED
      BY <3>1, ConcatProperties
  <2> QED
    BY <2>1, <2>2 DEF t
<1>3. /\ g \in Seq(Messages) /\ Len(g) = Len(h) + 1 + n
      /\ \A i \in 1..Len(h) + 1 + n :
           g[i] = IF i <= Len(h) + 1 THEN (h \o <<c>>)[i] ELSE rs[i - (Len(h) + 1)]
  <2> DEFINE hc == h \o <<c>>
  <2> HIDE DEF hc
  <2>1. hc \in Seq(Messages) /\ Len(hc) = Len(h) + 1
    BY <1>2 DEF hc
  <2>2. /\ hc \o rs \in Seq(Messages) /\ Len(hc \o rs) = Len(hc) + Len(rs)
        /\ \A i \in 1..Len(hc) + Len(rs) :
             (hc \o rs)[i] = IF i <= Len(hc) THEN hc[i] ELSE rs[i - Len(hc)]
    BY <2>1, ConcatProperties
  <2> QED
    BY <2>1, <2>2 DEF hc
<1>4. \A i \in 1..Len(h) : g[i] = h[i]
  BY <1>1, <1>2, <1>3
<1>5. g[Len(h) + 1] = c
  <2>1. Len(h) + 1 \in 1..Len(h) + 1 + n /\ Len(h) + 1 - Len(h) = 1 /\ <<c>>[1] = c
    BY <1>1
  <2> QED
    BY <1>1, <1>2, <1>3, <2>1
<1>6. ASSUME NEW i \in Len(h) + 2..Len(h) + 1 + n PROVE g[i].role = "tool"
  <2>1. i - (Len(h) + 1) \in 1..n /\ i \in 1..Len(h) + 1 + n /\ ~(i <= Len(h) + 1)
    BY <1>1
  <2> QED
    BY <1>3, <2>1
<1> HIDE DEF g
<1>7. SUFFICES ASSUME NEW i \in 1..Len(g)
               PROVE  /\ g[i].role = "tool" => ResultOf(g, i)
                      /\ g[i].role = "calls" =>
                           \A k \in i + 1..i + g[i].n : k <= Len(g) /\ g[k].role = "tool"
  BY DEF Paired, g, c
<1>8. CASE i \in 1..Len(h)
  <2>1. Len(h) <= Len(g)
    BY <1>1, <1>3
  <2> QED
    BY <1>3, <1>4, <1>8, <2>1, PairedStays
<1>9. CASE i = Len(h) + 1
  BY <1>1, <1>3, <1>5, <1>6, <1>9
<1>10. CASE i \in Len(h) + 2..Len(h) + 1 + n
  <2>1. Len(h) + 1 \in 1..i - 1 /\ i - (Len(h) + 1) <= n
        /\ \A k \in Len(h) + 1 + 1..i : k \in Len(h) + 2..Len(h) + 1 + n
    BY <1>1, <1>10
  <2> QED
    BY <1>1, <1>5, <1>6, <1>10, <2>1 DEF ResultOf
<1>11. i \in 1..Len(h) \/ i = Len(h) + 1 \/ i \in Len(h) + 2..Len(h) + 1 + n
  <2>1. Len(g) = Len(h) + 1 + n /\ Len(h) \in Nat /\ i \in 1..Len(g) /\ n \in Nat
    BY <1>1, <1>3
  <2> QED
    BY <2>1
<1> QED
  BY <1>8, <1>9, <1>10, <1>11

-----------------------------------------------------------------------------
(* The end of an agent.                                                        *)
LEMMA TopNow ==
  ASSUME SessionInv, Running
  PROVE  /\ Confined(Top) /\ (~log.cut /\ ~log.dropped => PairedFrame(Top)) /\ Top \in Frames
         /\ (Top.base = "analyst" => Top.props = <<>>) /\ ToSet(Top.props) \subseteq Ids
<1>1. /\ Len(stack) \in {1, 2} /\ Top = stack[Len(stack)] /\ Top \in Frames
      /\ Len(stack) \in 1..Len(stack)
  <2>1. Len(stack) \in {1, 2} /\ Top = stack[Len(stack)] /\ Top \in Frames /\ stack \in Seq(Frames)
    BY OneOrTwo DEF SessionInv
  <2>2. \A n \in {1, 2} : n \in 1..n
    OBVIOUS
  <2> QED
    BY <2>1, <2>2, Zenon
<1>2. Confined(Top) /\ (~log.cut /\ ~log.dropped => PairedFrame(Top))
  BY <1>1 DEF SessionInv, ConfinedInv, PairedInv
<1>3. (Top.base = "analyst" => Top.props = <<>>) /\ ToSet(Top.props) \subseteq Ids
  BY <1>1 DEF SessionInv, ShownInv, IdsInv
<1> QED
  BY <1>1, <1>2, <1>3

LEMMA TopFits ==
  ASSUME SessionInv, Running, UNCHANGED <<env, center>>
  PROVE  Fit(Top) /\ Confined(Top) /\ (~log.cut /\ ~log.dropped => PairedFrame(Top))
<1>1. Ids' = Ids /\ center' \in Seq(Proposal) /\ env' = env
  BY DEF Ids, SessionInv, TypeInv
<1> QED
  BY <1>1, TopNow DEF Fit, Confined

(* What an agent returns: its proposals, or none after an outage.              *)
Returned(f, ps, l) == ps = f.props \/ (ps = <<>> /\ l.outage)

LEMMA SubReturnsKeep ==
  ASSUME SessionInv, Running, NEW f, Fit(f), NEW l, Like(l), NEW ps, Returned(f, ps, l),
         SubReturns(ps, l)
  PROVE  SessionInv'
<1> USE DEF SessionInv
<1>1. /\ Len(stack) \in {1, 2} /\ Top = stack[Len(stack)] /\ Top \in Frames /\ stack \in Seq(Frames)
      /\ Len(stack) \in 1..Len(stack) /\ stack[1] \in Frames
  BY OneOrTwo
<1>2. /\ ps \in Seq(Nat) /\ ToSet(ps) \subseteq Ids' /\ (~l.outage => ps = f.props)
      /\ f \in Frames
  <2>1. <<>> \in Seq(Nat) /\ ToSet(<<>>) = {}
    BY EmptySeq DEF ToSet
  <2> QED
    BY <2>1 DEF Fit, Returned, Frames
<1>3. Stored' \subseteq Stored \cup ToSet(f.props) \/ log'.before # log.before
  BY DEF Stored, Fit, Ids, TypeInv
<1>4. IsSub
  BY DEF SubReturns
<1>5. CASE Len(stack) = 2
  <2> PICK h : h = Handled(stack[1])
    OBVIOUS
  <2>1. stack' = <<h>> /\ cli' = [cli EXCEPT !.extra = cli.extra \o ps] /\ log' = l
    BY <1>5 DEF SubReturns
  <2>2. stack[1].agent = "main" /\ stack[1].inside /\ stack[1].batch # <<>>
    BY <1>5 DEF StackInv
  <2>3. /\ h \in Frames /\ h.agent = "main" /\ h.base = stack[1].base /\ h.msgs = stack[1].msgs
        /\ h.props = stack[1].props /\ (h.inside \/ h.batch = <<>>)
    BY <1>1, <2>2, HandledFrame
  <2>4. stack' \in Seq(Frames) /\ Len(stack') = 1 /\ stack'[1] = h /\ stack' # <<>>
    BY <2>1, <2>3
  <2>5. /\ cli.extra \o ps \in Seq(Nat)
        /\ ToSet(cli.extra \o ps) = ToSet(cli.extra) \cup ToSet(ps)
    BY <1>2, ElementsOfBoth DEF TypeInv
  <2>6. /\ cli' = [mode |-> cli.mode, phase |-> cli.phase, inline |-> cli.inline,
                   delegation |-> cli.delegation, lean |-> cli.lean, always |-> cli.always,
                   allowed |-> cli.allowed,
                   history |-> cli.history, extra |-> cli.extra \o ps, review |-> cli.review,
                   seen |-> cli.seen, stage |-> cli.stage, prompts |-> cli.prompts,
                   commands |-> cli.commands]
    BY <2>1 DEF TypeInv, Fields
  <2>6a. Fields'
    <3>1. log' = [said |-> log.said, yes |-> log.yes,
                  outage |-> l.outage, listed |-> log.listed, before |-> log.before,
                  cut |-> log.cut, dropped |-> l.dropped]
      BY <2>1 DEF Like
    <3> QED
      BY <2>6, <3>1 DEF Fields
  <2>7. TypeInv'
    <3>1. log'.before = log.before
      BY <2>1 DEF Like
    <3> QED
      BY <2>4, <2>5, <2>6, <2>6a, <3>1 DEF TypeInv, Fit
  <2>8. AskedInv'
    BY <2>1, <2>6 DEF AskedInv, Running, Like
  <2>9. IdsInv'
    BY <1>1, <1>2, <2>3, <2>4, <2>5, <2>6 DEF IdsInv, Fit
  <2>10. StackInv'
    BY <2>4, <2>6 DEF StackInv, Running
  <2>11. ConfinedInv'
    <3>1. h.batch = <<>> => Len(h.batch) = 0
      OBVIOUS
    <3>2. Confined(h)'
      BY <2>3, <3>1 DEF Confined
    <3> QED
      BY <2>4, <3>2 DEF ConfinedInv
  <2>12. ShownInv'
    <3>1. h.base = "analyst" => h.props = <<>>
      <4>1. 1 \in 1..Len(stack)
        BY <1>5
      <4> QED
        BY <2>3, <4>1 DEF ShownInv
    <3>2. ASSUME ~l.outage PROVE Stored' \subseteq InHand'
      <4>1. ~log.outage /\ Stored' \subseteq Stored \cup ToSet(f.props)
        BY <1>3, <2>1, <3>2 DEF Like
      <4>2. Stored \subseteq InHand
        BY <4>1 DEF ShownInv
      <4>3. InHand = ToSet(stack[1].props) \cup ToSet(stack[2].props) \cup ToSet(cli.extra)
        <5>1. 1..Len(stack) = {1, 2} /\ stack # <<>>
          BY <1>5, EmptySeq
        <5> QED
          BY <2>2, <5>1 DEF InHand
      <4>4. InHand' = ToSet(stack[1].props) \cup ToSet(cli.extra) \cup ToSet(f.props)
        BY <1>2, <2>3, <2>4, <2>5, <2>6, <3>2 DEF InHand
      <4>5. ToSet(stack[2].props) \subseteq ToSet(f.props)
        BY <1>1, <1>5 DEF Fit
      <4> QED
        BY <4>1, <4>2, <4>3, <4>4, <4>5
    <3> QED
      BY <2>1, <2>4, <2>6, <3>1, <3>2 DEF ShownInv, Running
  <2>13. PairedInv'
    <3>1. ~log.cut /\ ~log.dropped => PairedFrame(stack[1])
      BY <1>1, <1>5 DEF PairedInv
    <3>2. ~log.cut /\ ~log.dropped => PairedFrame(h)
      BY <2>2, <2>3, <3>1 DEF PairedFrame, Calling
    <3> QED
      BY <2>1, <2>4, <2>6, <3>2 DEF PairedInv, Like
  <2> QED
    BY <2>7, <2>8, <2>9, <2>10, <2>11, <2>12, <2>13
<1>6. CASE Len(stack) # 2
  <2>1. /\ stack' = <<>> /\ cli' = [cli EXCEPT !.phase = "prompt"]
        /\ log' = [l EXCEPT !.listed = ToSet(ps)]
    BY <1>6 DEF SubReturns
  <2>2. /\ cli' = [mode |-> cli.mode, phase |-> "prompt", inline |-> cli.inline,
                   delegation |-> cli.delegation, lean |-> cli.lean, always |-> cli.always,
                   allowed |-> cli.allowed,
                   history |-> cli.history, extra |-> cli.extra, review |-> cli.review,
                   seen |-> cli.seen, stage |-> cli.stage, prompts |-> cli.prompts,
                   commands |-> cli.commands]
        /\ log' = [said |-> log.said, yes |-> log.yes,
                   outage |-> l.outage, listed |-> ToSet(ps), before |-> log.before,
                   cut |-> log.cut, dropped |-> l.dropped]
    <3>1. cli' = [mode |-> cli.mode, phase |-> "prompt", inline |-> cli.inline,
                  delegation |-> cli.delegation, lean |-> cli.lean, always |-> cli.always,
                  allowed |-> cli.allowed,
                  history |-> cli.history, extra |-> cli.extra, review |-> cli.review,
                  seen |-> cli.seen, stage |-> cli.stage, prompts |-> cli.prompts,
                  commands |-> cli.commands]
      BY <2>1 DEF TypeInv, Fields
    <3>2. log' = [said |-> log.said, yes |-> log.yes,
                  outage |-> l.outage, listed |-> ToSet(ps), before |-> log.before,
                  cut |-> log.cut, dropped |-> l.dropped]
      BY <2>1 DEF Like
    <3> QED
      BY <3>1, <3>2
  <2>3. stack' \in Seq(Frames) /\ Len(stack') = 0
    BY <2>1, EmptySeq
  <2>4. TypeInv'
    BY <2>2, <2>3 DEF TypeInv, Fields, Fit
  <2>5. AskedInv'
    BY <2>2 DEF AskedInv, Running
  <2>6. IdsInv' /\ StackInv' /\ ConfinedInv'
    BY <2>1, <2>2, <2>3 DEF IdsInv, StackInv, ConfinedInv, Fit
  <2>7. ShownInv'
    <3>1. ASSUME ~l.outage PROVE Stored' \subseteq ToSet(ps)
      <4>1. ~log.outage /\ Stored' \subseteq Stored \cup ToSet(f.props)
        BY <1>3, <2>2, <3>1 DEF Like
      <4>2. Stored \subseteq InHand
        BY <4>1 DEF ShownInv
      <4>3. InHand = ToSet(stack[1].props)
        <5>1. 1..Len(stack) = {1} /\ Top = stack[1]
          BY <1>1, <1>6
        <5>2. (UNION {ToSet(stack[i].props) : i \in {1}}) = ToSet(stack[1].props)
          OBVIOUS
        <5> QED
          BY <1>4, <5>1, <5>2 DEF InHand, IsSub
      <4> QED
        BY <1>1, <1>2, <1>6, <3>1, <4>1, <4>2, <4>3 DEF Fit
    <3> QED
      BY <2>2, <2>3, <3>1 DEF ShownInv, Running
  <2>8. PairedInv'
    BY <2>2, <2>3 DEF PairedInv, Like
  <2> QED
    BY <2>4, <2>5, <2>6, <2>7, <2>8
<1> QED
  BY <1>5, <1>6

LEMMA MainReturnsKeep ==
  ASSUME SessionInv, Running, NEW f, Fit(f), NEW l, Like(l), NEW ps, Returned(f, ps, l),
         NEW ms, Top.agent = "main" /\ Top.base = "engineer" =>
                   ms \in Seq(Messages) /\ (~log.cut /\ ~l.dropped => Paired(ms)),
         MainReturns(ps, ms, l)
  PROVE  SessionInv'
<1> USE DEF SessionInv
<1>1. Top.agent = "main" /\ stack' = <<>> /\ stack' \in Seq(Frames) /\ Len(stack') = 0
  BY EmptySeq DEF MainReturns, IsSub
<1>2. Len(stack) = 1 /\ Top = stack[1] /\ stack # <<>> /\ Top \in Frames /\ 1..Len(stack) = {1}
  <2>1. Len(stack) \in {1, 2} /\ Top = stack[Len(stack)] /\ Top \in Frames /\ stack \in Seq(Frames)
    BY OneOrTwo
  <2>2. Len(stack) # 2
    BY <1>1, <2>1 DEF StackInv
  <2>3. Len(stack) = 1
    BY <2>1, <2>2
  <2> QED
    BY <2>1, <2>3 DEF StackInv, Running
<1>3. /\ ps \in Seq(Nat) /\ ToSet(ps) \subseteq Ids' /\ (~l.outage => ps = f.props)
  <2>1. <<>> \in Seq(Nat) /\ ToSet(<<>>) = {}
    BY EmptySeq DEF ToSet
  <2> QED
    BY <2>1 DEF Fit, Returned, Frames
<1> PICK shown : shown = ps \o cli.extra
  OBVIOUS
<1>4. shown \in Seq(Nat) /\ ToSet(shown) = ToSet(ps) \cup ToSet(cli.extra)
  BY <1>3, ElementsOfBoth DEF TypeInv
<1> PICK history : history = IF Top.base = "engineer" THEN ms
                             ELSE cli.history \o <<Message("user", 0), Message("text", 0)>>
  OBVIOUS
<1>5. history \in Seq(Messages) /\ (~log.cut /\ ~l.dropped => Paired(history))
  <2>1. CASE Top.base = "engineer"
    BY <1>1, <2>1
  <2>2. CASE Top.base # "engineer"
    <3>1. /\ Message("user", 0) \in Messages /\ Message("text", 0) \in Messages
          /\ Message("user", 0).role = "user" /\ Message("text", 0).role = "text"
      BY DEF Message, Messages
    <3>2. PICK u, t : u = Message("user", 0) /\ t = Message("text", 0)
      OBVIOUS
    <3>3. /\ Append(cli.history, u) \in Seq(Messages)
          /\ Paired(cli.history) => Paired(Append(cli.history, u))
      BY <3>1, <3>2, PairedAndText DEF TypeInv
    <3>4. /\ Append(Append(cli.history, u), t) \in Seq(Messages)
          /\ Paired(cli.history) => Paired(Append(Append(cli.history, u), t))
      BY <3>1, <3>2, <3>3, PairedAndText
    <3>5. Append(Append(cli.history, u), t) = cli.history \o <<u, t>>
      <4>1. cli.history \in Seq(Messages)
        BY DEF TypeInv
      <4> QED
        BY <3>1, <3>2, <4>1
    <3>6. ~log.cut /\ ~l.dropped => Paired(cli.history)
      BY DEF PairedInv, Like
    <3> QED
      BY <2>2, <3>2, <3>4, <3>5, <3>6
  <2> QED
    BY <2>1, <2>2
<1>6. /\ cli' = [cli EXCEPT !.history = history, !.review = shown, !.seen = {},
                            !.phase = IF cli.inline /\ shown # <<>> THEN "review" ELSE "prompt"]
      /\ log' = [l EXCEPT !.listed = ToSet(shown)]
  BY DEF MainReturns
<1>7. cli' = [mode |-> cli.mode,
              phase |-> IF cli.inline /\ shown # <<>> THEN "review" ELSE "prompt",
              inline |-> cli.inline, delegation |-> cli.delegation, lean |-> cli.lean,
              always |-> cli.always,
              allowed |-> cli.allowed, history |-> history, extra |-> cli.extra,
              review |-> shown, seen |-> {}, stage |-> cli.stage, prompts |-> cli.prompts,
              commands |-> cli.commands]
  BY <1>6 DEF TypeInv, Fields
<1>8. log' = [said |-> log.said, yes |-> log.yes,
              outage |-> l.outage, listed |-> ToSet(shown), before |-> log.before,
              cut |-> log.cut, dropped |-> l.dropped]
  BY <1>6 DEF Like
<1>9. TypeInv'
  BY <1>1, <1>4, <1>5, <1>7, <1>8 DEF TypeInv, Fields, Fit
<1>10. AskedInv'
  BY <1>7, <1>8 DEF AskedInv, Running
<1>11. IdsInv' /\ StackInv' /\ ConfinedInv'
  <2>1. ToSet(cli.extra) \subseteq Ids'
    BY DEF IdsInv, Fit
  <2> QED
    BY <1>1, <1>3, <1>4, <1>7, <2>1 DEF IdsInv, StackInv, ConfinedInv
<1>12. ShownInv'
  <2>1. ASSUME ~l.outage PROVE Stored' \subseteq ToSet(shown)
    <3>1. ~log.outage
      BY <2>1 DEF Like
    <3>2. Stored' \subseteq Stored \cup ToSet(f.props)
      BY <1>8 DEF Stored, Fit, Ids, TypeInv
    <3>3. Stored \subseteq InHand
      BY <3>1 DEF ShownInv
    <3>4. InHand = ToSet(stack[1].props) \cup ToSet(cli.extra)
      <4>1. (UNION {ToSet(stack[i].props) : i \in {1}}) = ToSet(stack[1].props)
        OBVIOUS
      <4> QED
        BY <1>1, <1>2, <4>1 DEF InHand
    <3> QED
      BY <1>2, <1>3, <1>4, <2>1, <3>2, <3>3, <3>4 DEF Fit
  <2> QED
    BY <1>1, <1>7, <1>8, <2>1 DEF ShownInv, Running
<1>13. PairedInv'
  BY <1>1, <1>5, <1>7, <1>8 DEF PairedInv
<1> QED
  BY <1>9, <1>10, <1>11, <1>12, <1>13

LEMMA ReturnsKeep ==
  ASSUME SessionInv, Running, NEW f, Fit(f), NEW l, Like(l), NEW ps, Returned(f, ps, l),
         NEW ms, Top.agent = "main" /\ Top.base = "engineer" =>
                   ms \in Seq(Messages) /\ (~log.cut /\ ~l.dropped => Paired(ms)),
         Returns(ps, ms, l)
  PROVE  SessionInv'
BY SubReturnsKeep, MainReturnsKeep DEF Returns

LEMMA LikeItself ==
  ASSUME SessionInv
  PROVE  Like(log)
<1>1. Fields
  BY DEF SessionInv, TypeInv
<1> QED
  BY <1>1, Zenon DEF Like, Fields

LEMMA NothingSaid ==
  ASSUME SessionInv, Running, UNCHANGED <<cli, log>>
  PROVE  SameTurn
<1>1. Fields /\ AskedInv
  BY DEF SessionInv, TypeInv
<1>2. Fields'
  BY <1>1 DEF Fields
<1>3. cli.phase = "turn" /\ cli' = cli /\ log' = log
  BY DEF Running
<1>4. AskedInv'
  BY <1>1, <1>3 DEF AskedInv
<1> QED
  BY <1>2, <1>3, <1>4 DEF SameTurn

(* The next turn of the agent's loop, or its end.                              *)
LEMMA NextTurnKeeps ==
  ASSUME SessionInv, Running, NEW f, Fit(f), f.batch = <<>>,
         NEW ms, ms \in Seq(Messages), Top.agent = "main" /\ Top.base = "engineer" =>
                                         (~log.cut /\ ~log.dropped => Paired(ms)),
         NextTurn(f, ms)
  PROVE  SessionInv'
<1>1. CASE Top.turn + 1 = env.turns
  <2>1. Like(log)
    BY LikeItself
  <2>2. Returns(f.props, ms, log) /\ Returned(f, f.props, log)
    BY <1>1 DEF NextTurn, Returned
  <2> QED
    BY <2>1, <2>2, ReturnsKeep
<1>2. CASE Top.turn + 1 # env.turns
  <2>1. PICK g : g = [f EXCEPT !.turn = f.turn + 1, !.round = 0, !.msgs = ms, !.size = 0,
                               !.inside = FALSE]
    OBVIOUS
  <2>2. stack' = WithTop(g) /\ UNCHANGED <<cli, log>>
    BY <1>2, <2>1 DEF NextTurn
  <2>3. g = [agent |-> f.agent, base |-> f.base, turn |-> f.turn + 1, round |-> 0,
             used |-> f.used, msgs |-> ms, size |-> 0, batch |-> f.batch, inside |-> FALSE,
             props |-> f.props]
    BY <2>1 DEF Fit, Frames
  <2>4. g \in Frames
    BY <2>3 DEF Fit, Frames
  <2>5. Fit(g)
    BY <2>3, <2>4 DEF Fit
  <2>6. Confined(g) /\ (~log.cut /\ ~log.dropped => PairedFrame(g))
    BY <2>3, ConfinedAtRest, PairedAtRest DEF Fit
  <2>7. SameTurn
    BY <2>2, NothingSaid
  <2> QED
    BY <2>2, <2>5, <2>6, <2>7, GoesOnKeeps
<1> QED
  BY <1>1, <1>2

-----------------------------------------------------------------------------
(* The steps of a turn.                                                        *)
(* An agent that is asked for an answer may get one in text.                    *)
LEMMA TextPairs ==
  ASSUME SessionInv, Running, NEW m \in Messages, m.role = "text", Asking
  PROVE  /\ Said(<<m>>) \in Seq(Messages) /\ Top.msgs \in Seq(Messages)
         /\ Top.agent = "main" /\ Top.base = "engineer" =>
              (~log.cut /\ ~log.dropped => Paired(Said(<<m>>)) /\ Paired(Top.msgs))
<1>1. Top \in Frames /\ Top.batch = <<>> /\ Top.msgs \in Seq(Messages)
  BY OneOrTwo DEF SessionInv, Asking, Frames
<1>2. /\ Append(Top.msgs, m) \in Seq(Messages) /\ Top.msgs \o <<m>> = Append(Top.msgs, m)
      /\ Paired(Top.msgs) => Paired(Append(Top.msgs, m))
  BY <1>1, PairedAndText
<1>3. Top.agent = "main" /\ Top.base = "engineer" /\ ~log.cut /\ ~log.dropped => Paired(Top.msgs)
  <2>1. ~log.cut /\ ~log.dropped => PairedFrame(Top)
    BY TopNow
  <2> QED
    BY <1>1, <2>1 DEF PairedFrame, Calling
<1>4. Said(<<m>>) = IF IsSub \/ Top.base = "analyst" THEN Top.msgs ELSE Append(Top.msgs, m)
  BY <1>2 DEF Said
<1> QED
  BY <1>1, <1>2, <1>3, <1>4 DEF IsSub

LEMMA TextKeeps ==
  ASSUME SessionInv, Running, Asking, NEW f, Fit(f), f.batch = <<>>, TextAnswer(f)
  PROVE  SessionInv'
<1>1. Like(log) /\ (f.base = "analyst" => f.props = <<>>) /\ f.base = Top.base
  BY LikeItself DEF Fit
<1>2. CASE f.base = "analyst"
  <2>1. Returns(<<>>, <<>>, log) /\ Returned(f, <<>>, log)
    BY <1>1, <1>2 DEF TextAnswer, Returned
  <2>2. Top.base # "engineer"
    BY <1>1, <1>2
  <2> QED
    BY <1>1, <2>1, <2>2, ReturnsKeep
<1>3. CASE f.base # "analyst"
  <2>1. PICK m : m = Message("text", 0)
    OBVIOUS
  <2>2. m \in Messages /\ m.role = "text"
    BY <2>1 DEF Message, Messages
  <2>3. NextTurn(f, Said(<<m>>))
    BY <1>3, <2>1 DEF TextAnswer
  <2>4. /\ Said(<<m>>) \in Seq(Messages)
        /\ Top.agent = "main" /\ Top.base = "engineer" =>
             (~log.cut /\ ~log.dropped => Paired(Said(<<m>>)))
    BY <2>2, TextPairs
  <2> QED
    BY <1>1, <2>3, <2>4, NextTurnKeeps
<1> QED
  BY <1>2, <1>3

(* An answer of the model counts, and leaves a sub-agent within its budget.    *)
LEMMA CountedFits ==
  ASSUME SessionInv, Asks, UNCHANGED <<env, center>>
  PROVE  /\ Fit(Counted) /\ Counted.batch = <<>> /\ Counted.msgs = Top.msgs
         /\ Counted.props = Top.props /\ Top \in Frames
<1>1. Running /\ Top.batch = <<>> /\ ~BudgetUsed
  BY DEF Asks, Asking
<1>2. Fit(Top) /\ Top \in Frames
  BY <1>1, TopFits DEF Fit
<1>3. PICK u : u = IF IsSub THEN Top.used + 1 ELSE Top.used
  OBVIOUS
<1>4. Counted = [agent |-> Top.agent, base |-> Top.base, turn |-> Top.turn, round |-> Top.round,
                 used |-> u, msgs |-> Top.msgs, size |-> Top.size, batch |-> Top.batch,
                 inside |-> Top.inside, props |-> Top.props]
  <2>1. PICK c : c = [Top EXCEPT !.used = u]
    OBVIOUS
  <2>2. c = [agent |-> Top.agent, base |-> Top.base, turn |-> Top.turn, round |-> Top.round,
             used |-> u, msgs |-> Top.msgs, size |-> Top.size, batch |-> Top.batch,
             inside |-> Top.inside, props |-> Top.props]
    BY <1>2, <2>1 DEF Frames
  <2>3. Counted = c
    BY <1>3, <2>1 DEF Counted
  <2> QED
    BY <2>2, <2>3
<1>5. u \in Nat /\ (Top.agent # "main" => u <= SubAgent[Top.agent].calls)
  <2>1. Top.used \in Nat /\ (Top.agent # "main" => Top.used <= SubAgent[Top.agent].calls)
    BY <1>2 DEF Fit, Frames
  <2>2. CASE IsSub
    <3>1. Top.agent \in DOMAIN SubAgent
      BY <1>2, <2>2 DEF IsSub, Frames
    <3>2. SubAgent[Top.agent].calls \in Nat
      BY <3>1, LoopAssumption
    <3> QED
      BY <1>1, <1>3, <2>1, <2>2, <3>2 DEF BudgetUsed, IsSub
  <2> QED
    BY <1>3, <2>1, <2>2 DEF IsSub
<1>6. Counted \in Frames
  BY <1>2, <1>4, <1>5 DEF Frames
<1> QED
  BY <1>1, <1>2, <1>4, <1>5, <1>6 DEF Fit

LEMMA BlankKeeps ==
  ASSUME SessionInv, AnswersBlank
  PROVE  SessionInv'
<1>1. /\ Running /\ Asks /\ Top.base = "analyst" /\ NextTurn(Counted, Top.msgs)
      /\ UNCHANGED <<env, center>>
  BY DEF AnswersBlank, Asks, Asking
<1>2. Fit(Counted) /\ Counted.batch = <<>> /\ Top \in Frames
  BY <1>1, CountedFits
<1>3. Top.msgs \in Seq(Messages) /\ Top.base # "engineer"
  BY <1>1, <1>2 DEF Frames
<1> QED
  BY <1>1, <1>2, <1>3, NextTurnKeeps

LEMMA OutageKeeps ==
  ASSUME SessionInv, Outage
  PROVE  SessionInv'
<1>1. Running /\ Asking /\ UNCHANGED <<env, center>>
  BY DEF Outage, Asks, Asking
<1>2. PICK l : l = [log EXCEPT !.outage = TRUE]
  OBVIOUS
<1>3. l = [said |-> log.said, yes |-> log.yes, outage |-> TRUE,
           listed |-> log.listed, before |-> log.before, cut |-> log.cut, dropped |-> log.dropped]
  BY <1>2 DEF SessionInv, TypeInv, Fields
<1>4. CASE IsSub \/ Top.base = "engineer"
  <2>1. Returns(<<>>, Top.msgs, l) /\ Like(l) /\ Returned(Top, <<>>, l) /\ Fit(Top)
    <3>1. Like(l) /\ l.outage
      BY <1>3 DEF Like
    <3> QED
      BY <1>1, <1>2, <1>4, <3>1, TopFits DEF Outage, Returned
  <2>2. Top.msgs \in Seq(Messages)
    BY <2>1 DEF Fit, Frames
  <2>3. Top.agent = "main" /\ Top.base = "engineer" /\ ~log.cut /\ ~log.dropped => Paired(Top.msgs)
    BY <1>1, TopFits DEF PairedFrame, Calling, Asking
  <2>4. l.dropped = log.dropped
    BY <1>3
  <2> QED
    BY <1>1, <2>1, <2>2, <2>3, <2>4, ReturnsKeep
<1>5. CASE ~(IsSub \/ Top.base = "engineer")
  <2>1. /\ stack' = <<>> /\ stack' \in Seq(Frames) /\ Len(stack') = 0 /\ log' = l
        /\ cli' = [cli EXCEPT !.phase = "dead"]
    BY <1>2, <1>5, EmptySeq DEF Outage
  <2>2. cli' = [mode |-> cli.mode, phase |-> "dead", inline |-> cli.inline,
                delegation |-> cli.delegation, lean |-> cli.lean, always |-> cli.always,
                allowed |-> cli.allowed,
                history |-> cli.history, extra |-> cli.extra, review |-> cli.review,
                seen |-> cli.seen, stage |-> cli.stage, prompts |-> cli.prompts,
                commands |-> cli.commands]
    BY <2>1 DEF SessionInv, TypeInv, Fields
  <2>3. Fields'
    BY <1>3, <2>1, <2>2 DEF Fields
  <2>4. TypeInv' /\ AskedInv'
    BY <1>1, <1>3, <2>1, <2>2, <2>3 DEF SessionInv, TypeInv, AskedInv
  <2>5. IdsInv' /\ StackInv' /\ ConfinedInv' /\ ShownInv'
    BY <1>1, <1>3, <2>1, <2>2
    DEF SessionInv, IdsInv, StackInv, ConfinedInv, ShownInv, Ids
  <2>6. PairedInv'
    BY <1>3, <2>1, <2>2 DEF SessionInv, PairedInv
  <2> QED
    BY <2>4, <2>5, <2>6 DEF SessionInv
<1> QED
  BY <1>4, <1>5

(* The calls of an answer.                                                     *)
LEMMA CallsKeep ==
  ASSUME SessionInv, NEW k \in 1..env.batch, NEW cs \in [1..k -> env.calls], AnswersCalls(cs)
  PROVE  SessionInv'
<1>1. /\ Running /\ Asks /\ Top.batch = <<>> /\ UNCHANGED <<env, cli, center, log>>
  BY DEF AnswersCalls, Asks, Asking
<1>2. cs \in Seq(Calls) /\ Len(cs) = k /\ k \in Nat /\ k # 0 /\ cs # <<>>
  <2>1. env.calls \subseteq Calls
    BY DEF SessionInv, TypeInv, Calls
  <2>2. cs \in [1..k -> Calls] /\ k \in Nat /\ k # 0
    BY <2>1
  <2>3. cs \in Seq(Calls) /\ Len(cs) = k
    BY <2>2
  <2> QED
    BY <2>2, <2>3, EmptySeq
<1>3. Fit(Top) /\ Top \in Frames /\ (~log.cut /\ ~log.dropped => PairedFrame(Top))
  BY <1>1, TopFits DEF Fit
<1>4. PICK inside \in BOOLEAN : inside = (\E i \in 1..Len(cs) : Intercepted(cs[i]))
  OBVIOUS
<1>5. PICK c \in Frames : c = Counted /\ Fit(c) /\ c.props = Top.props /\ c.msgs = Top.msgs
  BY <1>1, CountedFits DEF Fit
<1>6. PICK ms : ms = IF inside THEN Top.msgs ELSE Said(<<Message("calls", Len(cs))>>)
  OBVIOUS
<1>7. PICK g : g = [c EXCEPT !.batch = cs, !.size = Len(cs), !.inside = inside, !.msgs = ms]
  OBVIOUS
<1>8. stack' = WithTop(g)
  BY <1>4, <1>5, <1>6, <1>7 DEF AnswersCalls
<1>9. g = [agent |-> Top.agent, base |-> Top.base, turn |-> c.turn, round |-> c.round,
           used |-> c.used, msgs |-> ms, size |-> k, batch |-> cs, inside |-> inside,
           props |-> Top.props]
  <2>1. c.agent = Top.agent /\ c.base = Top.base
    BY <1>5 DEF Fit
  <2> QED
    BY <1>2, <1>5, <1>7, <2>1 DEF Frames
<1>10. Top.agent # "main" => c.used <= SubAgent[Top.agent].calls
  BY <1>5 DEF Fit
<1>11. /\ ms \in Seq(Messages)
       /\ inside => ms = Top.msgs
       /\ ~inside /\ Top.agent = "main" /\ Top.base = "engineer" =>
            ms = Top.msgs \o <<Message("calls", k)>>
  <2>1. Top.msgs \in Seq(Messages) /\ <<Message("calls", k)>> \in Seq(Messages)
    BY <1>2, <1>3 DEF Frames, Message, Messages
  <2>2. Top.msgs \o <<Message("calls", k)>> \in Seq(Messages)
    BY <2>1
  <2> QED
    BY <1>2, <1>6, <2>1, <2>2 DEF Said, IsSub
<1>12. g \in Frames
  BY <1>2, <1>3, <1>5, <1>9, <1>11 DEF Frames
<1>13. Fit(g)
  BY <1>3, <1>9, <1>10, <1>12 DEF Fit
<1>14. Confined(g)
  <2>1. ASSUME ~inside, NEW j \in 1..Len(cs) PROVE ~Virtual(cs[j]) /\ Permitted(cs[j])
    BY <1>4, <2>1 DEF Intercepted
  <2> QED
    BY <1>9, <1>10, <2>1 DEF Confined, Virtual, Permitted, IsSub
<1>15. ~log.cut /\ ~log.dropped => PairedFrame(g)
  <2> SUFFICES ASSUME ~log.cut, ~log.dropped, Top.agent = "main", Top.base = "engineer"
               PROVE  PairedFrame(g)
    BY <1>9 DEF PairedFrame
  <2>1. Paired(Top.msgs) /\ Top.msgs \in Seq(Messages)
    BY <1>1, <1>3 DEF PairedFrame, Calling, Frames
  <2> QED
    BY <1>2, <1>9, <1>11, <2>1 DEF PairedFrame, Calling
<1> QED
  BY <1>1, <1>8, <1>13, <1>14, <1>15, GoesOnKeeps, NothingSaid

(* A call is handled by the middleware.                                        *)
LEMMA HandledKeeps ==
  ASSUME SessionInv, Handling, Top.inside, stack' = WithTop(Handled(Top)),
         UNCHANGED <<env, center>>, SameTurn
  PROVE  SessionInv'
<1>1. Running /\ Top.batch # <<>>
  BY DEF Handling
<1>2. /\ Fit(Top) /\ Top \in Frames /\ Confined(Top)
      /\ (~log.cut /\ ~log.dropped => PairedFrame(Top))
  BY <1>1, TopFits DEF Fit
<1>3. PICK g : g = Handled(Top)
  OBVIOUS
<1>4. /\ g \in Frames /\ g.agent = Top.agent /\ g.base = Top.base /\ g.used = Top.used
      /\ g.msgs = Top.msgs /\ g.props = Top.props
      /\ (g.inside \/ g.batch = <<>>)
  BY <1>1, <1>2, <1>3, HandledFrame
<1>5. Fit(g)
  BY <1>2, <1>4 DEF Fit
<1>6. Confined(g)
  <2>1. Len(<<>>) = 0
    OBVIOUS
  <2> QED
    BY <1>2, <1>4, <2>1 DEF Confined
<1>7. ~log.cut /\ ~log.dropped => PairedFrame(g)
  BY <1>2, <1>4 DEF PairedFrame, Calling
<1> QED
  BY <1>1, <1>3, <1>5, <1>6, <1>7, GoesOnKeeps

LEMMA DelegatesKeeps ==
  ASSUME SessionInv, Delegates
  PROVE  SessionInv'
<1> USE DEF SessionInv
<1>1. /\ Running /\ Top.inside /\ Top.batch # <<>> /\ ~IsSub
      /\ Call[1] = "delegate" /\ ~Nobody(Call) /\ UNCHANGED <<env, cli, center, log>>
  BY DEF Delegates, Handling, Virtual
<1>2. /\ stack \in Seq(Frames) /\ Len(stack) = 1 /\ Top = stack[1] /\ Top \in Frames
      /\ Top.agent = "main"
  <2>1. Len(stack) \in {1, 2} /\ Top = stack[Len(stack)] /\ Top \in Frames /\ stack \in Seq(Frames)
    BY <1>1, OneOrTwo
  <2> QED
    BY <1>1, <2>1 DEF StackInv, IsSub
<1>3. Call[2] \in DOMAIN SubAgent
  BY <1>1 DEF Nobody
<1>4. PICK g : g = Frame(Call[2], SubAgent[Call[2]].base, <<>>)
  OBVIOUS
<1>5. /\ g \in Frames /\ g.agent = Call[2] /\ g.batch = <<>> /\ g.used = 0 /\ g.props = <<>>
      /\ g.agent # "main" /\ SubAgent[g.agent].calls \in Nat
  BY <1>3, <1>4, LoopAssumption, EmptySeq DEF Frame, Frames
<1>6. stack' = Append(stack, g)
  BY <1>4 DEF Delegates
<1>7. /\ stack' \in Seq(Frames) /\ Len(stack') = 2 /\ stack'[1] = stack[1] /\ stack'[2] = g
      /\ stack' # <<>> /\ 1..Len(stack') = {1, 2} /\ 1..Len(stack) = {1}
  <2>1. /\ Append(stack, g) \in Seq(Frames) /\ Append(stack, g) # <<>>
        /\ Len(Append(stack, g)) = Len(stack) + 1
        /\ \A i \in 1..Len(stack) : Append(stack, g)[i] = stack[i]
        /\ Append(stack, g)[Len(stack) + 1] = g
    <3>1. stack \in Seq(Frames) /\ g \in Frames
      BY <1>2, <1>5
    <3> QED
      BY <3>1, AppendProperties
  <2>2. Len(stack) + 1 = 2 /\ 1 \in 1..Len(stack)
    BY <1>2
  <2> QED
    BY <1>2, <1>6, <2>1, <2>2
<1>8. TypeInv'
  BY <1>1, <1>7 DEF TypeInv, Fields
<1>9. AskedInv'
  <2>1. SameTurn
    BY <1>1, NothingSaid
  <2> QED
    BY <2>1 DEF SameTurn
<1>10. ToSet(g.props) = {}
  BY <1>5 DEF ToSet
<1>11. IdsInv'
  BY <1>1, <1>7, <1>10 DEF IdsInv, Ids
<1>12. StackInv'
  BY <1>1, <1>2, <1>5, <1>7 DEF StackInv, Running
<1>13. ConfinedInv'
  <2>1. Confined(g)'
    BY <1>5, ConfinedAtRest
  <2>2. Confined(stack[1])
    BY <1>7 DEF ConfinedInv
  <2>3. PICK f : f = stack[1]
    OBVIOUS
  <2>4. Confined(f)'
    BY <1>1, <2>2, <2>3 DEF Confined
  <2> QED
    BY <1>7, <2>1, <2>3, <2>4 DEF ConfinedInv
<1>14. ShownInv'
  <2>1. InHand \subseteq InHand'
    BY <1>1, <1>7 DEF InHand
  <2>2. Stored' = Stored
    BY <1>1 DEF Stored
  <2> QED
    BY <1>1, <1>5, <1>7, <2>1, <2>2 DEF ShownInv, Running
<1>15. PairedInv'
  <2>1. PairedFrame(g)
    BY <1>5 DEF PairedFrame
  <2> QED
    BY <1>1, <1>7, <2>1 DEF PairedInv
<1> QED
  BY <1>8, <1>9, <1>11, <1>12, <1>13, <1>14, <1>15

(* An MCP call, which the operator may allow for the rest of the session.      *)
LEMMA McpKeeps ==
  ASSUME SessionInv, McpRuns \/ McpRefused \/ \E choice \in {"y", "a", "n"} : McpAsked(choice)
  PROVE  SessionInv'
<1>1. /\ Running /\ Handling /\ Top.inside /\ stack' = WithTop(Handled(Top))
      /\ UNCHANGED <<env, center, log>> /\ cli.phase = "turn"
  BY DEF McpRuns, McpRefused, McpAsked, McpCalled, Handling, Running
<1>2. Fields /\ AskedInv
  BY DEF SessionInv, TypeInv
<1>3. CASE UNCHANGED cli
  BY <1>1, <1>3, NothingSaid, HandledKeeps
<1>4. CASE cli' = [cli EXCEPT !.allowed = @ \cup {Call[2]}]
  <2>1. cli' = [mode |-> cli.mode, phase |-> cli.phase, inline |-> cli.inline,
                delegation |-> cli.delegation, lean |-> cli.lean, always |-> cli.always,
                allowed |-> cli.allowed \cup {Call[2]},
                history |-> cli.history, extra |-> cli.extra, review |-> cli.review,
                seen |-> cli.seen, stage |-> cli.stage, prompts |-> cli.prompts,
                commands |-> cli.commands]
    BY <1>2, <1>4 DEF Fields
  <2>2. Fields'
    BY <1>1, <1>2, <2>1 DEF Fields
  <2>3. AskedInv'
    BY <1>1, <1>2, <2>1 DEF AskedInv
  <2>4. SameTurn
    BY <1>1, <2>1, <2>2, <2>3 DEF SameTurn
  <2> QED
    BY <1>1, <2>4, HandledKeeps
<1> QED
  BY <1>3, <1>4 DEF McpRuns, McpRefused, McpAsked

(* The agent runs a call itself.                                               *)
LEMMA ResultsPair ==
  ASSUME SessionInv, Executing, Top.agent = "main", Top.base = "engineer",
         NEW rs \in Seq(Messages), Len(rs) = Top.size, \A i \in 1..Len(rs) : rs[i].role = "tool"
  PROVE  ~log.cut /\ ~log.dropped => Paired(Top.msgs \o rs)
<1> SUFFICES ASSUME ~log.cut, ~log.dropped PROVE Paired(Top.msgs \o rs)
  OBVIOUS
<1>1. PairedFrame(Top) /\ Top \in Frames
  BY TopNow DEF Executing, Handling
<1>2. PICK ms \in Seq(Messages) : /\ Paired(ms)
                                  /\ Top.msgs = ms \o <<Message("calls", Top.size)>>
                                  /\ Top.size # 0
  BY <1>1 DEF PairedFrame, Calling, Executing, Handling
<1>3. Top.size \in Nat
  BY <1>1 DEF Frames
<1> QED
  BY <1>2, <1>3, PairedAndResults

LEMMA ExecutedKeeps ==
  ASSUME SessionInv, Executing, NEW f, Fit(f), f.batch = Top.batch, f.msgs = Top.msgs,
         f.inside = Top.inside, f.size = Top.size, Executed(f)
  PROVE  SessionInv'
<1>1. /\ Running /\ Top \in Frames /\ Confined(Top) /\ ~Top.inside /\ Top.batch # <<>>
      /\ (~log.cut /\ ~log.dropped => PairedFrame(Top))
  BY TopNow DEF Executing, Handling
<1>2. /\ f \in Frames /\ f.agent = Top.agent /\ f.base = Top.base
      /\ f.agent # "main" => f.used <= SubAgent[f.agent].calls
  BY DEF Fit
<1>3. CASE Len(f.batch) > 1
  <2>1. PICK g : g = [f EXCEPT !.batch = Tail(f.batch)]
    OBVIOUS
  <2>2. stack' = WithTop(g) /\ UNCHANGED <<cli, log>>
    BY <1>3, <2>1 DEF Executed
  <2>3. g = [agent |-> f.agent, base |-> f.base, turn |-> f.turn, round |-> f.round,
             used |-> f.used, msgs |-> f.msgs, size |-> f.size, batch |-> Tail(f.batch),
             inside |-> f.inside, props |-> f.props]
    BY <1>2, <2>1 DEF Frames
  <2>4. /\ Tail(f.batch) \in Seq(Calls) /\ Tail(f.batch) # <<>>
        /\ \A i \in 1..Len(Tail(f.batch)) :
             i + 1 \in 1..Len(f.batch) /\ Tail(f.batch)[i] = f.batch[i + 1]
    <3>1. f.batch \in Seq(Calls)
      BY <1>2 DEF Frames
    <3> QED
      BY <1>3, <3>1, TailOfMore
  <2>5. g \in Frames
    BY <1>2, <2>3, <2>4 DEF Frames
  <2>6. Fit(g)
    BY <2>3, <2>5 DEF Fit
  <2>7. Confined(g)
    BY <1>1, <1>2, <2>3, <2>4 DEF Confined
  <2>8. ~log.cut /\ ~log.dropped => PairedFrame(g)
    BY <1>1, <1>2, <2>3, <2>4 DEF PairedFrame, Calling
  <2> QED
    BY <1>1, <2>2, <2>6, <2>7, <2>8, GoesOnKeeps, NothingSaid
<1>4. CASE ~(Len(f.batch) > 1)
  <2>1. PICK g : g = [f EXCEPT !.batch = <<>>]
    OBVIOUS
  <2>2. PICK rs : rs = Results
    OBVIOUS
  <2>3. NextTurn(g, Said(rs))
    BY <1>4, <2>1, <2>2 DEF Executed
  <2>4. g = [agent |-> f.agent, base |-> f.base, turn |-> f.turn, round |-> f.round,
             used |-> f.used, msgs |-> f.msgs, size |-> f.size, batch |-> <<>>,
             inside |-> f.inside, props |-> f.props]
    BY <1>2, <2>1 DEF Frames
  <2>5. g \in Frames
    BY <1>2, <2>4, EmptySeq DEF Frames
  <2>6. Fit(g)
    BY <2>4, <2>5 DEF Fit
  <2>7. rs \in Seq(Messages) /\ Len(rs) = Top.size /\ \A i \in 1..Len(rs) : rs[i].role = "tool"
    <3>1. Message("tool", 0) \in Messages /\ Message("tool", 0).role = "tool" /\ Top.size \in Nat
      BY <1>1 DEF Message, Messages, Frames
    <3>2. rs \in [1..Top.size -> Messages] /\ \A i \in 1..Top.size : rs[i].role = "tool"
      BY <2>2, <3>1 DEF Results
    <3>3. rs \in Seq(Messages) /\ DOMAIN rs = 1..Top.size
      BY <3>1, <3>2, SeqDef
    <3>4. Len(rs) = Top.size
      BY <3>1, <3>3, LenProperties
    <3> QED
      BY <3>2, <3>3, <3>4
  <2>8. Said(rs) = IF IsSub \/ Top.base = "analyst" THEN Top.msgs ELSE Top.msgs \o rs
    BY DEF Said
  <2>9. Said(rs) \in Seq(Messages)
    <3>1. Top.msgs \in Seq(Messages)
      BY <1>1 DEF Frames
    <3> QED
      BY <2>7, <2>8, <3>1, ConcatProperties
  <2>10. ASSUME Top.agent = "main", Top.base = "engineer"
         PROVE  ~log.cut /\ ~log.dropped => Paired(Said(rs))
    BY <2>7, <2>8, <2>10, ResultsPair DEF IsSub
  <2> QED
    BY <1>1, <2>3, <2>4, <2>6, <2>9, <2>10, NextTurnKeeps
<1> QED
  BY <1>3, <1>4

LEMMA ExecutesKeeps ==
  ASSUME SessionInv, Executes
  PROVE  SessionInv'
<1>1. Executing /\ Running /\ Executed(Top) /\ UNCHANGED <<env, center>>
  BY DEF Executes, Executing, Handling
<1> QED
  BY <1>1, TopFits, ExecutedKeeps

(* A proposal is stored, and its id is in the hands of the agent.              *)
LEMMA ProposesKeeps ==
  ASSUME SessionInv, Proposes
  PROVE  SessionInv'
<1>1. /\ Executing /\ Running /\ Call[1] = "write" /\ Top.base = "engineer" /\ UNCHANGED env
      /\ Top.batch # <<>>
  BY DEF Proposes, Executing, Handling
<1>2. Top \in Frames /\ Confined(Top) /\ ToSet(Top.props) \subseteq Ids
  BY <1>1, TopNow
<1>3. PICK p : p = [action |-> Call[2], status |-> "pending", votes |-> {}]
  OBVIOUS
<1>4. p \in Proposal
  <2>1. Top.batch \in Seq(Calls)
    BY <1>2 DEF Frames
  <2>2. Call \in Calls
    BY <1>1, <2>1, HeadTailProperties DEF Call
  <2> QED
    BY <1>1, <1>3, <2>2 DEF Proposal
<1>5. center \in Seq(Proposal) /\ Len(center) \in Nat /\ Ids = 1..Len(center)
  BY LenProperties DEF SessionInv, TypeInv, Ids
<1>6. center' = Append(center, p)
  BY <1>3 DEF Proposes
<1>7. center' \in Seq(Proposal) /\ Len(center') = Len(center) + 1
  BY <1>4, <1>5, <1>6, AppendProperties
<1>8. PICK n : n = Len(center) + 1
  OBVIOUS
<1>9. /\ Append(Top.props, n) \in Seq(Nat)
      /\ ToSet(Append(Top.props, n)) = ToSet(Top.props) \cup {n}
  <2>1. Top.props \in Seq(Nat) /\ n \in Nat
    BY <1>2, <1>5, <1>8 DEF Frames
  <2> QED
    BY <2>1, ElementsOfAppended, AppendProperties
<1>10. PICK g : g = [Top EXCEPT !.props = Append(Top.props, n)]
  OBVIOUS
<1>11. Executed(g)
  BY <1>8, <1>10 DEF Proposes
<1>12. g = [agent |-> Top.agent, base |-> Top.base, turn |-> Top.turn, round |-> Top.round,
            used |-> Top.used, msgs |-> Top.msgs, size |-> Top.size, batch |-> Top.batch,
            inside |-> Top.inside, props |-> Append(Top.props, n)]
  BY <1>2, <1>10 DEF Frames
<1>13. g \in Frames
  BY <1>2, <1>9, <1>12 DEF Frames
<1>14. Ids' = Ids \cup {n}
  BY <1>5, <1>7, <1>8 DEF Ids
<1>15. Fit(g)
  BY <1>1, <1>2, <1>7, <1>9, <1>12, <1>13, <1>14 DEF Fit, Confined
<1> QED
  BY <1>1, <1>11, <1>12, <1>15, ExecutedKeeps

LEMMA AnswersUserKeeps ==
  ASSUME SessionInv, AnswersUser
  PROVE  SessionInv'
<1>1. Executing /\ Running /\ UNCHANGED <<env, center>> /\ Top.batch # <<>>
  BY DEF AnswersUser, Executing, Handling
<1>2. Fit(Top) /\ Top \in Frames
  BY <1>1, TopFits DEF Fit
<1>3. PICK l : l = [log EXCEPT !.dropped = log.dropped \/ (~IsSub /\ Top.size > 1)]
  OBVIOUS
<1>4. l = [said |-> log.said, yes |-> log.yes, outage |-> log.outage,
           listed |-> log.listed, before |-> log.before, cut |-> log.cut,
           dropped |-> log.dropped \/ (~IsSub /\ Top.size > 1)]
  BY <1>3 DEF SessionInv, TypeInv, Fields
<1>5. Like(l)
  BY <1>4 DEF Like
<1>6. PICK rs : rs = <<Message("tool", 0)>>
  OBVIOUS
<1>7. rs \in Seq(Messages) /\ Len(rs) = 1 /\ \A i \in 1..Len(rs) : rs[i].role = "tool"
  BY <1>6 DEF Message, Messages
<1>8. Returns(Top.props, Said(rs), l) /\ Returned(Top, Top.props, l)
  BY <1>3, <1>6 DEF AnswersUser, Returned
<1>9. ASSUME Top.agent = "main", Top.base = "engineer"
      PROVE  Said(rs) \in Seq(Messages) /\ (~log.cut /\ ~l.dropped => Paired(Said(rs)))
  <2>1. Said(rs) = Top.msgs \o rs /\ Top.msgs \in Seq(Messages) /\ Top.size \in Nat
    BY <1>2, <1>9 DEF Said, IsSub, Frames
  <2>2. Said(rs) \in Seq(Messages)
    BY <1>7, <2>1, ConcatProperties
  <2>3. ASSUME ~log.cut, ~l.dropped PROVE Paired(Said(rs))
    <3>1. ~log.dropped /\ ~(Top.size > 1)
      BY <1>4, <1>9, <2>3 DEF IsSub
    <3>2. PairedFrame(Top)
      BY <1>1, <2>3, <3>1, TopNow
    <3>3. Top.size # 0
      BY <1>1, <1>9, <3>2 DEF PairedFrame, Calling, Executing
    <3>4. Len(rs) = Top.size
      BY <1>7, <2>1, <3>1, <3>3
    <3> QED
      BY <1>1, <1>7, <1>9, <2>1, <2>3, <3>1, <3>4, ResultsPair
  <2> QED
    BY <2>2, <2>3
<1> QED
  BY <1>1, <1>2, <1>5, <1>8, <1>9, ReturnsKeep

LEMMA LoopKeeps ==
  ASSUME SessionInv, LoopNext
  PROVE  SessionInv'
<1>0. CASE Stopped
  <2>1. Running /\ Asking /\ TextAnswer(Top) /\ UNCHANGED <<env, center>> /\ Top.batch = <<>>
    BY <1>0 DEF Stopped, Asking
  <2> QED
    BY <2>1, TopFits, TextKeeps
<1>1. CASE AnswersText
  <2>1. Running /\ Asking /\ Asks /\ TextAnswer(Counted) /\ UNCHANGED <<env, center>>
    BY <1>1 DEF AnswersText, Asks, Asking
  <2>2. Fit(Counted) /\ Counted.batch = <<>>
    BY <2>1, CountedFits
  <2> QED
    BY <2>1, <2>2, TextKeeps
<1>2. CASE Answers
  BY <1>2, CallsKeep DEF Answers
<1>3. CASE HandledInside
  <2>1. Handling /\ Running /\ Top.inside /\ stack' = WithTop(Handled(Top))
        /\ UNCHANGED <<env, cli, center, log>>
    BY <1>3 DEF HandledInside, Handling
  <2> QED
    BY <2>1, NothingSaid, HandledKeeps
<1> QED
  BY <1>0, <1>1, <1>2, <1>3, BlankKeeps, OutageKeeps, DelegatesKeeps, McpKeeps, AnswersUserKeeps,
     ExecutesKeeps, ProposesKeeps DEF LoopNext

-----------------------------------------------------------------------------
(* The steps at the prompt.                                                    *)
LEMMA StartsKeep ==
  ASSUME SessionInv, cli.phase = "prompt", UNCHANGED <<env, center>>,
         NEW f \in Frames, stack' = <<f>>, f.batch = <<>>, f.props = <<>>, f.used = 0,
         NEW extra \in Seq(Nat), ToSet(extra) \subseteq Ids, NEW cut, NEW prompts,
         cli' = [cli EXCEPT !.phase = "turn", !.extra = extra, !.prompts = prompts],
         log' = [log EXCEPT !.outage = FALSE, !.listed = {}, !.before = Len(center), !.yes = {},
                            !.cut = cut],
         log.cut => cut,
         ~cut /\ ~log.dropped /\ f.agent = "main" /\ f.base = "engineer" => Paired(f.msgs)
  PROVE  SessionInv'
<1> USE DEF SessionInv
<1>1. cli' = [mode |-> cli.mode, phase |-> "turn", inline |-> cli.inline,
              delegation |-> cli.delegation, lean |-> cli.lean, always |-> cli.always,
              allowed |-> cli.allowed,
              history |-> cli.history, extra |-> extra, review |-> cli.review,
              seen |-> cli.seen, stage |-> cli.stage, prompts |-> prompts,
              commands |-> cli.commands]
  BY DEF TypeInv, Fields
<1>2. log' = [said |-> log.said, yes |-> {}, outage |-> FALSE,
              listed |-> {}, before |-> Len(center), cut |-> cut, dropped |-> log.dropped]
  BY DEF TypeInv, Fields
<1>3. stack' \in Seq(Frames) /\ Len(stack') = 1 /\ stack'[1] = f /\ stack' # <<>>
      /\ Len(center) \in Nat
  BY LenProperties DEF TypeInv
<1>4. Fields'
  BY <1>1, <1>2 DEF Fields
<1>5. TypeInv'
  BY <1>1, <1>2, <1>3, <1>4 DEF TypeInv
<1>6. AskedInv'
  BY <1>1, <1>2 DEF AskedInv
<1>7. IdsInv'
  <2>1. ToSet(f.props) = {}
    BY DEF ToSet
  <2> QED
    BY <1>1, <1>3, <2>1 DEF IdsInv, Ids
<1>8. StackInv'
  BY <1>1, <1>3 DEF StackInv
<1>9. ConfinedInv'
  <2>1. f.agent # "main" => f.used <= SubAgent[f.agent].calls
    <3>1. f.agent # "main" => SubAgent[f.agent].calls \in Nat
      BY LoopAssumption DEF Frames
    <3> QED
      BY <3>1
  <2>2. Confined(f)'
    BY <2>1, ConfinedAtRest
  <2> QED
    BY <1>3, <2>2 DEF ConfinedInv
<1>10. ShownInv'
  <2>1. Stored' = {}
    BY <1>2, <1>3 DEF Stored
  <2> QED
    BY <1>1, <1>3, <2>1 DEF ShownInv, Running
<1>11. PairedInv'
  <2>1. ~cut /\ ~log.dropped => PairedFrame(f)
    BY PairedAtRest
  <2> QED
    BY <1>1, <1>2, <1>3, <2>1 DEF PairedInv
<1> QED
  BY <1>5, <1>6, <1>7, <1>8, <1>9, <1>10, <1>11

(* The window of the history, which cuts nothing off unless it is logged.      *)
LEMMA WindowOfHistory ==
  ASSUME NEW h \in Seq(Messages)
  PROVE  LastN(h, Window) \in Seq(Messages) /\ (~(Len(h) > Window) => LastN(h, Window) = h)
<1>1. Len(h) \in Nat /\ Window \in Nat /\ \A i \in 1..Len(h) : h[i] \in Messages
  BY LenProperties, ElementOfSeq, WindowAssumption
<1>2. CASE Len(h) > Window
  <2>1. Len(h) - Window + 1 \in Int /\ Len(h) \in Int
        /\ \A i \in Len(h) - Window + 1..Len(h) : h[i] \in Messages
    BY <1>1, <1>2
  <2>2. SubSeq(h, Len(h) - Window + 1, Len(h)) \in Seq(Messages)
    BY <2>1, SubSeqProperties
  <2> QED
    BY <1>2, <2>2 DEF LastN
<1> QED
  BY <1>2 DEF LastN

LEMMA RunTurnKeeps ==
  ASSUME SessionInv, RunTurn
  PROVE  SessionInv'
<1>1. Fields /\ cli.history \in Seq(Messages) /\ cli.mode \in Base /\ cli.phase = "prompt"
  BY DEF RunTurn, AtPrompt, SessionInv, TypeInv
<1>2. PICK m : m = Message("user", 0)
  OBVIOUS
<1>3. m \in Messages /\ m.role = "user"
  BY <1>2 DEF Message, Messages
<1>4. PICK ms : ms = IF cli.mode = "engineer" THEN Append(LastN(cli.history, Window), m) ELSE <<>>
  OBVIOUS
<1>5. PICK f : f = Frame("main", cli.mode, ms)
  OBVIOUS
<1>6. PICK cut : cut = (log.cut \/ (cli.mode = "engineer" /\ Len(cli.history) > Window))
  OBVIOUS
<1>7. LastN(cli.history, Window) \in Seq(Messages)
      /\ (~(Len(cli.history) > Window) => LastN(cli.history, Window) = cli.history)
  BY <1>1, WindowOfHistory
<1>8. ms \in Seq(Messages)
  BY <1>3, <1>4, <1>7, EmptySeq, AppendProperties
<1>9. /\ f \in Frames /\ f.agent = "main" /\ f.base = cli.mode /\ f.batch = <<>>
      /\ f.props = <<>> /\ f.used = 0 /\ f.msgs = ms
  BY <1>1, <1>5, <1>8, EmptySeq DEF Frame, Frames
<1>10. ASSUME ~cut, ~log.dropped, cli.mode = "engineer" PROVE Paired(ms)
  <2>1. ~log.cut /\ LastN(cli.history, Window) = cli.history /\ Paired(cli.history)
    BY <1>6, <1>7, <1>10 DEF SessionInv, PairedInv
  <2>2. Paired(Append(cli.history, m))
    BY <1>1, <1>3, <2>1, PairedAndText
  <2> QED
    BY <1>4, <1>10, <2>1, <2>2
<1>11. PICK extra : extra = <<>>
  OBVIOUS
<1>12. extra \in Seq(Nat) /\ ToSet(extra) \subseteq Ids
  BY <1>11, EmptySeq DEF ToSet
<1>13. PICK prompts : prompts = cli.prompts + 1
  OBVIOUS
<1>14. /\ stack' = <<f>> /\ UNCHANGED <<env, center>>
       /\ cli' = [cli EXCEPT !.phase = "turn", !.extra = extra, !.prompts = prompts]
       /\ log' = [log EXCEPT !.outage = FALSE, !.listed = {}, !.before = Len(center), !.yes = {},
                             !.cut = cut]
  BY <1>2, <1>4, <1>5, <1>6, <1>11, <1>13 DEF RunTurn
<1> QED
  BY <1>1, <1>6, <1>9, <1>10, <1>12, <1>14, StartsKeep

LEMMA OperatorDelegatesKeeps ==
  ASSUME SessionInv, NEW name \in DOMAIN SubAgent, OperatorDelegates(name)
  PROVE  SessionInv'
<1>1. Fields /\ cli.phase = "prompt" /\ cli.extra \in Seq(Nat) /\ ToSet(cli.extra) \subseteq Ids
  BY DEF OperatorDelegates, AtPrompt, SessionInv, TypeInv, IdsInv
<1>2. PICK f : f = Frame(name, SubAgent[name].base, <<>>)
  OBVIOUS
<1>3. /\ f \in Frames /\ f.agent # "main" /\ f.batch = <<>> /\ f.props = <<>> /\ f.used = 0
  BY <1>2, LoopAssumption, EmptySeq DEF Frame, Frames
<1>4. PICK prompts : prompts = cli.prompts + 1
  OBVIOUS
<1>5. stack' = <<f>> /\ UNCHANGED <<env, center>>
  BY <1>2 DEF OperatorDelegates
<1>6. cli' = [cli EXCEPT !.phase = "turn", !.extra = cli.extra, !.prompts = prompts]
  BY <1>1, <1>4 DEF OperatorDelegates, Fields
<1>7. log' = [log EXCEPT !.outage = FALSE, !.listed = {}, !.before = Len(center), !.yes = {},
                         !.cut = log.cut]
  BY <1>1 DEF OperatorDelegates, Fields
<1> QED
  BY <1>1, <1>3, <1>5, <1>6, <1>7, StartsKeep

(* A step between the turns.                                                   *)
LEMMA BetweenTurns ==
  ASSUME SessionInv, cli.phase # "turn", cli'.phase # "turn", UNCHANGED <<env, stack>>,
         Fields', AskedInv', cli'.mode \in Base, cli'.history \in Seq(Messages),
         ~log.cut /\ ~log.dropped => Paired(cli'.history),
         cli'.extra = cli.extra, cli'.review \in Seq(Nat), ToSet(cli'.review) \subseteq Ids,
         center' \in Seq(Proposal), Len(center') = Len(center),
         log'.before = log.before, log'.outage = log.outage, log'.listed = log.listed,
         log'.cut = log.cut, log'.dropped = log.dropped
  PROVE  SessionInv'
<1> USE DEF SessionInv
<1>1. stack = <<>> /\ stack' = <<>> /\ Len(stack') = 0 /\ stack' \in Seq(Frames)
  BY EmptySeq DEF StackInv
<1>2. TypeInv'
  BY <1>1 DEF TypeInv
<1>3. IdsInv'
  BY <1>1 DEF IdsInv, Ids
<1>4. StackInv'
  BY <1>1 DEF StackInv
<1>5. ConfinedInv'
  BY <1>1 DEF ConfinedInv
<1>6. ShownInv'
  <2>1. Stored' = Stored
    BY DEF Stored
  <2> QED
    BY <1>1, <2>1 DEF ShownInv, Running
<1>7. PairedInv'
  BY <1>1 DEF PairedInv
<1> QED
  BY <1>2, <1>3, <1>4, <1>5, <1>6, <1>7

LEMMA NothingToPair == Paired(<<>>)
<1>1. Len(<<>>) = 0
  OBVIOUS
<1> QED
  BY <1>1 DEF Paired

LEMMA CommandsKeep ==
  ASSUME SessionInv, Commands
  PROVE  SessionInv'
<1>1. /\ cli.phase = "prompt" /\ UNCHANGED <<env, stack, center>>
      /\ Fields /\ AskedInv /\ cli.mode \in Base /\ cli.history \in Seq(Messages)
      /\ cli.review \in Seq(Nat) /\ ToSet(cli.review) \subseteq Ids /\ center \in Seq(Proposal)
      /\ (~log.cut /\ ~log.dropped => Paired(cli.history))
  <2>1. cli.phase = "prompt" /\ UNCHANGED <<env, stack, center>>
    BY DEF Commands, SetMode, Delegation, Tokens, ApprovalMode, NewHistory, McpAllow, AtCommand,
       AtPrompt
  <2> QED
    BY <2>1 DEF SessionInv, TypeInv, IdsInv, PairedInv
<1>2. PICK n : n = cli.commands + 1
  OBVIOUS
<1>3. /\ Commanded = [mode |-> cli.mode, phase |-> cli.phase, inline |-> cli.inline,
                      delegation |-> cli.delegation, lean |-> cli.lean, always |-> cli.always,
                      allowed |-> cli.allowed, history |-> cli.history, extra |-> cli.extra,
                      review |-> cli.review, seen |-> cli.seen, stage |-> cli.stage,
                      prompts |-> cli.prompts, commands |-> n]
  <2>1. Fields
    BY <1>1
  <2> QED
    BY <1>2, <2>1 DEF Commanded, Fields
<1>4. CASE McpAllow
  <2>1. log' = log /\ \E c \in env.calls : cli' = [Commanded EXCEPT !.allowed = @ \cup {c[2]}]
    BY <1>4 DEF McpAllow
  <2>2. PICK allowed : cli' = [Commanded EXCEPT !.allowed = allowed]
    BY <2>1
  <2>3. cli' = [mode |-> cli.mode, phase |-> cli.phase, inline |-> cli.inline,
                delegation |-> cli.delegation, lean |-> cli.lean, always |-> cli.always,
                allowed |-> allowed, history |-> cli.history, extra |-> cli.extra,
                review |-> cli.review, seen |-> cli.seen, stage |-> cli.stage,
                prompts |-> cli.prompts, commands |-> n]
    BY <1>3, <2>2
  <2>4. Fields'
    BY <1>1, <2>1, <2>3 DEF Fields
  <2>5. AskedInv'
    BY <1>1, <2>1, <2>3 DEF AskedInv
  <2> QED
    BY <1>1, <2>1, <2>3, <2>4, <2>5, BetweenTurns
<1>5. CASE ~McpAllow
  <2>1. PICK mode, delegation, lean, inline, history :
          /\ cli' = [mode |-> mode, phase |-> cli.phase, inline |-> inline,
                     delegation |-> delegation, lean |-> lean, always |-> cli.always,
                     allowed |-> cli.allowed, history |-> history, extra |-> cli.extra,
                     review |-> cli.review, seen |-> cli.seen, stage |-> cli.stage,
                     prompts |-> cli.prompts, commands |-> n]
          /\ mode \in Base /\ (history = cli.history \/ history = <<>>)
    <3>1. CASE SetMode
      <4>1. PICK m \in {"analyst", "engineer"} : cli' = [Commanded EXCEPT !.mode = m]
        BY <3>1 DEF SetMode
      <4> QED
        BY <1>3, <4>1 DEF Base
    <3>2. CASE Delegation
      <4>1. PICK d : cli' = [Commanded EXCEPT !.delegation = d]
        BY <3>2 DEF Delegation
      <4> QED
        BY <1>1, <1>3, <4>1
    <3>3. CASE ApprovalMode
      <4>1. PICK d : cli' = [Commanded EXCEPT !.inline = d]
        BY <3>3 DEF ApprovalMode
      <4> QED
        BY <1>1, <1>3, <4>1
    <3>4. CASE NewHistory
      BY <1>1, <1>3, <3>4 DEF NewHistory
    <3>5. CASE Tokens
      <4>1. PICK d : cli' = [Commanded EXCEPT !.lean = d]
        BY <3>5 DEF Tokens
      <4> QED
        BY <1>1, <1>3, <4>1
    <3> QED
      BY <1>5, <3>1, <3>2, <3>3, <3>4, <3>5 DEF Commands
  <2>2. log' = log
    BY <1>5 DEF Commands, SetMode, Delegation, Tokens, ApprovalMode, NewHistory
  <2>3. Fields'
    BY <1>1, <2>1, <2>2 DEF Fields
  <2>4. AskedInv'
    BY <1>1, <2>1, <2>2 DEF AskedInv
  <2>5. history \in Seq(Messages) /\ (~log.cut /\ ~log.dropped => Paired(history))
    BY <1>1, <2>1, NothingToPair, EmptySeq
  <2> QED
    BY <1>1, <2>1, <2>2, <2>3, <2>4, <2>5, BetweenTurns
<1> QED
  BY <1>4, <1>5

-----------------------------------------------------------------------------
(* The steps of a review.                                                      *)
LEMMA ReviewIsOn ==
  ASSUME SessionInv, cli.phase = "review"
  PROVE  /\ cli.review \in Seq(Nat) /\ cli.review # <<>> /\ Shown \in Ids
         /\ Fields /\ AskedInv /\ stack = <<>> /\ center \in Seq(Proposal)
         /\ \A p \in Ids : center[p] \in Proposal
<1>1. /\ cli.review \in Seq(Nat) /\ cli.review # <<>> /\ ToSet(cli.review) \subseteq Ids
      /\ Fields /\ AskedInv /\ stack = <<>> /\ center \in Seq(Proposal)
  BY DEF SessionInv, TypeInv, IdsInv, AskedInv, StackInv
<1>2. Shown \in Ids
  BY <1>1, ElementsOfTail DEF Shown
<1> QED
  BY <1>1, <1>2, ElementOfSeq DEF Ids

(* A step of a review changes nothing of a proposal but its status and votes.  *)
LEMMA ReviewKeeps ==
  ASSUME SessionInv, cli.phase = "review", UNCHANGED <<env, stack>>, Fields', AskedInv',
         cli'.phase # "turn", cli'.mode = cli.mode, cli'.history = cli.history,
         cli'.extra = cli.extra, cli'.review = cli.review \/ cli'.review = Tail(cli.review),
         center' \in Seq(Proposal), Len(center') = Len(center),
         log'.before = log.before, log'.outage = log.outage, log'.listed = log.listed,
         log'.cut = log.cut, log'.dropped = log.dropped
  PROVE  SessionInv'
<1>1. /\ cli.mode \in Base /\ cli.history \in Seq(Messages)
      /\ (~log.cut /\ ~log.dropped => Paired(cli.history)) /\ ToSet(cli.review) \subseteq Ids
  BY DEF SessionInv, TypeInv, PairedInv, IdsInv
<1>2. cli'.review \in Seq(Nat) /\ ToSet(cli'.review) \subseteq Ids
  <2>1. Tail(cli.review) \in Seq(Nat) /\ ToSet(Tail(cli.review)) \subseteq ToSet(cli.review)
    BY ReviewIsOn, ElementsOfTail
  <2> QED
    BY <1>1, <2>1, ReviewIsOn
<1> QED
  BY <1>1, <1>2, BetweenTurns

(* The next proposal, or the end of the review.                                *)
LEMMA NextProposalKeeps ==
  ASSUME SessionInv, cli.phase = "review", UNCHANGED <<env, stack>>, cli' = NextProposal(cli),
         center' \in Seq(Proposal), Len(center') = Len(center), log' = log
  PROVE  SessionInv'
<1>1. PICK seen : seen = cli.seen \cup {Head(cli.review)}
  OBVIOUS
<1>2. PICK phase : phase = IF Len(cli.review) = 1 THEN "prompt" ELSE "review"
  OBVIOUS
<1>3. cli' = [mode |-> cli.mode, phase |-> phase, inline |-> cli.inline,
              delegation |-> cli.delegation, lean |-> cli.lean, always |-> cli.always,
              allowed |-> cli.allowed, history |-> cli.history, extra |-> cli.extra,
              review |-> Tail(cli.review), seen |-> seen, stage |-> "show",
              prompts |-> cli.prompts, commands |-> cli.commands]
  BY <1>1, <1>2, ReviewIsOn DEF NextProposal, Fields
<1>4. phase = "review" => Tail(cli.review) # <<>>
  BY <1>2, ReviewIsOn, ElementsOfTail
<1>5. phase \in {"prompt", "review"}
  BY <1>2
<1>6. Fields'
  BY <1>3, ReviewIsOn DEF Fields
<1>7. AskedInv'
  BY <1>3, <1>4, <1>5, ReviewIsOn DEF AskedInv
<1> QED
  BY <1>3, <1>5, <1>6, <1>7, ReviewKeeps

(* The review goes on with the same proposal, which has the operator's word    *)
(* before it is approved.                                                      *)
LEMMA StageKeeps ==
  ASSUME SessionInv, cli.phase = "review", UNCHANGED <<env, stack>>,
         NEW stage, NEW always, NEW said, NEW yes,
         cli' = [cli EXCEPT !.stage = stage, !.always = always],
         log' = [log EXCEPT !.said = said, !.yes = yes],
         log.said \subseteq said, always \subseteq said \ ExecuteLevel,
         stage \in {"approve", "execute"} => Shown \in yes \/ Action \in said \ ExecuteLevel,
         center' \in Seq(Proposal), Len(center') = Len(center),
         center'[Shown].action = Action
  PROVE  SessionInv'
<1>1. cli' = [mode |-> cli.mode, phase |-> cli.phase, inline |-> cli.inline,
              delegation |-> cli.delegation, lean |-> cli.lean, always |-> always,
              allowed |-> cli.allowed, history |-> cli.history, extra |-> cli.extra,
              review |-> cli.review, seen |-> cli.seen, stage |-> stage,
              prompts |-> cli.prompts, commands |-> cli.commands]
  BY ReviewIsOn DEF Fields
<1>2. log' = [said |-> said, yes |-> yes,
              outage |-> log.outage, listed |-> log.listed, before |-> log.before,
              cut |-> log.cut, dropped |-> log.dropped]
  BY ReviewIsOn DEF Fields
<1>3. Fields'
  BY <1>1, <1>2 DEF Fields
<1>4. Shown' = Shown
  BY <1>1 DEF Shown
<1>5. AskedInv'
  <2>1. stage \in {"approve", "execute"} => Consented(Shown)'
    BY <1>2, <1>4 DEF Consented, Action
  <2> QED
    BY <1>1, <1>2, <2>1, ReviewIsOn DEF AskedInv
<1> QED
  BY <1>1, <1>2, <1>3, <1>5, ReviewKeeps

(* The proposal that is shown, or any other, gets a status and votes.          *)
LEMMA Decided ==
  ASSUME center \in Seq(Proposal), NEW p \in 1..Len(center), NEW q \in Proposal,
         q.action = center[p].action, center' = [center EXCEPT ![p] = q]
  PROVE  /\ center' \in Seq(Proposal) /\ Len(center') = Len(center)
         /\ \A i \in 1..Len(center) : center'[i].action = center[i].action
<1>1. /\ [center EXCEPT ![p] = q] \in Seq(Proposal)
      /\ Len([center EXCEPT ![p] = q]) = Len(center)
      /\ \A j \in 1..Len(center) : [center EXCEPT ![p] = q][j] = IF j = p THEN q ELSE center[j]
  BY ExceptSeq
<1> QED
  BY <1>1

LEMMA StatusSet ==
  ASSUME center \in Seq(Proposal), NEW p \in 1..Len(center), NEW s,
         s \in {"pending", "approved", "rejected", "expired", "executed", "failed"},
         center' = [center EXCEPT ![p].status = s]
  PROVE  /\ center' \in Seq(Proposal) /\ Len(center') = Len(center)
         /\ \A i \in 1..Len(center) : center'[i].action = center[i].action
<1>1. PICK c \in Proposal : c = center[p]
  BY ElementOfSeq
<1>2. PICK q : q = [c EXCEPT !.status = s]
  OBVIOUS
<1>3. q \in Proposal /\ q.action = c.action
  BY <1>2 DEF Proposal
<1>4. center' = [center EXCEPT ![p] = q]
  BY <1>1, <1>2
<1> QED
  BY <1>1, <1>3, <1>4, Decided

LEMMA VoteSet ==
  ASSUME center \in Seq(Proposal), NEW p \in 1..Len(center), NEW by \in {"operator", "other"},
         center' = [center EXCEPT ![p] = Voted(center[p], by)]
  PROVE  /\ center' \in Seq(Proposal) /\ Len(center') = Len(center)
         /\ \A i \in 1..Len(center) : center'[i].action = center[i].action
<1>1. PICK c \in Proposal : c = center[p]
  BY ElementOfSeq
<1>2. PICK votes : votes = c.votes \cup {by}
  OBVIOUS
<1>3. PICK s : s = IF Cardinality(votes) >= Needed[c.action] THEN "approved" ELSE c.status
  OBVIOUS
<1>4. /\ s \in {"pending", "approved", "rejected", "expired", "executed", "failed"}
      /\ votes \in SUBSET {"operator", "other"}
  BY <1>2, <1>3 DEF Proposal
<1>5. PICK q : q = [c EXCEPT !.votes = votes, !.status = s]
  OBVIOUS
<1>6. q \in Proposal /\ q.action = c.action
  BY <1>4, <1>5 DEF Proposal
<1>7. q = Voted(c, by)
  BY <1>2, <1>3, <1>5 DEF Voted, Proposal
<1> QED
  BY <1>1, <1>6, <1>7, Decided

(* What the operator chooses of the proposal that is shown.                    *)
LEMMA ChosenKeeps ==
  ASSUME SessionInv,
         ReviewAuto \/ ReviewAsks \/ ChoosesYes \/ ChoosesAlways \/ \E yes \in BOOLEAN : Confirms(yes)
  PROVE  SessionInv'
<1>1. /\ cli.phase = "review" /\ UNCHANGED <<env, stack, center>>
  BY DEF ReviewAuto, ReviewAsks, ChoosesYes, ChoosesAlways, Confirms, Reviewing
<1>2. /\ Fields /\ center \in Seq(Proposal) /\ center'[Shown].action = Action
      /\ cli.always \subseteq log.said \ ExecuteLevel
  BY <1>1, ReviewIsOn DEF Action, AskedInv
<1>3. CASE cli' = NextProposal(cli) /\ log' = log
  BY <1>1, <1>2, <1>3, NextProposalKeeps
<1>4. ASSUME NEW stage, NEW yes, cli' = At(stage), log' = [log EXCEPT !.yes = yes],
             stage \in {"approve", "execute"} => Shown \in yes \/ Action \in log.said \ ExecuteLevel
      PROVE  SessionInv'
  <2>1. cli' = [cli EXCEPT !.stage = stage, !.always = cli.always]
    BY <1>2, <1>4 DEF At, Fields
  <2>2. log' = [log EXCEPT !.said = log.said, !.yes = yes]
    BY <1>2, <1>4 DEF Fields
  <2> QED
    BY <1>1, <1>2, <1>4, <2>1, <2>2, StageKeeps
<1>5. log = [log EXCEPT !.yes = log.yes]
  BY <1>2 DEF Fields
<1>6. CASE ReviewAuto
  BY <1>2, <1>4, <1>5, <1>6 DEF ReviewAuto, AutoApproves
<1>7. CASE ReviewAsks
  BY <1>4, <1>5, <1>7 DEF ReviewAsks
<1>8. CASE ChoosesYes
  <2>1. CASE Executable
    BY <1>4, <1>5, <1>8, <2>1 DEF ChoosesYes
  <2>2. CASE ~Executable
    BY <1>4, <1>8, <2>2 DEF ChoosesYes
  <2> QED
    BY <2>1, <2>2
<1>9. CASE ChoosesAlways /\ ~Executable
  <2>1. PICK always, said : always = cli.always \cup {Action} /\ said = log.said \cup {Action}
    OBVIOUS
  <2>2. /\ cli' = [cli EXCEPT !.stage = "approve", !.always = always]
        /\ log' = [log EXCEPT !.said = said, !.yes = log.yes]
    <3>1. log' = [log EXCEPT !.said = said]
      BY <1>9, <2>1 DEF ChoosesAlways
    <3>2. cli' = [[cli EXCEPT !.stage = "approve"] EXCEPT !.always = @ \cup {Action}]
      BY <1>9 DEF ChoosesAlways, At
    <3> QED
      BY <1>2, <2>1, <3>1, <3>2 DEF Fields
  <2>3. always \subseteq said \ ExecuteLevel /\ Action \in said \ ExecuteLevel
    BY <1>2, <1>9, <2>1 DEF Executable
  <2> QED
    BY <1>1, <1>2, <2>1, <2>2, <2>3, StageKeeps
<1>10. CASE \E yes \in BOOLEAN : Confirms(yes)
  <2>1. PICK yes \in BOOLEAN : Confirms(yes)
    BY <1>10
  <2>2. CASE yes
    <3>1. cli' = At("approve") /\ log' = [log EXCEPT !.yes = log.yes \cup {Shown}]
      BY <2>1, <2>2 DEF Confirms
    <3> QED
      BY <1>4, <3>1
  <2>3. CASE ~yes
    BY <1>3, <2>1, <2>3 DEF Confirms
  <2> QED
    BY <2>2, <2>3
<1> QED
  BY <1>3, <1>6, <1>7, <1>8, <1>9, <1>10 DEF ChoosesAlways

LEMMA RejectKeeps ==
  ASSUME SessionInv, ChoosesNo
  PROVE  SessionInv'
<1>1. cli.phase = "review" /\ UNCHANGED <<env, stack, log>>
  BY DEF ChoosesNo, Reviewing
<1>2. Fields /\ center \in Seq(Proposal) /\ Shown \in 1..Len(center)
  BY <1>1, ReviewIsOn DEF Ids
<1>3. CASE center[Shown].status = "pending"
  <2>1. cli' = NextProposal(cli) /\ center' = [center EXCEPT ![Shown].status = "rejected"]
    BY <1>3 DEF ChoosesNo
  <2>2. center' \in Seq(Proposal) /\ Len(center') = Len(center)
    BY <1>2, <2>1, StatusSet
  <2> QED
    BY <1>1, <2>1, <2>2, NextProposalKeeps
<1>4. CASE center[Shown].status # "pending"
  <2>1. cli' = [cli EXCEPT !.phase = "dead"] /\ center' = center
    BY <1>4 DEF ChoosesNo
  <2>2. cli' = [mode |-> cli.mode, phase |-> "dead", inline |-> cli.inline,
                delegation |-> cli.delegation, lean |-> cli.lean, always |-> cli.always,
                allowed |-> cli.allowed, history |-> cli.history, extra |-> cli.extra,
                review |-> cli.review, seen |-> cli.seen, stage |-> cli.stage,
                prompts |-> cli.prompts, commands |-> cli.commands]
    BY <1>2, <2>1 DEF Fields
  <2>3. Fields'
    BY <1>1, <1>2, <2>2 DEF Fields
  <2>4. AskedInv'
    BY <1>1, <2>2, ReviewIsOn DEF AskedInv
  <2> QED
    BY <1>1, <1>2, <2>1, <2>2, <2>3, <2>4, ReviewKeeps
<1> QED
  BY <1>3, <1>4

LEMMA ApproveKeeps ==
  ASSUME SessionInv, ReviewApproves
  PROVE  SessionInv'
<1>1. /\ cli.phase = "review" /\ cli.stage = "approve" /\ UNCHANGED <<env, stack, log>>
  BY DEF ReviewApproves, Reviewing
<1>2. /\ Fields /\ center \in Seq(Proposal) /\ Shown \in 1..Len(center) /\ Consented(Shown)
      /\ cli.always \subseteq log.said \ ExecuteLevel
  BY <1>1, ReviewIsOn DEF Ids, AskedInv
<1>3. /\ center' = center \/ center' = [center EXCEPT ![Shown] = Voted(center[Shown], "operator")]
      /\ cli' = At("execute") \/ cli' = NextProposal(cli)
  BY DEF ReviewApproves
<1>4. /\ center' \in Seq(Proposal) /\ Len(center') = Len(center)
      /\ center'[Shown].action = center[Shown].action
  BY <1>2, <1>3, VoteSet
<1>5. CASE cli' = NextProposal(cli)
  BY <1>1, <1>4, <1>5, NextProposalKeeps
<1>6. CASE cli' = At("execute")
  <2>1. cli' = [cli EXCEPT !.stage = "execute", !.always = cli.always]
    BY <1>2, <1>6 DEF At, Fields
  <2>2. log' = [log EXCEPT !.said = log.said, !.yes = log.yes]
    BY <1>1, <1>2 DEF Fields
  <2>3. Shown \in log.yes \/ Action \in log.said \ ExecuteLevel
    BY <1>2 DEF Consented, Action
  <2> QED
    BY <1>1, <1>2, <1>4, <2>1, <2>2, <2>3, StageKeeps DEF Action
<1> QED
  BY <1>3, <1>5, <1>6

LEMMA ExecuteKeeps ==
  ASSUME SessionInv, ReviewExecutes
  PROVE  SessionInv'
<1>1. /\ cli.phase = "review" /\ UNCHANGED <<env, stack, log>> /\ cli' = NextProposal(cli)
      /\ \/ UNCHANGED center
         \/ \E s \in {"executed", "failed"} : center' = [center EXCEPT ![Shown].status = s]
  BY DEF ReviewExecutes, Reviewing
<1>2. center \in Seq(Proposal) /\ Shown \in 1..Len(center)
  BY <1>1, ReviewIsOn DEF Ids
<1>3. center' \in Seq(Proposal) /\ Len(center') = Len(center)
  BY <1>1, <1>2, StatusSet
<1> QED
  BY <1>1, <1>3, NextProposalKeeps

(* What others decide meanwhile leaves the operator's word as it was.          *)
LEMMA ElsewhereKeeps ==
  ASSUME SessionInv, NEW p \in 1..Len(center), Elsewhere(p)
  PROVE  SessionInv'
<1>1. cli.phase = "review" /\ UNCHANGED <<env, cli, stack, log>>
  BY DEF Elsewhere
<1>2. /\ Fields /\ center \in Seq(Proposal) /\ Shown \in 1..Len(center) /\ AskedInv
  BY <1>1, ReviewIsOn DEF Ids
<1>3. \/ center' = [center EXCEPT ![p] = Voted(center[p], "other")]
      \/ \E s \in {"rejected", "expired", "executed"} : center' = [center EXCEPT ![p].status = s]
  BY DEF Elsewhere
<1>4. /\ center' \in Seq(Proposal) /\ Len(center') = Len(center)
      /\ \A i \in 1..Len(center) : center'[i].action = center[i].action
  BY <1>2, <1>3, VoteSet, StatusSet
<1>5. Fields' /\ Shown' = Shown
  BY <1>1, <1>2 DEF Fields, Shown
<1>6. Consented(Shown) => Consented(Shown)'
  BY <1>1, <1>2, <1>4, <1>5 DEF Consented
<1>7. AskedInv'
  BY <1>1, <1>2, <1>6 DEF AskedInv
<1> QED
  BY <1>1, <1>4, <1>5, <1>7, ReviewKeeps

LEMMA ReviewNextKeeps ==
  ASSUME SessionInv, ReviewNext
  PROVE  SessionInv'
<1>1. CASE ReviewSkips \/ ChoosesLater
  <2>1. /\ cli.phase = "review" /\ UNCHANGED <<env, stack, center, log>>
        /\ cli' = NextProposal(cli)
    BY <1>1 DEF ReviewSkips, ChoosesLater, Reviewing
  <2>2. center \in Seq(Proposal)
    BY DEF SessionInv, TypeInv
  <2> QED
    BY <2>1, <2>2, NextProposalKeeps
<1> QED
  BY <1>1, ChosenKeeps, RejectKeeps, ApproveKeeps, ExecuteKeeps DEF ReviewNext

-----------------------------------------------------------------------------
(* The invariant of a session.                                                 *)
LEMMA SessionStarts ==
  ASSUME SessionInit
  PROVE  SessionInv
<1>1. /\ cli.phase = "prompt" /\ cli.mode = env.mode /\ cli.history = <<>> /\ cli.extra = <<>>
      /\ cli.review = <<>> /\ cli.always = {} /\ cli.stage = "show"
      /\ stack = <<>> /\ center = <<>> /\ env \in Settings
      /\ log.before = 0 /\ log.said = {} /\ log.listed = {}
  BY DEF SessionInit
<1>2. Len(<<>>) = 0 /\ ToSet(<<>>) = {} /\ \A S : <<>> \in Seq(S)
  BY EmptySeq DEF ToSet
<1>3. Fields
  BY DEF SessionInit, Fields
<1>4. TypeInv
  BY <1>1, <1>2, <1>3, LoopAssumption DEF TypeInv
<1>5. AskedInv /\ IdsInv /\ StackInv /\ ConfinedInv
  BY <1>1, <1>2 DEF AskedInv, IdsInv, StackInv, ConfinedInv
<1>6. ShownInv
  <2>1. Stored = {}
    BY <1>1, <1>2 DEF Stored
  <2> QED
    BY <1>1, <1>2, <2>1 DEF ShownInv, Running
<1>7. PairedInv
  BY <1>1, <1>2, NothingToPair DEF PairedInv
<1> QED
  BY <1>4, <1>5, <1>6, <1>7 DEF SessionInv

LEMMA NothingChanges ==
  ASSUME SessionInv, UNCHANGED sessionVars
  PROVE  SessionInv'
<1>1. env' = env /\ cli' = cli /\ stack' = stack /\ center' = center /\ log' = log
  BY DEF sessionVars, loopVars
<1>2. TypeInv' /\ AskedInv' /\ IdsInv' /\ StackInv'
  BY <1>1 DEF SessionInv, TypeInv, Fields, AskedInv, Consented, Shown, IdsInv, Ids, StackInv
<1>3. ConfinedInv' /\ ShownInv' /\ PairedInv'
  BY <1>1 DEF SessionInv, ConfinedInv, Confined, ShownInv, Stored, InHand, Running, PairedInv
<1> QED
  BY <1>2, <1>3 DEF SessionInv

(* SessionInv holds in every reachable state.                                  *)
THEOREM SessionInvHolds == SessionSpec => []SessionInv
<1>1. SessionInit => SessionInv
  BY SessionStarts
<1>2. SessionInv /\ [SessionNext]_sessionVars => SessionInv'
  BY NothingChanges, LoopKeeps, RunTurnKeeps, OperatorDelegatesKeeps, CommandsKeep,
     ReviewNextKeeps, ElsewhereKeeps DEF SessionNext
<1> QED
  BY <1>1, <1>2, PTL DEF SessionSpec

-----------------------------------------------------------------------------
(* Where no operator is, nobody allowed an MCP tool, and only what the tools   *)
(* change at once was changed without the operator's word.                     *)
WordInv == (~env.repl => cli.allowed = {}) /\ NothingRunsUnasked

LEMMA EnvStays == ASSUME SessionNext PROVE env' = env
BY DEF SessionNext, LoopNext, Stopped, AnswersText, AnswersBlank, Outage, Answers, AnswersCalls,
  HandledInside, Delegates, McpRuns, McpRefused, McpAsked, AnswersUser, Executes, Proposes,
  RunTurn, OperatorDelegates, Commands, SetMode, Delegation, Tokens, ApprovalMode, NewHistory,
  McpAllow, ReviewNext, ReviewSkips, ReviewAuto, ReviewAsks, ChoosesYes, ChoosesAlways,
  ChoosesLater, ChoosesNo, Confirms, ReviewApproves, ReviewExecutes, Elsewhere

(* What is allowed changes by the operator's word alone.                       *)
LEMMA AllowedByWord ==
  ASSUME SessionInv, SessionNext, ~env.repl
  PROVE  cli'.allowed = cli.allowed
<1>1. Fields
  BY DEF SessionInv, TypeInv
<1>2. \A ps, ms, l : Returns(ps, ms, l) => cli'.allowed = cli.allowed
  BY <1>1 DEF Returns, SubReturns, MainReturns, Fields
<1>3. \A f, ms : NextTurn(f, ms) => cli'.allowed = cli.allowed
  BY <1>2 DEF NextTurn
<1>4. \A f : TextAnswer(f) => cli'.allowed = cli.allowed
  BY <1>2, <1>3 DEF TextAnswer
<1>5. \A f : Executed(f) => cli'.allowed = cli.allowed
  BY <1>3 DEF Executed
<1>6. CASE LoopNext
  <2>1. CASE Stopped \/ AnswersText
    BY <1>4, <2>1 DEF Stopped, AnswersText
  <2>2. CASE AnswersBlank
    BY <1>3, <2>2 DEF AnswersBlank
  <2>3. CASE Outage
    BY <1>1, <1>2, <2>3 DEF Outage, Fields
  <2>4. CASE Answers \/ HandledInside \/ Delegates
    BY <2>4 DEF Answers, AnswersCalls, HandledInside, Delegates
  <2>5. CASE McpRuns \/ McpRefused \/ \E choice \in {"y", "a", "n"} : McpAsked(choice)
    BY <2>5 DEF McpRuns, McpRefused, McpAsked
  <2>6. CASE AnswersUser
    BY <1>2, <2>6 DEF AnswersUser
  <2>7. CASE Executes \/ Proposes
    BY <1>5, <2>7 DEF Executes, Proposes
  <2> QED
    BY <1>6, <2>1, <2>2, <2>3, <2>4, <2>5, <2>6, <2>7 DEF LoopNext
<1>7. CASE RunTurn \/ \E name \in DOMAIN SubAgent : OperatorDelegates(name)
  BY <1>1, <1>7 DEF RunTurn, OperatorDelegates, Fields
<1>8. CASE Commands
  BY <1>8 DEF Commands, SetMode, Delegation, Tokens, ApprovalMode, NewHistory, McpAllow, AtCommand
<1>9. CASE ReviewNext
  <2>1. NextProposal(cli).allowed = cli.allowed /\ \A stage : At(stage).allowed = cli.allowed
    BY <1>1 DEF NextProposal, At, Fields
  <2>2. CASE ChoosesAlways
    BY <1>1, <2>1, <2>2 DEF ChoosesAlways, At, Fields
  <2>3. CASE ChoosesNo
    BY <1>1, <2>1, <2>3 DEF ChoosesNo, Fields
  <2>4. CASE \E yes \in BOOLEAN : Confirms(yes)
    BY <2>1, <2>4 DEF Confirms
  <2>5. CASE ReviewApproves \/ ReviewExecutes
    BY <2>1, <2>5 DEF ReviewApproves, ReviewExecutes
  <2> QED
    BY <1>9, <2>1, <2>2, <2>3, <2>4, <2>5
    DEF ReviewNext, ReviewSkips, ReviewAuto, ReviewAsks, ChoosesYes, ChoosesLater
<1>10. CASE \E p \in 1..Len(center) : Elsewhere(p)
  BY <1>10 DEF Elsewhere
<1> QED
  BY <1>6, <1>7, <1>8, <1>9, <1>10 DEF SessionNext

(* A tool of the analyst changes and a tool of the engineer prepares; the rest *)
(* of what runs was asked for.                                                 *)
LEMMA UnaskedByTools ==
  ASSUME SessionInv, WordInv, SessionNext
  PROVE  NothingRunsUnasked'
<1>1. \A c \in unasked : c[1] \in {"change", "prepare"}
  BY DEF WordInv, NothingRunsUnasked
<1>2. CASE UNCHANGED unasked
  BY <1>1, <1>2 DEF NothingRunsUnasked
<1>3. CASE Executes \/ Proposes
  <2>1. \A c \in ChangesAtOnce : c[1] \in {"change", "prepare"}
    BY DEF ChangesAtOnce
  <2>2. \E done \in {{}, ChangesAtOnce} : unasked' = unasked \cup done
    BY <1>3 DEF Executes, Proposes
  <2> QED
    BY <1>1, <2>1, <2>2 DEF NothingRunsUnasked
<1>4. CASE McpRuns
  <2>1. CASE env.repl
    BY <1>2, <1>4, <2>1 DEF McpRuns
  <2>2. CASE ~env.repl
    <3>1. Call[2] \in McpReads
      BY <1>4, <2>2 DEF McpRuns, RunsUnasked, WordInv
    <3> QED
      BY <1>2, <1>4, <3>1 DEF McpRuns
  <2> QED
    BY <2>1, <2>2
<1>5. CASE ReviewExecutes
  <2>1. Consented(Shown)
    BY <1>5, ReviewIsOn DEF ReviewExecutes, Reviewing, AskedInv
  <2> QED
    BY <1>2, <1>5, <2>1 DEF ReviewExecutes
<1>6. CASE LoopNext
  BY <1>2, <1>3, <1>4, <1>6
  DEF LoopNext, Stopped, AnswersText, AnswersBlank, Outage, Answers, AnswersCalls, HandledInside,
      Delegates, McpRefused, McpAsked, AnswersUser
<1>7. CASE ReviewNext
  BY <1>2, <1>5, <1>7
  DEF ReviewNext, ReviewSkips, ReviewAuto, ReviewAsks, ChoosesYes, ChoosesAlways, ChoosesLater,
      ChoosesNo, Confirms, ReviewApproves
<1>8. CASE Commands
  BY <1>2, <1>8
  DEF Commands, SetMode, Delegation, Tokens, ApprovalMode, NewHistory, McpAllow
<1> QED
  BY <1>2, <1>6, <1>7, <1>8 DEF SessionNext, RunTurn, OperatorDelegates, Elsewhere

(* Whatever the models answer and others decide meanwhile, a session changes   *)
(* without the operator's word only what the analyst's own tools change and    *)
(* what a write tool creates before it proposes: what a review runs has his    *)
(* "yes" or "always", which is none for an EXECUTE action, and a one-shot run  *)
(* calls the MCP tools that only read (inline_approvals.py, cli/middleware.py). *)
THEOREM NothingRunsUnaskedHolds == SessionSpec => []NothingRunsUnasked
<1>1. SessionInit => WordInv
  BY DEF SessionInit, WordInv, NothingRunsUnasked
<1>2. SessionInv /\ WordInv /\ [SessionNext]_sessionVars => WordInv'
  <2> SUFFICES ASSUME SessionInv, WordInv, [SessionNext]_sessionVars PROVE WordInv'
    OBVIOUS
  <2>1. CASE UNCHANGED sessionVars
    BY <2>1 DEF sessionVars, loopVars, WordInv, NothingRunsUnasked
  <2>2. CASE SessionNext
    <3>1. NothingRunsUnasked'
      BY <2>2, UnaskedByTools
    <3>2. ~env.repl => cli'.allowed = {}
      BY <2>2, AllowedByWord DEF WordInv
    <3>3. env' = env
      BY <2>2, EnvStays
    <3> QED
      BY <3>1, <3>2, <3>3 DEF WordInv
  <2> QED
    BY <2>1, <2>2
<1>3. WordInv => NothingRunsUnasked
  BY DEF WordInv
<1> QED
  BY <1>1, <1>2, <1>3, SessionInvHolds, PTL DEF SessionSpec

(* A sub-agent is one level below the session's agent, within its budget and   *)
(* its list of tools, and an agent runs no call of the middleware itself       *)
(* (cli/agents.py).                                                            *)
THEOREM SubAgentIsConfinedHolds == SessionSpec => []SubAgentIsConfined
<1>1. ASSUME SessionInv PROVE SubAgentIsConfined
  <2> USE <1>1 DEF SessionInv
  <2>1. stack \in Seq(Frames) /\ Len(stack) \in Nat
    BY LenProperties DEF TypeInv
  <2>2. Len(stack) <= 2
    BY DEF StackInv
  <2>3. ASSUME NEW i \in 1..Len(stack), stack[i].agent # "main"
        PROVE  /\ i = Len(stack)
               /\ stack[i].used <= SubAgent[stack[i].agent].calls
               /\ ~stack[i].inside /\ stack[i].batch # <<>> /\ SubAgent[stack[i].agent].limited =>
                    \A j \in 1..Len(stack[i].batch) :
                      \/ stack[i].batch[j][1] = "answer"
                      \/ stack[i].batch[j][2] \in SubAgent[stack[i].agent].tools
    <3>1. Confined(stack[i])
      BY DEF ConfinedInv
    <3>2. i = Len(stack)
      <4>1. i # Len(stack) => i = 1 /\ Len(stack) = 2
        <5>1. \A n \in Nat : n <= 2 => \A k \in 1..n : k # n => k = 1 /\ n = 2
          OBVIOUS
        <5> QED
          BY <2>1, <2>2, <5>1, Zenon
      <4> QED
        BY <2>3, <4>1 DEF StackInv
    <3> QED
      BY <2>3, <3>1, <3>2 DEF Confined
  <2>4. ASSUME stack # <<>>, ~Top.inside, ~IsSub, cli.delegation
        PROVE  \A j \in 1..Len(Top.batch) : Top.batch[j][1] \notin {"skill", "mcp", "delegate"}
    <3>1. Running
      BY <2>4 DEF StackInv, Running
    <3>2. Confined(Top)
      BY <3>1, TopNow
    <3> QED
      BY <2>4, <3>2 DEF Confined, IsSub
  <2> QED
    BY <2>2, <2>3, <2>4 DEF SubAgentIsConfined
<1> QED
  BY <1>1, SessionInvHolds, PTL

(* Unless the provider failed, a turn lists every proposal it stored, its      *)
(* sub-agents' among them (agent/soc_engineer.py, cli/agents.py).              *)
THEOREM ShownUnlessOutageHolds == SessionSpec => []ShownUnlessOutage
<1>1. SessionInv => ShownUnlessOutage
  BY DEF SessionInv, ShownInv, ShownUnlessOutage, TurnOver, Running
<1> QED
  BY <1>1, SessionInvHolds, PTL

(* The history pairs calls and results, until the window or an answer_user     *)
(* among other calls cuts a pair in two (agent/soc_engineer.py).               *)
THEOREM UncutHistoryPairsHolds == SessionSpec => []UncutHistoryPairs
<1>1. SessionInv => UncutHistoryPairs
  BY DEF SessionInv, PairedInv, UncutHistoryPairs
<1> QED
  BY <1>1, SessionInvHolds, PTL
=============================================================================
