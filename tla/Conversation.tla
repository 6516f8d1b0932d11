---------------------------- MODULE Conversation ----------------------------
(***************************************************************************)
(* The message list of an agent and its compression before a model call     *)
(* (packages/agents/src/context-manager.ts).  A message has a role and the  *)
(* ids of tool calls: the calls an assistant asks for, or the one call that *)
(* a tool message answers.  Every message weighs one token.                 *)
(***************************************************************************)
EXTENDS Integers, FiniteSets, Sequences, FiniteSetsExt

CONSTANTS MaxContext,     \* contextManagement.maxTokens
          WindowSize      \* slidingWindowSize, in groups

ASSUME ContextAssumption == MaxContext \in Nat \ {0} /\ WindowSize \in Nat \ {0}

SystemPrompt   == [role |-> "system", ids |-> <<>>]
UserMessage    == [role |-> "user", ids |-> <<>>]
Assistant(ids) == [role |-> "assistant", ids |-> ids]
ToolResult(id) == [role |-> "tool", ids |-> <<id>>]

Answered(ms) == {ms[i].ids[1] : i \in {i \in DOMAIN ms : ms[i].role = "tool"}}

\* Mutant: every message is a group.
GroupStartsAll(ms) == DOMAIN ms

\* The messages that begin a group: a tool result belongs to the assistant
\* message with tool calls that it follows, directly or behind other results.
GroupStarts(ms) ==
  {i \in DOMAIN ms :
     ~(/\ ms[i].role = "tool"
       /\ \E j \in 1..i - 1 : /\ ms[j].role = "assistant" /\ ms[j].ids # <<>>
                              /\ \A k \in j + 1..i - 1 : ms[k].role = "tool")}

\* The messages at the positions in S, in their order.
Nth(S, n) == CHOOSE i \in S : Cardinality({j \in S : j <= i}) = n
At(ms, S) == [n \in 1..Cardinality(S) |-> ms[Nth(S, n)]]

NonSystem(ms) == {i \in GroupStarts(ms) : ms[i].role # "system"}
System(ms) == At(ms, {i \in DOMAIN ms : ms[i].role = "system"})

\* The system messages and the groups from the one that starts at i.
From(ms, i) == At(ms, {j \in i..Len(ms) : ms[j].role # "system"})
KeepFrom(ms, i) == System(ms) \o From(ms, i)

\* The start of the n-th group from the end, or of the first.
NthLast(ms, n) ==
  LET starts == NonSystem(ms)
  IN  Min({i \in starts : Cardinality({j \in starts : j >= i}) <= n})

\* Oldest groups go until the rest fits, or until only the system is left.
TrimOldest(ms) ==
  LET fits == {i \in NonSystem(ms) \cup {Len(ms) + 1} :
                 Len(KeepFrom(ms, i)) <= MaxContext \/ i = Len(ms) + 1}
  IN  KeepFrom(ms, Min(fits))

SlidingWindow(ms) == KeepFrom(ms, NthLast(ms, WindowSize))

Summarize(ms) ==
  IF Cardinality(NonSystem(ms)) < 3 THEN TrimOldest(ms)
  ELSE System(ms) \o <<UserMessage>> \o From(ms, NthLast(ms, 2))

ApplyContextManagement(ms, strategy) ==
  IF Len(ms) <= MaxContext \/ NonSystem(ms) = {} THEN ms
  ELSE CASE strategy = "sliding_window" -> SlidingWindow(ms)
         [] strategy = "summarize" -> Summarize(ms)
         [] strategy = "trim_oldest" -> TrimOldest(ms)

\* What a model accepts: one system message, in front; each assistant message
\* with tool calls directly followed by their results, in the order of the
\* calls; and no other tool results.
WellPaired(ms) ==
  /\ {i \in DOMAIN ms : ms[i].role = "system"} = {1}
  /\ \A i \in DOMAIN ms : ms[i].role = "assistant" =>
       \A k \in DOMAIN ms[i].ids :
         i + k \in DOMAIN ms /\ ms[i + k] = ToolResult(ms[i].ids[k])
  /\ \A i \in DOMAIN ms : ms[i].role = "tool" =>
       \E j \in 1..i - 1 : ms[j].role = "assistant" /\ i - j \in DOMAIN ms[j].ids
=============================================================================
