--------------------------- MODULE AgentLoopProofs ---------------------------
(***************************************************************************)
(* Proofs about the agent loop for any number of steps, calls, retries,     *)
(* crashes and failures, any context limit and window, and every strategy:  *)
(* the model always gets a well-formed conversation, tool effects are       *)
(* recorded, and a denied draft is never reported as completed.             *)
(***************************************************************************)
EXTENDS AgentLoop, FiniteSetTheorems, WellFoundedInduction, TLAPS

-----------------------------------------------------------------------------
(* Conversations. *)

Message == [role : {"system", "user", "assistant", "tool"}, ids : Seq(Int \X Int)]

\* A conversation a model accepts, behind the agent's own prompt.
Chat(ms) == /\ ms \in Seq(Message) /\ ms # <<>> /\ ms[1] = SystemPrompt
            /\ WellPaired(ms)

\* Messages that neither ask for tools nor answer.
Plain(ms) == ms \in Seq({UserMessage, Assistant(<<>>)})

\* The calls of the answer of step n.
Ids(n, k) == [i \in 1..k |-> <<n, i>>]

\* A conversation whose last answer waits for the results of k calls.
Open(ms, n, k) == \E before : Chat(before) /\ ms = Append(before, Assistant(Ids(n, k)))

\* The messages of the code are messages.
LEMMA MessageTypes ==
  /\ SystemPrompt \in Message /\ UserMessage \in Message
  /\ \A ids \in Seq(Int \X Int) : Assistant(ids) \in Message
  /\ \A id \in Int \X Int : ToolResult(id) \in Message
BY DEF SystemPrompt, UserMessage, Assistant, ToolResult, Message

\* The messages of two lists, one behind the other.
LEMMA Joined ==
  ASSUME NEW s \in Seq(Message), NEW t \in Seq(Message)
  PROVE  /\ s \o t \in Seq(Message)
         /\ Len(s) \in Nat /\ Len(t) \in Nat /\ Len(s \o t) = Len(s) + Len(t)
         /\ DOMAIN (s \o t) = 1..Len(s) + Len(t)
         /\ \A i \in 1..Len(s) : (s \o t)[i] = s[i]
         /\ \A i \in 1..Len(t) : (s \o t)[Len(s) + i] = t[i]
OBVIOUS

\* A conversation begins with the prompt and what the user says.
LEMMA ChatBegins == Chat(<<SystemPrompt>>) /\ Chat(<<SystemPrompt, UserMessage>>)
<1> DEFINE m1 == <<SystemPrompt>>
           m2 == <<SystemPrompt, UserMessage>>
<1>1. m1 \in Seq(Message) /\ Len(m1) = 1 /\ m1[1] = SystemPrompt
  BY MessageTypes
<1>2. m2 \in Seq(Message) /\ Len(m2) = 2 /\ m2[1] = SystemPrompt /\ m2[2] = UserMessage
  BY MessageTypes
<1>3. SystemPrompt.role = "system" /\ UserMessage.role = "user"
  BY DEF SystemPrompt, UserMessage
<1> HIDE DEF m1, m2
<1>4. WellPaired(m1)
  BY <1>1, <1>3 DEF WellPaired
<1>5. WellPaired(m2)
  BY <1>2, <1>3 DEF WellPaired
<1> QED
  BY <1>1, <1>2, <1>4, <1>5 DEF Chat, m1, m2

\* Plain messages can be added to any conversation.
LEMMA ChatGoesOn ==
  ASSUME NEW ms, Chat(ms), NEW more, Plain(more)
  PROVE  Chat(ms \o more)
<1> DEFINE all == ms \o more
<1>1. ms \in Seq(Message) /\ Len(ms) >= 1 /\ ms[1] = SystemPrompt
  BY DEF Chat
<1>2. /\ more \in Seq(Message) /\ Len(more) \in Nat
      /\ \A i \in 1..Len(more) : more[i].role \in {"user", "assistant"} /\ more[i].ids = <<>>
  <2>1. <<>> \in Seq(Int \X Int)
    OBVIOUS
  <2>2. \A m \in {UserMessage, Assistant(<<>>)} :
          m \in Message /\ m.role \in {"user", "assistant"} /\ m.ids = <<>>
    <3>1. UserMessage \in Message /\ Assistant(<<>>) \in Message
      BY <2>1, MessageTypes
    <3>2. UserMessage.role = "user" /\ Assistant(<<>>).role = "assistant"
      BY DEF UserMessage, Assistant
    <3>3. UserMessage.ids = <<>> /\ Assistant(<<>>).ids = <<>>
      BY DEF UserMessage, Assistant
    <3> QED
      BY <3>1, <3>2, <3>3
  <2>3. more \in Seq({UserMessage, Assistant(<<>>)})
    BY DEF Plain
  <2> QED
    BY <2>2, <2>3
<1>3. /\ all \in Seq(Message) /\ Len(all) = Len(ms) + Len(more) /\ Len(ms) \in Nat
      /\ \A i \in 1..Len(ms) : all[i] = ms[i]
      /\ \A i \in Len(ms) + 1..Len(all) : all[i] = more[i - Len(ms)]
  BY <1>1, <1>2
<1> HIDE DEF all
<1>4. \A i \in Len(ms) + 1..Len(all) : all[i].role \in {"user", "assistant"} /\ all[i].ids = <<>>
  BY <1>2, <1>3
<1>5. {i \in DOMAIN all : all[i].role = "system"} = {1}
  BY <1>1, <1>3, <1>4 DEF Chat, WellPaired
<1>6. ASSUME NEW i \in DOMAIN all, all[i].role = "assistant", NEW k \in DOMAIN all[i].ids
      PROVE  i + k \in DOMAIN all /\ all[i + k] = ToolResult(all[i].ids[k])
  <2>1. i \in DOMAIN ms /\ all[i] = ms[i]
    BY <1>1, <1>3, <1>4, <1>6
  <2>2. i + k \in DOMAIN ms /\ ms[i + k] = ToolResult(ms[i].ids[k])
    BY <1>6, <2>1 DEF Chat, WellPaired
  <2> QED
    BY <1>1, <1>3, <2>1, <2>2
<1>7. ASSUME NEW i \in DOMAIN all, all[i].role = "tool"
      PROVE  \E j \in 1..i - 1 : all[j].role = "assistant" /\ i - j \in DOMAIN all[j].ids
  <2>1. i \in DOMAIN ms /\ all[i] = ms[i]
    BY <1>1, <1>3, <1>4, <1>7
  <2>2. PICK j \in 1..i - 1 : ms[j].role = "assistant" /\ i - j \in DOMAIN ms[j].ids
    BY <1>7, <2>1 DEF Chat, WellPaired
  <2>3. all[j] = ms[j]
    BY <1>1, <1>3, <2>1
  <2> QED
    BY <2>2, <2>3
<1>8. WellPaired(all)
  BY <1>5, <1>6, <1>7 DEF WellPaired
<1> QED
  BY <1>1, <1>3, <1>8 DEF Chat, all

\* Once the results follow it, an answer with tool calls leaves a
\* conversation.
LEMMA ChatAnswered ==
  ASSUME NEW n \in Int, NEW k \in Nat, NEW ms, Open(ms, n, k)
  PROVE  Chat(ms \o [i \in 1..k |-> ToolResult(<<n, i>>)])
<1> DEFINE res == [i \in 1..k |-> ToolResult(<<n, i>>)]
           ask == Assistant(Ids(n, k))
           all == ms \o res
<1>1. PICK before : Chat(before) /\ ms = Append(before, ask)
  BY DEF Open
<1>2. /\ before \in Seq(Message) /\ Len(before) \in Nat /\ Len(before) >= 1
      /\ before[1] = SystemPrompt /\ DOMAIN before = 1..Len(before)
  BY <1>1 DEF Chat
<1>3. ask \in Message /\ ask.role = "assistant" /\ ask.ids = Ids(n, k)
  <2>1. Ids(n, k) \in Seq(Int \X Int)
    BY DEF Ids
  <2> QED
    BY <2>1, MessageTypes DEF Assistant
<1>4. /\ res \in Seq(Message) /\ Len(res) = k
      /\ \A i \in 1..k : res[i] = ToolResult(<<n, i>>) /\ res[i].role = "tool"
  <2>1. \A i \in 1..k : <<n, i>> \in Int \X Int
    OBVIOUS
  <2>2. \A i \in 1..k : ToolResult(<<n, i>>) \in Message
    BY <2>1, MessageTypes
  <2> QED
    BY <2>2 DEF ToolResult
<1>5. DOMAIN Ids(n, k) = 1..k /\ \A i \in 1..k : Ids(n, k)[i] = <<n, i>>
  BY DEF Ids
<1> HIDE DEF ask, res
<1>6. /\ ms \in Seq(Message) /\ Len(ms) = Len(before) + 1 /\ ms[Len(before) + 1] = ask
      /\ \A i \in 1..Len(before) : ms[i] = before[i]
  BY <1>1, <1>2, <1>3
<1>7. /\ all \in Seq(Message) /\ Len(all) = Len(before) + 1 + k
      /\ DOMAIN all = 1..Len(before) + 1 + k
      /\ \A i \in 1..Len(before) : all[i] = before[i]
      /\ all[Len(before) + 1] = ask
      /\ \A i \in 1..k : all[Len(before) + 1 + i] = res[i]
  <2>1. /\ all \in Seq(Message) /\ Len(all) = Len(ms) + Len(res)
        /\ \A i \in 1..Len(ms) : all[i] = ms[i]
        /\ \A i \in 1..Len(res) : all[Len(ms) + i] = res[i]
    BY <1>4, <1>6, Joined
  <2> HIDE DEF all
  <2>2. DOMAIN all = 1..Len(before) + 1 + k
    BY <1>2, <1>4, <1>6, <2>1
  <2> QED
    BY <1>2, <1>4, <1>6, <2>1, <2>2
<1> HIDE DEF all
<1>8. \A i \in DOMAIN all : \/ i \in DOMAIN before
                            \/ i = Len(before) + 1
                            \/ i > Len(before) + 1 /\ i - Len(before) - 1 \in 1..k /\ all[i].role = "tool"
  <2> SUFFICES ASSUME NEW i \in DOMAIN all, i > Len(before) + 1
               PROVE  i - Len(before) - 1 \in 1..k /\ all[i].role = "tool"
    BY <1>2, <1>7
  <2>1. i - Len(before) - 1 \in 1..k /\ Len(before) + 1 + (i - Len(before) - 1) = i
    BY <1>2, <1>7
  <2> QED
    BY <1>4, <1>7, <2>1
<1>9. {i \in DOMAIN all : all[i].role = "system"} = {1}
  <2>1. {i \in DOMAIN before : before[i].role = "system"} = {1}
    BY <1>1 DEF Chat, WellPaired
  <2>2. \A i \in DOMAIN all : all[i].role = "system" => i \in DOMAIN before
    BY <1>3, <1>7, <1>8
  <2>3. \A i \in DOMAIN before : i \in DOMAIN all /\ all[i] = before[i]
    BY <1>2, <1>7
  <2> QED
    BY <2>1, <2>2, <2>3
<1>10. ASSUME NEW i \in DOMAIN all, all[i].role = "assistant", NEW j \in DOMAIN all[i].ids
       PROVE  i + j \in DOMAIN all /\ all[i + j] = ToolResult(all[i].ids[j])
  <2>1. CASE i \in DOMAIN before
    <3>1. all[i] = before[i]
      BY <1>2, <1>7, <2>1
    <3>2. i + j \in DOMAIN before /\ before[i + j] = ToolResult(before[i].ids[j])
      BY <1>1, <1>10, <2>1, <3>1 DEF Chat, WellPaired
    <3>3. i + j \in DOMAIN all /\ all[i + j] = before[i + j]
      BY <1>2, <1>7, <3>2
    <3> QED
      BY <3>1, <3>2, <3>3
  <2>2. CASE i = Len(before) + 1
    <3>1. all[i] = ask /\ j \in 1..k /\ ask.ids[j] = <<n, j>>
      BY <1>3, <1>5, <1>7, <1>10, <2>2
    <3>2. i + j \in DOMAIN all /\ all[i + j] = res[j]
      BY <1>2, <1>7, <2>2, <3>1
    <3> QED
      BY <1>4, <3>1, <3>2
  <2> QED
    BY <1>8, <1>10, <2>1, <2>2
<1>11. ASSUME NEW i \in DOMAIN all, all[i].role = "tool"
       PROVE  \E j \in 1..i - 1 : all[j].role = "assistant" /\ i - j \in DOMAIN all[j].ids
  <2>1. CASE i \in DOMAIN before
    <3>1. PICK j \in 1..i - 1 : before[j].role = "assistant" /\ i - j \in DOMAIN before[j].ids
      BY <1>1, <1>2, <1>7, <1>11, <2>1 DEF Chat, WellPaired
    <3>2. j \in 1..Len(before) /\ all[j] = before[j]
      BY <1>2, <1>7, <2>1
    <3> QED
      BY <3>1, <3>2
  <2>2. CASE i > Len(before) + 1 /\ i - Len(before) - 1 \in 1..k
    <3>1. Len(before) + 1 \in 1..i - 1 /\ i - (Len(before) + 1) \in 1..k
      BY <1>2, <1>7, <2>2
    <3> QED
      BY <1>3, <1>5, <1>7, <3>1
  <2> QED
    BY <1>3, <1>7, <1>8, <1>11, <2>1, <2>2
<1>12. WellPaired(all)
  BY <1>9, <1>10, <1>11 DEF WellPaired
<1> QED
  BY <1>2, <1>7, <1>12 DEF Chat, all, res

\* The messages at consecutive positions are a subsequence.
LEMMA AtInterval ==
  ASSUME NEW ms \in Seq(Message), NEW a \in 1..Len(ms) + 1, NEW b \in 0..Len(ms), a <= b + 1
  PROVE  /\ At(ms, a..b) \in Seq(Message)
         /\ Len(At(ms, a..b)) = b - a + 1
         /\ \A n \in 1..b - a + 1 : At(ms, a..b)[n] = ms[a + n - 1]
<1>1. a \in Int /\ b \in Int /\ Len(ms) \in Nat /\ b - a + 1 \in Nat
  OBVIOUS
<1>2. ASSUME NEW i \in a..b
      PROVE  Cardinality(a..i) = i - a + 1
  <2>1. i \in Int /\ ~(a > i)
    BY <1>1
  <2> QED
    BY <1>1, <2>1, FS_Interval
<1>3. Cardinality(a..b) = b - a + 1
  <2>1. CASE a > b
    <3>1. b - a + 1 = 0
      BY <1>1, <2>1
    <3> QED
      BY <1>1, <2>1, <3>1, FS_Interval
  <2>2. CASE a <= b
    BY <1>1, <1>2, <2>2
  <2> QED
    BY <1>1, <2>1, <2>2
<1>4. ASSUME NEW n \in 1..b - a + 1
      PROVE  Nth(a..b, n) = a + n - 1
  <2>1. \A i \in a..b : {j \in a..b : j <= i} = a..i
    BY <1>1
  <2>2. \A i \in a..b : Cardinality({j \in a..b : j <= i}) = n <=> i = a + n - 1
    <3> SUFFICES ASSUME NEW i \in a..b
                 PROVE  Cardinality({j \in a..b : j <= i}) = n <=> i = a + n - 1
      OBVIOUS
    <3>1. Cardinality({j \in a..b : j <= i}) = i - a + 1
      BY <1>2, <2>1
    <3> QED
      BY <1>1, <3>1
  <2>3. a + n - 1 \in a..b
    BY <1>1
  <2> QED
    BY <2>2, <2>3 DEF Nth
<1>5. ASSUME NEW n \in 1..b - a + 1
      PROVE  ms[Nth(a..b, n)] = ms[a + n - 1] /\ ms[a + n - 1] \in Message
  <2>1. a + n - 1 \in 1..Len(ms)
    BY <1>1
  <2> QED
    BY <1>4, <2>1
<1>6. At(ms, a..b) = [n \in 1..b - a + 1 |-> ms[Nth(a..b, n)]]
  BY <1>3 DEF At
<1>7. At(ms, a..b) \in [1..b - a + 1 -> Message]
  BY <1>5, <1>6
<1> QED
  BY <1>1, <1>5, <1>6, <1>7

\* Every set of natural numbers that has an element has a least one.
LEMMA LeastNat ==
  ASSUME NEW T, T \subseteq Nat, T # {}
  PROVE  \E x \in T : \A y \in T : x <= y
<1> DEFINE Less == {p \in Nat \X Nat : p[1] < p[2]}
<1>1. IsWellFoundedOn(OpToRel(<, Nat), Nat)
  BY NatLessThanWellFounded
<1>2. OpToRel(<, Nat) = Less
  BY Zenon DEF OpToRel
<1>3. \E x \in T : \A y \in T : ~(<<y, x>> \in Less)
  BY <1>1, <1>2, WFMin, Zenon
<1>4. PICK x \in T : \A y \in T : ~(<<y, x>> \in Less)
  BY <1>3
<1>5. \A y \in T : ~(y < x)
  BY <1>4
<1> QED
  BY <1>5

\* Min is the least element.
LEMMA MinIsLeast ==
  ASSUME NEW T, T \subseteq Nat, T # {}
  PROVE  Min(T) \in T /\ \A y \in T : Min(T) <= y
BY LeastNat DEF Min

\* The system prompt and everything from the start of a group on, with or
\* without a summary in between, is a conversation: no result is cut off from
\* its call.
LEMMA ChatCut ==
  ASSUME NEW ms, Chat(ms), NEW c \in NonSystem(ms) \cup {Len(ms) + 1},
         NEW front \in {<<SystemPrompt>>, <<SystemPrompt, UserMessage>>},
         NEW rest \in Seq(Message), Len(rest) = Len(ms) - c + 1,
         \A n \in 1..Len(rest) : rest[n] = ms[c + n - 1]
  PROVE  Chat(front \o rest)
<1> DEFINE all == front \o rest
           h == Len(front)
<1>1. /\ ms \in Seq(Message) /\ Len(ms) \in Nat /\ DOMAIN ms = 1..Len(ms)
      /\ ms[1] = SystemPrompt /\ Len(rest) \in Nat
  BY DEF Chat
<1>2. {i \in DOMAIN ms : ms[i].role = "system"} = {1}
  BY DEF Chat, WellPaired
<1>3. c \in 2..Len(ms) + 1
  BY <1>1, <1>2 DEF NonSystem, GroupStarts
<1>4. /\ Chat(front) /\ h \in {1, 2} /\ DOMAIN front = 1..h
      /\ \A i \in 1..h : front[i] \in {SystemPrompt, UserMessage} /\ (i # 1 => front[i] = UserMessage)
  BY ChatBegins
<1>5. front \in Seq(Message) /\ front[1] = SystemPrompt
  BY <1>4 DEF Chat
<1> HIDE DEF h
<1>6. /\ all \in Seq(Message) /\ Len(all) = h + Len(rest) /\ DOMAIN all = 1..h + Len(rest)
      /\ \A i \in 1..h : all[i] = front[i]
      /\ \A n \in 1..Len(rest) : all[h + n] = rest[n]
  BY <1>5, Joined DEF h
<1> HIDE DEF all
<1>7. \A i \in DOMAIN all : i > h =>
        /\ i - h + c - 1 \in c..Len(ms) /\ all[i] = ms[i - h + c - 1]
        /\ i - h + c - 1 \in DOMAIN ms
  <2> SUFFICES ASSUME NEW i \in DOMAIN all, i > h
               PROVE  /\ i - h + c - 1 \in c..Len(ms) /\ all[i] = ms[i - h + c - 1]
                      /\ i - h + c - 1 \in DOMAIN ms
    OBVIOUS
  <2>1. i - h \in 1..Len(rest) /\ h + (i - h) = i /\ c + (i - h) - 1 = i - h + c - 1
    <3>1. i \in Int /\ h \in Int /\ c \in Int /\ i <= h + Len(rest)
      BY <1>3, <1>4, <1>6
    <3> QED
      BY <1>1, <3>1
  <2>2. all[i] = rest[i - h]
    BY <1>6, <2>1
  <2> QED
    BY <1>1, <1>3, <2>1, <2>2
<1>8. ASSUME NEW p \in c..Len(ms)
      PROVE  p - c + 1 + h \in DOMAIN all /\ all[p - c + 1 + h] = ms[p] /\ p - c + 1 + h > h
  <2>1. p - c + 1 \in 1..Len(rest) /\ c + (p - c + 1) - 1 = p /\ h + (p - c + 1) = p - c + 1 + h
    BY <1>1, <1>3, <1>4
  <2>2. p - c + 1 + h \in DOMAIN all /\ p - c + 1 + h > h
    BY <1>1, <1>3, <1>4, <1>6, <2>1
  <2> QED
    BY <1>6, <2>1, <2>2
<1>9. SystemPrompt.role = "system" /\ UserMessage.role = "user"
  BY DEF SystemPrompt, UserMessage
<1>10. {i \in DOMAIN all : all[i].role = "system"} = {1}
  <2>1. ASSUME NEW i \in DOMAIN all, i > h
        PROVE  all[i].role # "system"
    BY <1>1, <1>2, <1>3, <1>7, <2>1
  <2>2. \A i \in DOMAIN all : i > h \/ i \in 1..h
    BY <1>4, <1>6
  <2>3. \A i \in 1..h : all[i].role = "system" <=> i = 1
    BY <1>4, <1>5, <1>6, <1>9
  <2>4. 1 \in DOMAIN all /\ 1 \in 1..h
    BY <1>4, <1>6
  <2> QED
    BY <2>1, <2>2, <2>3, <2>4
<1>11. ASSUME NEW i \in DOMAIN all, all[i].role = "assistant", NEW k \in DOMAIN all[i].ids
       PROVE  i + k \in DOMAIN all /\ all[i + k] = ToolResult(all[i].ids[k])
  <2> DEFINE p == i - h + c - 1
  <2>1. i > h
    BY <1>4, <1>6, <1>9, <1>11
  <2>2. p \in c..Len(ms) /\ p \in DOMAIN ms /\ all[i] = ms[p]
    BY <1>7, <2>1
  <2>3. p + k \in DOMAIN ms /\ ms[p + k] = ToolResult(ms[p].ids[k])
    BY <1>11, <2>2 DEF Chat, WellPaired
  <2>4. k \in Nat
    <3>1. ms[p].ids \in Seq(Int \X Int) /\ all[i].ids = ms[p].ids
      <4>1. ms[p] \in Message
        BY <1>1, <2>2
      <4> HIDE DEF p
      <4> QED
        BY <2>2, <4>1 DEF Message
    <3>2. DOMAIN all[i].ids = 1..Len(ms[p].ids)
      BY <3>1
    <3> QED
      BY <1>11, <3>2
  <2>5. p + k \in c..Len(ms) /\ (p + k) - c + 1 + h = i + k
    <3>1. i \in Int /\ h \in Int /\ c \in Int /\ p \in Int
      BY <1>3, <1>4, <1>6
    <3>2. p + k \in 1..Len(ms)
      BY <1>1, <2>3
    <3> QED
      BY <1>1, <2>2, <2>4, <3>1, <3>2
  <2>6. i + k \in DOMAIN all /\ all[i + k] = ms[p + k]
    BY <1>8, <2>5
  <2> QED
    BY <2>2, <2>3, <2>6
<1>12. ASSUME NEW i \in DOMAIN all, all[i].role = "tool"
       PROVE  \E j \in 1..i - 1 : all[j].role = "assistant" /\ i - j \in DOMAIN all[j].ids
  <2> DEFINE p == i - h + c - 1
  <2>1. i > h
    BY <1>4, <1>6, <1>9, <1>12
  <2>2. p \in c..Len(ms) /\ p \in DOMAIN ms /\ all[i] = ms[p]
    BY <1>7, <2>1
  <2>3. PICK q \in 1..p - 1 : ms[q].role = "assistant" /\ p - q \in DOMAIN ms[q].ids
    BY <1>12, <2>2 DEF Chat, WellPaired
  <2>4. c \in Nat /\ p \in Nat /\ q \in Nat /\ Len(ms) \in Nat /\ q \in DOMAIN ms
    BY <1>1, <1>3, <2>2
  <2>5. q >= c
    <3> SUFFICES ASSUME q < c PROVE FALSE
      BY <2>4
    <3>1. DOMAIN ms[q].ids = 1..Len(ms[q].ids) /\ Len(ms[q].ids) \in Nat
      BY <1>1, <2>4 DEF Message
    <3>2. \A r \in q + 1..p : ms[r].role = "tool"
      <4> SUFFICES ASSUME NEW r \in q + 1..p PROVE ms[r].role = "tool"
        OBVIOUS
      <4>1. r - q \in DOMAIN ms[q].ids /\ q + (r - q) = r
        BY <2>3, <2>4, <3>1
      <4>2. ms[q + (r - q)] = ToolResult(ms[q].ids[r - q])
        BY <2>3, <2>4, <4>1 DEF Chat, WellPaired
      <4> QED
        BY <4>1, <4>2 DEF ToolResult
    <3>3. c \in q + 1..p /\ q \in 1..c - 1 /\ c \in NonSystem(ms)
      BY <1>1, <2>2, <2>4
    <3>4. ms[q].ids # <<>>
      BY <2>3
    <3>5. \A k \in q + 1..c - 1 : ms[k].role = "tool"
      BY <2>4, <3>2, <3>3
    <3>6. c \notin GroupStarts(ms)
      BY <2>3, <3>2, <3>3, <3>4, <3>5 DEF GroupStarts
    <3> QED
      BY <3>3, <3>6 DEF NonSystem
  <2>6. q \in c..Len(ms) /\ q - c + 1 + h \in 1..i - 1 /\ i - (q - c + 1 + h) = p - q
    <3>0. i \in Int /\ h \in Int /\ h >= 1 /\ c \in Int
      BY <1>3, <1>4, <1>6
    <3>1. i = p + h - c + 1
      BY <3>0
    <3>2. q \in c..Len(ms) /\ q <= p - 1
      BY <2>2, <2>3, <2>4, <2>5
    <3> HIDE DEF p
    <3> QED
      BY <2>4, <3>0, <3>1, <3>2
  <2>7. all[q - c + 1 + h] = ms[q]
    BY <1>8, <2>6
  <2> QED
    BY <2>3, <2>6, <2>7
<1>13. WellPaired(all)
  BY <1>10, <1>11, <1>12 DEF WellPaired
<1>14. all # <<>> /\ all[1] = SystemPrompt
  BY <1>4, <1>5, <1>6
<1> QED
  BY <1>6, <1>13, <1>14 DEF Chat, all

\* The oldest group that a window keeps is a group.
LEMMA NthLastIsStart ==
  ASSUME NEW ms, Chat(ms), NonSystem(ms) # {}, NEW n \in Nat \ {0}
  PROVE  NthLast(ms, n) \in NonSystem(ms)
<1> DEFINE S == NonSystem(ms)
           L == {i \in S : Cardinality({j \in S : j >= i}) <= n}
           T == {Len(ms) - i : i \in S}
<1>1. Len(ms) \in Nat /\ S \subseteq 1..Len(ms)
  BY DEF Chat, NonSystem, GroupStarts
<1>2. T \subseteq Nat /\ T # {}
  BY <1>1
<1>3. PICK x \in T : \A y \in T : x <= y
  BY <1>2, LeastNat
<1>4. PICK m \in S : x = Len(ms) - m
  BY <1>3
<1>5. \A i \in S : i <= m
  <2> SUFFICES ASSUME NEW i \in S PROVE i <= m
    OBVIOUS
  <2>1. Len(ms) - m <= Len(ms) - i
    BY <1>3, <1>4
  <2> HIDE DEF S
  <2> QED
    BY <1>1, <2>1
<1> HIDE DEF S
<1>6. {j \in S : j >= m} = {m}
  <2>1. m \in S /\ m \in Int /\ m >= m
    BY <1>1, <1>4
  <2>2. ASSUME NEW j \in S, j >= m
        PROVE  j = m
    <3>1. j \in Int /\ j <= m
      BY <1>1, <1>5
    <3> QED
      BY <2>1, <2>2, <3>1
  <2> QED
    BY <2>1, <2>2
<1>7. Cardinality({j \in S : j >= m}) = 1
  BY <1>6, FS_Singleton
<1>8. m \in L
  BY <1>4, <1>7
<1>9. L \subseteq Nat /\ L # {}
  <2>1. L \subseteq S
    OBVIOUS
  <2> HIDE DEF L
  <2> QED
    BY <1>1, <1>8, <2>1
<1>10. Min(L) \in L
  BY <1>9, MinIsLeast
<1>11. NthLast(ms, n) = Min(L)
  BY DEF NthLast, S
<1> QED
  BY <1>10, <1>11 DEF S

\* What is kept from the start of a group on: the prompt and the rest.
LEMMA Kept ==
  ASSUME NEW ms, Chat(ms), NEW c \in NonSystem(ms) \cup {Len(ms) + 1}
  PROVE  /\ System(ms) = <<SystemPrompt>>
         /\ Chat(<<SystemPrompt>> \o From(ms, c))
         /\ Chat(<<SystemPrompt, UserMessage>> \o From(ms, c))
<1>1. /\ ms \in Seq(Message) /\ Len(ms) \in Nat /\ Len(ms) >= 1 /\ DOMAIN ms = 1..Len(ms)
      /\ ms[1] = SystemPrompt
  BY DEF Chat
<1>2. {i \in DOMAIN ms : ms[i].role = "system"} = {1}
  BY DEF Chat, WellPaired
<1>3. c \in 2..Len(ms) + 1
  BY <1>1, <1>2 DEF NonSystem, GroupStarts
<1>4. System(ms) = <<SystemPrompt>>
  <2>1. {i \in DOMAIN ms : ms[i].role = "system"} = 1..1
    BY <1>2
  <2>2. /\ At(ms, 1..1) \in Seq(Message) /\ Len(At(ms, 1..1)) = 1
        /\ At(ms, 1..1)[1] = ms[1]
    <3>1. 1 \in 1..Len(ms) + 1 /\ 1 \in 0..Len(ms) /\ 1 <= 1 + 1
      BY <1>1
    <3>2. /\ At(ms, 1..1) \in Seq(Message) /\ Len(At(ms, 1..1)) = 1 - 1 + 1
          /\ \A n \in 1..1 - 1 + 1 : At(ms, 1..1)[n] = ms[1 + n - 1]
      BY <1>1, <3>1, AtInterval
    <3> QED
      BY <3>2
  <2>3. At(ms, 1..1) = <<SystemPrompt>>
    BY <1>1, <2>2
  <2> QED
    BY <2>1, <2>3 DEF System
<1>5. {j \in c..Len(ms) : ms[j].role # "system"} = c..Len(ms)
  BY <1>1, <1>2, <1>3
<1>6. From(ms, c) = At(ms, c..Len(ms))
  BY <1>5 DEF From
<1>7. /\ From(ms, c) \in Seq(Message)
      /\ Len(From(ms, c)) = Len(ms) - c + 1
      /\ \A n \in 1..Len(ms) - c + 1 : From(ms, c)[n] = ms[c + n - 1]
  <2>1. c \in 1..Len(ms) + 1 /\ Len(ms) \in 0..Len(ms) /\ c <= Len(ms) + 1
    BY <1>1, <1>3
  <2> QED
    BY <1>1, <1>6, <2>1, AtInterval
<1>8. \A front \in {<<SystemPrompt>>, <<SystemPrompt, UserMessage>>} :
        Chat(front \o From(ms, c))
  BY <1>7, ChatCut
<1> QED
  BY <1>4, <1>8

\* Trimming keeps from the start of a group on, or the prompt alone.
LEMMA ChatTrimmed ==
  ASSUME NEW ms, Chat(ms)
  PROVE  Chat(TrimOldest(ms))
<1> DEFINE starts == NonSystem(ms) \cup {Len(ms) + 1}
           fits == {i \in starts : Len(KeepFrom(ms, i)) <= MaxContext \/ i = Len(ms) + 1}
<1>1. Len(ms) \in Nat /\ starts \subseteq Nat
  BY DEF Chat, NonSystem, GroupStarts
<1>2. fits \subseteq Nat /\ Len(ms) + 1 \in fits /\ fits \subseteq starts
  <2> HIDE DEF starts
  <2>1. Len(ms) + 1 \in starts
    BY DEF starts
  <2> QED
    BY <1>1, <2>1
<1> HIDE DEF fits
<1>3. Min(fits) \in fits
  BY <1>2, MinIsLeast
<1>4. Min(fits) \in NonSystem(ms) \cup {Len(ms) + 1}
  BY <1>2, <1>3
<1>5. Chat(KeepFrom(ms, Min(fits)))
  BY <1>4, Kept DEF KeepFrom
<1> QED
  BY <1>5 DEF TrimOldest, fits

\* The conversation after compression is one a model accepts, whatever the
\* strategy, the context limit and the window.
LEMMA ChatCompressed ==
  ASSUME NEW ms, Chat(ms),
         NEW strategy \in {"trim_oldest", "sliding_window", "summarize"}
  PROVE  Chat(ApplyContextManagement(ms, strategy))
<1>1. CASE Len(ms) <= MaxContext \/ NonSystem(ms) = {}
  BY <1>1 DEF ApplyContextManagement
<1>2. CASE ~(Len(ms) <= MaxContext \/ NonSystem(ms) = {})
  <2>1. /\ NthLast(ms, WindowSize) \in NonSystem(ms)
        /\ NthLast(ms, 2) \in NonSystem(ms)
    BY <1>2, ContextAssumption, NthLastIsStart
  <2>2. Chat(SlidingWindow(ms))
    BY <2>1, Kept DEF SlidingWindow, KeepFrom
  <2>3. Chat(System(ms) \o <<UserMessage>> \o From(ms, NthLast(ms, 2)))
    <3>1. System(ms) \o <<UserMessage>> = <<SystemPrompt, UserMessage>>
      <4>1. System(ms) = <<SystemPrompt>>
        BY <2>1, Kept
      <4>2. \A a \in Message, b \in Message : <<a>> \o <<b>> = <<a, b>>
        <5> SUFFICES ASSUME NEW a \in Message, NEW b \in Message
                     PROVE  <<a>> \o <<b>> = <<a, b>>
          OBVIOUS
        <5>1. /\ <<a>> \in Seq(Message) /\ Len(<<a>>) = 1 /\ <<a>>[1] = a
              /\ <<b>> \in Seq(Message) /\ Len(<<b>>) = 1 /\ <<b>>[1] = b
          OBVIOUS
        <5>2. /\ <<a>> \o <<b>> \in Seq(Message) /\ Len(<<a>> \o <<b>>) = 2
              /\ (<<a>> \o <<b>>)[1] = a /\ (<<a>> \o <<b>>)[2] = b
          BY <5>1, Joined
        <5> DEFINE s == <<a>> \o <<b>>
        <5>3. s \in Seq(Message) /\ Len(s) = 2 /\ s[1] = a /\ s[2] = b
          BY <5>2
        <5> HIDE DEF s
        <5>4. s = <<a, b>>
          BY <5>3
        <5> QED
          BY <5>4 DEF s
      <4> QED
        BY <4>1, <4>2, MessageTypes
    <3> QED
      BY <2>1, <3>1, Kept
  <2>4. Chat(Summarize(ms))
    BY <2>3, ChatTrimmed DEF Summarize
  <2> QED
    BY <1>2, <2>2, <2>4, ChatTrimmed DEF ApplyContextManagement
<1> QED
  BY <1>1, <1>2

-----------------------------------------------------------------------------
(* The state of the loop. *)

\* Counters count, and the loop runs under one of its configurations.
Counted == /\ setup \in Setups /\ stepIdx \in Nat /\ crashes \in Nat
           /\ saveFailures \in Nat /\ feedback \in Nat

\* What is stored is a conversation, and so is what the loop works on; while
\* tools run it is one whose last answer waits for exactly their results.
Conversing ==
  /\ checkpoint = <<>> \/ Chat(checkpoint)
  /\ pc \in {"head", "model", "terminal"} => Chat(messages)
  /\ pc = "tools" => /\ Cardinality(DOMAIN batch) \in Nat \ {0}
                     /\ Open(messages, Step, Cardinality(DOMAIN batch))

\* Only calls of the current step are under way.
OwnCalls ==
  /\ pc \in {"head", "model", "terminal", "down"} => DOMAIN batch = {}
  /\ pc \in {"tools", "handoff"} => \A id \in DOMAIN batch : id[1] = Step

TalkInv == Counted /\ Conversing /\ OwnCalls

\* What a configuration consists of.
LEMMA SetupTypes ==
  ASSUME setup \in Setups
  PROVE  Strategy \in {"trim_oldest", "sliding_window", "summarize"}
BY LoopAssumption DEF Strategy

\* The step is a number.
LEMMA StepType ==
  ASSUME Counted
  PROVE  Step \in Nat
<1>1. MaxSteps \in Nat /\ crashes \in Nat /\ stepIdx \in Nat
  BY LoopAssumption DEF Counted
<1>2. \A a, b \in Nat : a * b \in Nat
  OBVIOUS
<1> QED
  BY <1>1, <1>2 DEF Step

\* What saving may do to the store.
LEMMA SaveEffect ==
  ASSUME NEW ms, SaveCheckpoint(ms), saveFailures \in Nat
  PROVE  /\ checkpoint' \in {ms, checkpoint} /\ saveFailures' \in Nat
         /\ \/ saveFailures' = saveFailures
               /\ unsaved' = {n \in unsaved : \A id \in Answered(ms) : n > id[1]}
            \/ saveFailures' = saveFailures + 1 /\ unsaved' = unsaved
BY DEF SaveCheckpoint

\* What returning may do.
LEMMA ReturnEffect ==
  ASSUME NEW s, saveFailures \in Nat, Return(s) \/ ReturnUnsaved(s)
  PROVE  /\ pc' = "returned" /\ status' = s
         /\ checkpoint' \in {messages, checkpoint} /\ saveFailures' \in Nat
<1>1. CASE Return(s)
  BY <1>1, SaveEffect DEF Return, ReturnUnsaved, Leave, store
<1>2. CASE ReturnUnsaved(s)
  BY <1>2 DEF ReturnUnsaved, Leave, store
<1> QED
  BY <1>1, <1>2

\* What a step of a tool call may do: it leaves the conversation alone, and
\* the loop is left by a handoff or an exception only while it waits.
LEMMA CallEffect ==
  ASSUME NEW id \in DOMAIN batch, CallStep(id), Counted
  PROVE  /\ DOMAIN batch' = DOMAIN batch
         /\ UNCHANGED <<setup, expired, crashes, checkpoint, saveFailures, stepIdx, messages,
                        draftDenied>>
         /\ feedback' \in Nat
         /\ unsaved' \in {unsaved, unsaved \cup {id[1]}}
         /\ \/ pc' = pc /\ status' = status
            \/ /\ pc = "tools" /\ pc' \in {"returned", "handoff"}
               /\ status' \in {"threw", status}
<1>1. \A p : Progress(id, p) =>
        /\ DOMAIN batch' = DOMAIN batch
        /\ UNCHANGED <<setup, expired, crashes, checkpoint, saveFailures, stepIdx, messages,
                       draftDenied>>
  BY DEF Progress, toolFrame, env, store, counters
<1>2. feedback \in Nat /\ MaxFeedback \in Nat
  BY LoopAssumption DEF Counted
<1>3. CASE CallDenied(id)
  BY <1>1, <1>2, <1>3 DEF CallDenied, Goes
<1>4. CASE PolicyThrows(id)
  BY <1>1, <1>2, <1>4 DEF PolicyThrows, Escapes, Goes
<1>5. CASE CallRejected(id)
  BY <1>1, <1>2, <1>5 DEF CallRejected, Goes
<1>6. CASE CallApproved(id)
  BY <1>1, <1>2, <1>6 DEF CallApproved, Goes
<1>7. CASE ToolReturns(id)
  BY <1>1, <1>2, <1>7 DEF ToolReturns, Goes
<1>8. CASE TransientError(id)
  BY <1>1, <1>2, <1>8 DEF TransientError, Goes
<1>9. CASE HandoffSignal(id)
  BY <1>1, <1>2, <1>9 DEF HandoffSignal, Escapes, Goes
<1>10. CASE Delegate(id)
  BY <1>1, <1>2, <1>10 DEF Delegate, Goes
<1>11. CASE WorkerReturns(id)
  BY <1>1, <1>2, <1>11 DEF WorkerReturns, Goes
<1> QED
  BY <1>3, <1>4, <1>5, <1>6, <1>7, <1>8, <1>9, <1>10, <1>11 DEF CallStep

\* An agent that is resumed continues a conversation.
LEMMA ChatResumed ==
  ASSUME checkpoint = <<>> \/ Chat(checkpoint)
  PROVE  Chat(Resumed)
<1>1. CASE checkpoint = <<>>
  BY <1>1, ChatBegins DEF Resumed
<1>2. CASE checkpoint # <<>> /\ Chat(checkpoint)
  <2>1. checkpoint \in Seq(Message) /\ checkpoint # <<>> /\ checkpoint[1] = SystemPrompt
    BY <1>2 DEF Chat
  <2>2. Resumed = <<SystemPrompt>> \o Tail(checkpoint)
    BY <1>2, <2>1 DEF Resumed
  <2> DEFINE rest == Tail(checkpoint)
             all == <<SystemPrompt>> \o rest
  <2>3. /\ rest \in Seq(Message) /\ Len(rest) = Len(checkpoint) - 1 /\ Len(checkpoint) \in Nat
        /\ \A i \in 1..Len(rest) : rest[i] = checkpoint[i + 1]
    BY <2>1
  <2> HIDE DEF rest
  <2>4. <<SystemPrompt>> \in Seq(Message) /\ Len(<<SystemPrompt>>) = 1 /\ <<SystemPrompt>>[1] = SystemPrompt
    BY MessageTypes
  <2>5. /\ all \in Seq(Message) /\ Len(all) = Len(checkpoint)
        /\ all[1] = SystemPrompt
        /\ \A i \in 1..Len(rest) : all[1 + i] = rest[i]
    BY <2>3, <2>4, Joined
  <2> HIDE DEF all
  <2>6. \A i \in 1..Len(checkpoint) : all[i] = checkpoint[i]
    <3> SUFFICES ASSUME NEW i \in 1..Len(checkpoint), i # 1
                 PROVE  all[i] = checkpoint[i]
      BY <2>1, <2>5
    <3>1. i - 1 \in 1..Len(rest) /\ 1 + (i - 1) = i /\ (i - 1) + 1 = i
      BY <2>3
    <3> QED
      BY <2>3, <2>5, <3>1
  <2>7. all = checkpoint
    BY <2>1, <2>5, <2>6
  <2> QED
    BY <1>2, <2>2, <2>7 DEF all, rest
<1> QED
  BY <1>1, <1>2

\* What an answer with tool calls leaves behind.
LEMMA AskedFor ==
  ASSUME TalkInv, ModelAsksForTools
  PROVE  /\ pc' = "tools" /\ Step' = Step
         /\ UNCHANGED <<setup, stepIdx, crashes, checkpoint, saveFailures, feedback, unsaved>>
         /\ Cardinality(DOMAIN batch') \in Nat \ {0}
         /\ Open(messages', Step, Cardinality(DOMAIN batch'))
         /\ \A id \in DOMAIN batch' : id[1] = Step
<1>1. PICK n \in 1..MaxCalls :
        /\ messages' = Append(messages, Assistant(Ids(Step, n)))
        /\ batch' = [c \in Range(Ids(Step, n)) |-> Waiting]
  BY DEF ModelAsksForTools, Ids
<1>2. n \in Nat \ {0} /\ Chat(messages) /\ Step \in Nat
  BY StepType, LoopAssumption DEF TalkInv, Conversing, ModelAsksForTools
<1>3. DOMAIN batch' = {<<Step, i>> : i \in 1..n}
  BY <1>1 DEF Ids, Range
<1>4. Cardinality(DOMAIN batch') = n
  <2> DEFINE f == [i \in 1..n |-> <<Step, i>>]
             T == {<<Step, i>> : i \in 1..n}
  <2>1. f \in [1..n -> T]
    OBVIOUS
  <2>2. \A i, j \in 1..n : f[i] = f[j] => i = j
    OBVIOUS
  <2>3. \A t \in T : \E i \in 1..n : f[i] = t
    OBVIOUS
  <2> HIDE DEF f, T
  <2>4. f \in Bijection(1..n, T)
    BY <2>1, <2>2, <2>3, Zenon DEF Bijection, Injection, Surjection, IsInjective
  <2>5. ExistsBijection(1..n, T)
    BY <2>4 DEF ExistsBijection
  <2> QED
    BY <1>2, <1>3, <2>5, FS_CountingElements DEF T
<1>5. Open(messages', Step, n)
  BY <1>1, <1>2 DEF Open
<1>6. /\ pc' = "tools"
      /\ UNCHANGED <<setup, stepIdx, crashes, checkpoint, saveFailures, feedback, unsaved>>
  BY DEF ModelAsksForTools, env, store
<1>7. Step' = Step
  BY <1>6 DEF Step
<1> QED
  BY <1>2, <1>3, <1>4, <1>5, <1>6, <1>7

\* The conversation after a step of tool calls, and how it is saved.
LEMMA Answers ==
  ASSUME TalkInv, AllReturned
  PROVE  /\ pc' = "head" /\ Chat(messages') /\ DOMAIN batch' = {}
         /\ \E id \in Answered(messages') : id[1] = Step
<1> DEFINE k == Cardinality(DOMAIN batch)
           said == messages \o Results
<1>1. k \in Nat \ {0} /\ Open(messages, Step, k) /\ Step \in Nat
  BY StepType DEF TalkInv, Conversing, AllReturned
<1>2. PICK extra \in {<<>>, <<UserMessage>>} :
        pc' = "head" /\ messages' = messages \o (Results \o extra)
  BY DEF AllReturned, Continue
<1>3. Results = [i \in 1..k |-> ToolResult(<<Step, i>>)]
  BY DEF Results
<1>4. Chat(said)
  BY <1>1, <1>3, ChatAnswered
<1>5. /\ messages \in Seq(Message) /\ Results \in Seq(Message) /\ extra \in Seq(Message)
      /\ Len(Results) = k /\ Plain(extra) /\ Results[1] = ToolResult(<<Step, 1>>)
  <2>1. messages \in Seq(Message)
    <3>1. PICK before : Chat(before) /\ messages = Append(before, Assistant(Ids(Step, k)))
      BY <1>1 DEF Open
    <3>2. Ids(Step, k) \in Seq(Int \X Int)
      BY <1>1 DEF Ids
    <3>3. Assistant(Ids(Step, k)) \in Message
      BY <3>2, MessageTypes
    <3> QED
      BY <3>1, <3>3 DEF Chat
  <2>2. \A i \in 1..k : ToolResult(<<Step, i>>) \in Message
    <3>1. \A i \in 1..k : <<Step, i>> \in Int \X Int
      BY <1>1
    <3> QED
      BY <3>1, MessageTypes
  <2>3. Results \in Seq(Message) /\ Len(Results) = k /\ Results[1] = ToolResult(<<Step, 1>>)
    <3> DEFINE res == [i \in 1..k |-> ToolResult(<<Step, i>>)]
    <3> HIDE DEF k
    <3>1. res \in [1..k -> Message] /\ res[1] = ToolResult(<<Step, 1>>)
      BY <1>1, <2>2
    <3> HIDE DEF res
    <3>2. res \in Seq(Message) /\ Len(res) = k
      BY <1>1, <3>1
    <3> QED
      BY <1>3, <3>1, <3>2 DEF res
  <2>4. extra \in Seq(Message) /\ Plain(extra)
    <3>1. \A S, m : m \in S => <<>> \in Seq(S) /\ <<m>> \in Seq(S)
      OBVIOUS
    <3> QED
      BY <1>2, <3>1, MessageTypes DEF Plain
  <2> QED
    BY <2>1, <2>3, <2>4
<1>6. messages' = said \o extra
  BY <1>2, <1>5
<1>7. Chat(messages')
  BY <1>4, <1>5, <1>6, ChatGoesOn
<1>8. \E id \in Answered(messages') : id[1] = Step
  <2>1. /\ Len(messages) + 1 \in DOMAIN messages'
        /\ messages'[Len(messages) + 1] = ToolResult(<<Step, 1>>)
    <3>1. /\ Results \o extra \in Seq(Message) /\ Len(Results \o extra) = k + Len(extra)
          /\ (Results \o extra)[1] = Results[1]
      BY <1>1, <1>5, Joined
    <3>2. /\ DOMAIN messages' = 1..Len(messages) + Len(Results \o extra)
          /\ messages'[Len(messages) + 1] = (Results \o extra)[1]
      BY <1>1, <1>2, <1>5, <3>1, Joined
    <3> QED
      BY <1>1, <1>5, <3>1, <3>2
  <2>2. ToolResult(<<Step, 1>>).role = "tool" /\ ToolResult(<<Step, 1>>).ids[1] = <<Step, 1>>
    BY DEF ToolResult
  <2>3. <<Step, 1>> \in Answered(messages')
    BY <2>1, <2>2 DEF Answered
  <2> QED
    BY <2>3
<1>9. DOMAIN batch' = {}
  BY DEF AllReturned
<1> QED
  BY <1>2, <1>7, <1>8, <1>9

-----------------------------------------------------------------------------
(* Every conversation that a model gets is well-formed. *)

\* The conversation is paired when the agent starts.
LEMMA TalkInit == Init => TalkInv
<1> SUFFICES ASSUME Init PROVE TalkInv
  OBVIOUS
<1>1. Counted
  BY DEF Init, Counted
<1>2. Conversing
  BY ChatBegins DEF Init, Conversing
<1>3. OwnCalls
  BY DEF Init, OwnCalls
<1> QED
  BY <1>1, <1>2, <1>3 DEF TalkInv

\* Leaving the loop, with or without a last checkpoint.
LEMMA TalkReturned ==
  ASSUME TalkInv, pc \in {"head", "model", "terminal"}, NEW s, Return(s) \/ ReturnUnsaved(s),
         UNCHANGED <<setup, stepIdx, crashes, feedback>>
  PROVE  TalkInv'
<1>1. /\ pc' = "returned" /\ checkpoint' \in {messages, checkpoint}
      /\ saveFailures' \in Nat
  BY ReturnEffect DEF TalkInv, Counted
<1>2. Chat(messages) /\ (checkpoint = <<>> \/ Chat(checkpoint))
  BY DEF TalkInv, Conversing
<1>3. Counted'
  BY <1>1 DEF TalkInv, Counted
<1>4. Conversing'
  BY <1>1, <1>2 DEF Conversing
<1>5. OwnCalls'
  BY <1>1 DEF OwnCalls
<1> QED
  BY <1>3, <1>4, <1>5 DEF TalkInv

\* Another iteration, with the draft and a request for another one.
LEMMA TalkAgain ==
  ASSUME TalkInv, pc = "terminal", Continue(Again),
         UNCHANGED <<setup, crashes, feedback, batch, checkpoint, saveFailures>>
  PROVE  TalkInv'
<1>1. Chat(messages) /\ DOMAIN batch = {} /\ stepIdx \in Nat
  BY DEF TalkInv, Conversing, OwnCalls, Counted
<1>2. Plain(Again)
  BY DEF Plain, Again
<1>3. Chat(messages \o Again)
  BY <1>1, <1>2, ChatGoesOn
<1>4. pc' = "head" /\ stepIdx' = stepIdx + 1 /\ messages' = messages \o Again
  BY DEF Continue
<1>5. Counted'
  BY <1>1, <1>4 DEF TalkInv, Counted
<1>6. Conversing'
  BY <1>3, <1>4 DEF TalkInv, Conversing
<1>7. OwnCalls'
  BY <1>1, <1>4 DEF OwnCalls
<1> QED
  BY <1>5, <1>6, <1>7 DEF TalkInv

\* The head of the loop adds feedback and cuts the context, which keeps the
\* pairing.
LEMMA TalkHeadContinues ==
  ASSUME TalkInv, HeadContinues
  PROVE  TalkInv'
<1> DEFINE said == [i \in 1..feedback |-> UserMessage]
<1>1. /\ Chat(messages) /\ DOMAIN batch = {} /\ feedback \in Nat /\ setup \in Setups
  BY DEF TalkInv, Conversing, OwnCalls, Counted, HeadContinues
<1>2. Plain(said)
  BY <1>1 DEF Plain
<1>3. Chat(messages \o said)
  BY <1>1, <1>2, ChatGoesOn
<1>4. /\ pc' = "model" /\ messages' = ApplyContextManagement(messages \o said, Strategy)
      /\ feedback' = 0
      /\ UNCHANGED <<setup, crashes, stepIdx, batch, checkpoint, saveFailures>>
  BY DEF HeadContinues, env, store, counters
<1> HIDE DEF said
<1>5. Chat(messages')
  BY <1>1, <1>3, <1>4, SetupTypes, ChatCompressed
<1>6. Counted'
  BY <1>4 DEF TalkInv, Counted
<1>7. Conversing'
  BY <1>4, <1>5 DEF TalkInv, Conversing
<1>8. OwnCalls'
  BY <1>1, <1>4 DEF OwnCalls
<1> QED
  BY <1>6, <1>7, <1>8 DEF TalkInv

\* The answers of a batch are appended in one piece, and pair its calls.
LEMMA TalkAllReturned ==
  ASSUME TalkInv, AllReturned
  PROVE  TalkInv'
<1>1. /\ pc' = "head" /\ Chat(messages') /\ DOMAIN batch' = {}
  BY Answers
<1>2. stepIdx' = stepIdx + 1 /\ UNCHANGED <<setup, crashes, feedback>>
  BY DEF AllReturned, Continue, env
<1>3. checkpoint' \in {messages', checkpoint} /\ saveFailures' \in Nat
  BY SaveEffect DEF AllReturned, store, TalkInv, Counted
<1>4. Counted'
  BY <1>2, <1>3 DEF TalkInv, Counted
<1>5. Conversing'
  BY <1>1, <1>3 DEF TalkInv, Conversing
<1>6. OwnCalls'
  BY <1>1 DEF OwnCalls
<1> QED
  BY <1>4, <1>5, <1>6 DEF TalkInv

\* A conversation read back from a checkpoint is paired as it was when it was
\* saved.
LEMMA TalkResumed ==
  ASSUME TalkInv, ResumeFromCheckpoint
  PROVE  TalkInv'
<1>1. PICK input \in {<<>>, <<UserMessage>>} : messages' = Resumed \o input
  BY DEF ResumeFromCheckpoint
<1>2. Plain(input)
  <2>1. \A S, x : x \in S => <<>> \in Seq(S) /\ <<x>> \in Seq(S)
    OBVIOUS
  <2> QED
    BY <1>1, <2>1 DEF Plain
<1>3. Chat(messages')
  BY <1>1, <1>2, ChatResumed, ChatGoesOn DEF TalkInv, Conversing
<1>4. /\ pc = "down" /\ pc' = "head" /\ stepIdx' = 0 /\ feedback' = 0
      /\ UNCHANGED <<setup, crashes, checkpoint, saveFailures, batch>>
  BY DEF ResumeFromCheckpoint, store
<1>5. Counted'
  BY <1>4 DEF TalkInv, Counted
<1>6. Conversing'
  BY <1>3, <1>4 DEF TalkInv, Conversing
<1>7. OwnCalls'
  BY <1>4 DEF TalkInv, OwnCalls
<1> QED
  BY <1>5, <1>6, <1>7 DEF TalkInv

\* The steps of a single call leave the conversation alone.
LEMMA TalkCall ==
  ASSUME TalkInv, NEW id \in DOMAIN batch, CallStep(id)
  PROVE  TalkInv'
<1>1. /\ DOMAIN batch' = DOMAIN batch
      /\ UNCHANGED <<setup, crashes, checkpoint, saveFailures, stepIdx, messages>>
      /\ feedback' \in Nat
      /\ pc' = pc \/ (pc = "tools" /\ pc' \in {"returned", "handoff"})
  <2>1. Counted
    BY DEF TalkInv
  <2>2. /\ DOMAIN batch' = DOMAIN batch
        /\ UNCHANGED <<setup, crashes, checkpoint, saveFailures, stepIdx, messages>>
        /\ feedback' \in Nat
    BY <2>1, CallEffect
  <2>3. pc' = pc \/ (pc = "tools" /\ pc' \in {"returned", "handoff"})
    <3>1. \/ pc' = pc /\ status' = status
          \/ pc = "tools" /\ pc' \in {"returned", "handoff"} /\ status' \in {"threw", status}
      BY <2>1, CallEffect
    <3> QED
      BY <3>1
  <2> QED
    BY <2>2, <2>3
<1>2. Step' = Step
  BY <1>1 DEF Step
<1>3. Counted'
  BY <1>1 DEF TalkInv, Counted
<1>4. Conversing'
  <2>1. checkpoint' = <<>> \/ Chat(checkpoint')
    BY <1>1 DEF TalkInv, Conversing
  <2>2. pc' \in {"head", "model", "terminal"} => Chat(messages')
    BY <1>1 DEF TalkInv, Conversing
  <2>3. pc' = "tools" => /\ Cardinality(DOMAIN batch') \in Nat \ {0}
                         /\ Open(messages', Step', Cardinality(DOMAIN batch'))
    BY <1>1, <1>2 DEF TalkInv, Conversing
  <2> QED
    BY <2>1, <2>2, <2>3 DEF Conversing
<1>5. OwnCalls'
  BY <1>1, <1>2 DEF TalkInv, OwnCalls
<1> QED
  BY <1>3, <1>4, <1>5 DEF TalkInv

\* Steps that leave conversation and calls alone.
LEMMA TalkKept ==
  ASSUME TalkInv,
         UNCHANGED <<setup, crashes, checkpoint, saveFailures, stepIdx, messages, batch, feedback>>,
         \/ pc' = pc
         \/ pc = "model" /\ pc' = "terminal"
         \/ pc' = "returned"
  PROVE  TalkInv'
<1>1. Step' = Step
  BY DEF Step
<1>2. Counted'
  BY DEF TalkInv, Counted
<1>3. Conversing'
  BY <1>1 DEF TalkInv, Conversing
<1>4. OwnCalls'
  BY <1>1 DEF TalkInv, OwnCalls
<1> QED
  BY <1>2, <1>3, <1>4 DEF TalkInv

\* Every step keeps the conversation paired.
LEMMA TalkStep == TalkInv /\ [Next]_vars => TalkInv'
<1> SUFFICES ASSUME TalkInv, [Next]_vars
             PROVE  TalkInv'
  OBVIOUS
<1>1. CASE HeadStops
  <2>1. PICK s : Return(s)
    BY <1>1 DEF HeadStops
  <2> QED
    BY <1>1, <2>1, TalkReturned DEF HeadStops, env, counters, calls
<1>2. CASE HeadContinues
  BY <1>2, TalkHeadContinues
<1>3. CASE ModelAsksForTools
  <2>1. Counted'
    BY <1>3, AskedFor DEF TalkInv, Counted
  <2>2. Conversing'
    <3>1. /\ pc' = "tools" /\ Step' = Step /\ checkpoint' = checkpoint
          /\ Cardinality(DOMAIN batch') \in Nat \ {0}
          /\ Open(messages', Step, Cardinality(DOMAIN batch'))
      BY <1>3, AskedFor
    <3>2. Open(messages', Step', Cardinality(DOMAIN batch'))
      BY <3>1
    <3> QED
      BY <3>1, <3>2 DEF TalkInv, Conversing
  <2>3. OwnCalls'
    BY <1>3, AskedFor DEF OwnCalls
  <2> QED
    BY <2>1, <2>2, <2>3 DEF TalkInv
<1>4. CASE ModelAnswers
  BY <1>4, TalkKept DEF ModelAnswers, env, store, calls
<1>5. CASE Throws
  BY <1>5, TalkReturned DEF Throws, env, counters, calls
<1>6. CASE AllReturned
  BY <1>6, TalkAllReturned
<1>7. CASE HandoffReturns
  BY <1>7, TalkKept DEF HandoffReturns, ReturnUnsaved, Leave, env, store, counters, calls
<1>8. CASE GuardrailDenies
  BY <1>8, TalkReturned DEF GuardrailDenies, terminalFrame, env, calls
<1>9. CASE SchemaRetry
  BY <1>9, TalkAgain DEF SchemaRetry, terminalFrame, env, store, calls
<1>10. CASE VerifyFails
  BY <1>10, TalkAgain DEF VerifyFails, terminalFrame, env, store, calls
<1>11. CASE CriticRevises
  BY <1>11, TalkAgain DEF CriticRevises, terminalFrame, env, store, calls
<1>12. CASE Accepted
  BY <1>12, TalkReturned DEF Accepted, terminalFrame, env, calls
<1>13. CASE ResumeFromCheckpoint
  BY <1>13, TalkResumed
<1>14. ASSUME NEW id \in DOMAIN batch, CallStep(id)
       PROVE  TalkInv'
  BY <1>14, TalkCall
<1>15. CASE Expire
  BY <1>15, TalkKept DEF Expire, store, counters, calls
<1>16. CASE Crash
  <2>1. /\ pc' = "down" /\ crashes' = crashes + 1 /\ DOMAIN batch' = {}
        /\ UNCHANGED <<setup, checkpoint, saveFailures, stepIdx, feedback>>
    BY <1>16 DEF Crash, store, counters
  <2>2. Counted'
    BY <2>1 DEF TalkInv, Counted
  <2>3. Conversing'
    BY <2>1 DEF TalkInv, Conversing
  <2>4. OwnCalls'
    BY <2>1 DEF OwnCalls
  <2> QED
    BY <2>2, <2>3, <2>4 DEF TalkInv
<1>17. CASE UNCHANGED vars
  BY <1>17, TalkKept DEF vars, env, store, counters, calls
<1> QED
  BY <1>1, <1>2, <1>3, <1>4, <1>5, <1>6, <1>7, <1>8, <1>9, <1>10, <1>11, <1>12, <1>13,
     <1>14, <1>15, <1>16, <1>17 DEF Next, LoopStep

\* However tool calls interleave, whatever is trimmed, summarised, fed back,
\* retried, lost in a crash or resumed: each model call gets one system prompt
\* and every tool call directly followed by its result (the loop of run and
\* runStream in agent.ts over the groups of context-manager.ts).
THEOREM ChatsPaired == Spec => []ConversationPaired
<1>1. Spec => []TalkInv
  BY TalkInit, TalkStep, PTL DEF Spec
<1>2. TalkInv => ConversationPaired
  BY DEF TalkInv, Conversing, Chat, ConversationPaired
<1> QED
  BY <1>1, <1>2, PTL

-----------------------------------------------------------------------------
(* A denied draft is never reported as completed. *)

\* Completion is final, and says that the last draft was not denied.
CompletedInv == status = "completed" => pc = "returned" /\ ~draftDenied

\* Every step keeps denied calls out of the completed ones.
LEMMA CompletedStep == TalkInv /\ CompletedInv /\ [Next]_vars => CompletedInv'
<1> SUFFICES ASSUME TalkInv, CompletedInv, [Next]_vars
             PROVE  CompletedInv'
  OBVIOUS
<1>0. saveFailures \in Nat
  BY DEF TalkInv, Counted
<1>1. CASE HeadStops
  <2>1. PICK s \in StopReasons : Return(IF Mode = "run" THEN s ELSE "failed")
    BY <1>1 DEF HeadStops
  <2>2. status' = (IF Mode = "run" THEN s ELSE "failed")
    BY <1>0, <2>1, ReturnEffect
  <2>3. s # "completed"
    BY <2>1 DEF StopReasons
  <2> QED
    BY <2>2, <2>3 DEF CompletedInv
<1>2. CASE HeadContinues \/ ModelAsksForTools \/ ModelAnswers \/ AllReturned
            \/ ResumeFromCheckpoint
  <2>1. pc # "returned" /\ status' = status
    BY <1>2 DEF HeadContinues, ModelAsksForTools, ModelAnswers, AllReturned, ResumeFromCheckpoint
  <2> QED
    BY <2>1 DEF CompletedInv
<1>3. CASE Throws \/ HandoffReturns \/ GuardrailDenies
  <2>1. status' \in {"threw", "handed_off", "guardrail_denied"}
    BY <1>3 DEF Throws, HandoffReturns, GuardrailDenies, ReturnUnsaved, Leave
  <2> QED
    BY <2>1 DEF CompletedInv
<1>4. CASE SchemaRetry \/ VerifyFails \/ CriticRevises
  <2>1. pc = "terminal" /\ status' = status
    BY <1>4 DEF SchemaRetry, VerifyFails, CriticRevises
  <2> QED
    BY <2>1 DEF CompletedInv
<1>5. CASE Accepted
  <2>1. PICK d \in BOOLEAN : draftDenied' = d /\ denied' = (denied \/ d)
    BY <1>5 DEF Accepted, Check
  <2>2. Return(IF denied' THEN "guardrail_denied" ELSE "completed")
    BY <1>5 DEF Accepted
  <2>3. pc' = "returned" /\ status' = (IF denied' THEN "guardrail_denied" ELSE "completed")
    BY <1>0, <2>2, ReturnEffect
  <2>4. CASE d
    <3>1. denied' = TRUE
      BY <2>1, <2>4
    <3> QED
      BY <2>3, <3>1 DEF CompletedInv
  <2>5. CASE ~d
    BY <2>1, <2>3, <2>5 DEF CompletedInv
  <2> QED
    BY <2>4, <2>5
<1>6. ASSUME NEW id \in DOMAIN batch, CallStep(id)
      PROVE  CompletedInv'
  <2>1. Counted
    BY DEF TalkInv
  <2>2. draftDenied' = draftDenied
    BY <1>6, <2>1, CallEffect
  <2>3. \/ pc' = pc /\ status' = status
        \/ pc = "tools" /\ status' \in {"threw", status}
    BY <1>6, <2>1, CallEffect
  <2> QED
    BY <2>2, <2>3 DEF CompletedInv
<1>7. CASE Expire \/ Crash
  <2>1. pc # "returned" /\ status' = status
    BY <1>7 DEF Expire, Crash
  <2> QED
    BY <2>1 DEF CompletedInv
<1>8. CASE UNCHANGED vars
  BY <1>8 DEF vars, CompletedInv
<1> QED
  BY <1>1, <1>2, <1>3, <1>4, <1>5, <1>6, <1>7, <1>8 DEF Next, LoopStep

\* A run, also a streamed one that verifies and revises a blocked text, never
\* completes with a draft that its guardrails have denied.
THEOREM DenialsKept == Spec => []DeniedNotCompleted
<1>1. Init => CompletedInv
  BY DEF Init, CompletedInv
<1>2. CompletedInv => DeniedNotCompleted
  BY DEF CompletedInv, DeniedNotCompleted
<1> QED
  BY <1>1, <1>2, TalkInit, TalkStep, CompletedStep, PTL DEF Spec

-----------------------------------------------------------------------------
(* Tool effects are recorded. *)

\* The steps with tool effects that no checkpoint shows: none but one for
\* each save that failed, and while tools run the current one.
Unrecorded ==
  Mode = "run" /\ pc # "returned" =>
    /\ IsFiniteSet(unsaved) /\ unsaved \subseteq Nat
    /\ pc # "down" => \A n \in unsaved : n <= Step
    /\ pc \in {"head", "model", "terminal"} => Cardinality(unsaved) <= saveFailures
    /\ pc \in {"tools", "handoff"} => Cardinality(unsaved \ {Step}) <= saveFailures
    /\ Cardinality(unsaved) <= 1 + saveFailures
    /\ pc \in {"head", "model", "terminal", "tools", "handoff", "down"}

\* A set without one of its elements.
LEMMA Without ==
  ASSUME NEW S, IsFiniteSet(S), NEW x
  PROVE  /\ IsFiniteSet(S \ {x}) /\ Cardinality(S) \in Nat /\ Cardinality(S \ {x}) \in Nat
         /\ Cardinality(S \ {x}) <= Cardinality(S)
         /\ Cardinality(S) <= Cardinality(S \ {x}) + 1
<1>1. IsFiniteSet(S \ {x}) /\ Cardinality(S) \in Nat
  BY FS_RemoveElement, FS_CardinalityType
<1>2. Cardinality(S \ {x}) \in Nat
  BY <1>1, FS_CardinalityType
<1>3. Cardinality(S \ {x}) = IF x \in S THEN Cardinality(S) - 1 ELSE Cardinality(S)
  BY FS_RemoveElement
<1> QED
  BY <1>1, <1>2, <1>3

\* A call adds at most its own step to the steps with unsaved effects.
LEMMA UnrecordedCall ==
  ASSUME TalkInv, Unrecorded, NEW id \in DOMAIN batch, CallStep(id)
  PROVE  Unrecorded'
<1> SUFFICES ASSUME Mode' = "run", pc' # "returned"
             PROVE  Unrecorded'
  BY DEF Unrecorded
<1>1. Counted
  BY DEF TalkInv
<1>2. /\ UNCHANGED <<setup, crashes, saveFailures, stepIdx>>
      /\ unsaved' \in {unsaved, unsaved \cup {id[1]}}
  BY <1>1, CallEffect
<1>3. pc' = pc \/ (pc = "tools" /\ pc' \in {"returned", "handoff"})
  <2>1. \/ pc' = pc /\ status' = status
        \/ pc = "tools" /\ pc' \in {"returned", "handoff"} /\ status' \in {"threw", status}
    BY <1>1, CallEffect
  <2> QED
    BY <2>1
<1>4. Mode = "run" /\ pc # "returned" /\ Step' = Step /\ Step \in Nat
  BY <1>1, <1>2, <1>3, StepType DEF Mode, Step
<1>5. pc \in {"tools", "handoff"} /\ id[1] = Step
  BY <1>4 DEF Unrecorded, TalkInv, OwnCalls
<1>6. /\ IsFiniteSet(unsaved) /\ unsaved \subseteq Nat /\ \A n \in unsaved : n <= Step
      /\ Cardinality(unsaved \ {Step}) <= saveFailures
  BY <1>4, <1>5 DEF Unrecorded
<1>7. unsaved' \ {Step} = unsaved \ {Step}
  BY <1>2, <1>5
<1>8. IsFiniteSet(unsaved') /\ unsaved' \subseteq Nat /\ \A n \in unsaved' : n <= Step
  <2>1. IsFiniteSet(unsaved \cup {id[1]})
    BY <1>6, FS_AddElement
  <2> QED
    BY <1>2, <1>4, <1>5, <1>6, <2>1
<1>9. Cardinality(unsaved') <= 1 + saveFailures
  <2>1. /\ Cardinality(unsaved') \in Nat /\ Cardinality(unsaved' \ {Step}) \in Nat
        /\ Cardinality(unsaved') <= Cardinality(unsaved' \ {Step}) + 1
    BY <1>8, Without
  <2> QED
    BY <1>1, <1>6, <1>7, <2>1 DEF Counted
<1> QED
  BY <1>2, <1>3, <1>4, <1>5, <1>6, <1>7, <1>8, <1>9 DEF Unrecorded

\* With a checkpoint at every step, the effects of a batch are saved with its
\* answers, or the save fails.
LEMMA UnrecordedAnswers ==
  ASSUME CheckpointInterval = 1, TalkInv, Unrecorded, AllReturned
  PROVE  Unrecorded'
<1> SUFFICES ASSUME Mode' = "run"
             PROVE  Unrecorded'
  BY DEF Unrecorded
<1>1. /\ Step \in Nat /\ stepIdx \in Nat /\ crashes \in Nat /\ saveFailures \in Nat
  BY StepType DEF TalkInv, Counted
<1>2. pc = "tools" /\ stepIdx' = stepIdx + 1 /\ UNCHANGED <<setup, crashes>> /\ pc' = "head"
  BY DEF AllReturned, Continue, env
<1>3. Mode = "run"
  BY <1>2 DEF Mode
<1>4. /\ IsFiniteSet(unsaved) /\ unsaved \subseteq Nat /\ \A n \in unsaved : n <= Step
      /\ Cardinality(unsaved \ {Step}) <= saveFailures
  BY <1>2, <1>3 DEF Unrecorded
<1>5. Step' = Step + 1
  <2>1. MaxSteps \in Nat
    BY LoopAssumption
  <2>2. \A a, b \in Nat : a * b \in Nat
    OBVIOUS
  <2>3. crashes * MaxSteps \in Nat
    BY <1>1, <2>1, <2>2
  <2> QED
    BY <1>1, <1>2, <2>3 DEF Step
<1>6. SaveCheckpoint(messages')
  <2>1. stepIdx % CheckpointInterval = 0
    BY <1>1
  <2> QED
    BY <1>3, <2>1 DEF AllReturned
<1>7. CASE saveFailures' = saveFailures
           /\ unsaved' = {n \in unsaved : \A id \in Answered(messages') : n > id[1]}
  <2>1. PICK id \in Answered(messages') : id[1] = Step
    BY Answers
  <2>2. unsaved' = {}
    <3> SUFFICES ASSUME NEW n \in unsaved' PROVE FALSE
      OBVIOUS
    <3>1. n \in unsaved /\ n > Step
      BY <1>7, <2>1
    <3> QED
      BY <1>1, <1>4, <3>1
  <2> QED
    BY <1>1, <1>2, <1>7, <2>2, FS_EmptySet DEF Unrecorded
<1>8. CASE saveFailures' = saveFailures + 1 /\ unsaved' = unsaved
  <2>1. /\ Cardinality(unsaved) \in Nat /\ Cardinality(unsaved \ {Step}) \in Nat
        /\ Cardinality(unsaved) <= Cardinality(unsaved \ {Step}) + 1
    BY <1>4, Without
  <2>2. Cardinality(unsaved') <= saveFailures'
    BY <1>1, <1>4, <1>8, <2>1
  <2>3. \A n \in unsaved' : n <= Step'
    BY <1>1, <1>4, <1>5, <1>8
  <2>4. Cardinality(unsaved') <= 1 + saveFailures'
    BY <1>1, <1>8, <2>1, <2>2
  <2> QED
    BY <1>2, <1>4, <1>8, <2>2, <2>3, <2>4 DEF Unrecorded
<1> QED
  BY <1>1, <1>6, <1>7, <1>8, SaveEffect

\* Steps that go on from one point of the loop to the next.
LEMMA UnrecordedGoesOn ==
  ASSUME TalkInv, Unrecorded, UNCHANGED <<setup, crashes, saveFailures, unsaved>>,
         pc \in {"head", "model", "terminal"}, pc' \in {"head", "model", "terminal", "tools"},
         stepIdx' \in {stepIdx, stepIdx + 1}
  PROVE  Unrecorded'
<1> SUFFICES ASSUME Mode' = "run"
             PROVE  Unrecorded'
  BY DEF Unrecorded
<1>1. /\ Step \in Nat /\ stepIdx \in Nat /\ crashes \in Nat /\ saveFailures \in Nat
  BY StepType DEF TalkInv, Counted
<1>2. Mode = "run"
  BY DEF Mode
<1>3. /\ IsFiniteSet(unsaved) /\ unsaved \subseteq Nat /\ \A n \in unsaved : n <= Step
      /\ Cardinality(unsaved) <= saveFailures
  BY <1>2 DEF Unrecorded
<1>4. Step' \in {Step, Step + 1}
  <2>1. MaxSteps \in Nat
    BY LoopAssumption
  <2>2. \A a, b \in Nat : a * b \in Nat
    OBVIOUS
  <2>3. crashes * MaxSteps \in Nat
    BY <1>1, <2>1, <2>2
  <2> QED
    BY <1>1, <2>3 DEF Step
<1>5. \A n \in unsaved' : n <= Step'
  BY <1>1, <1>3, <1>4
<1>6. Cardinality(unsaved \ {Step'}) <= saveFailures /\ Cardinality(unsaved) <= 1 + saveFailures
  <2>1. /\ Cardinality(unsaved) \in Nat /\ Cardinality(unsaved \ {Step'}) \in Nat
        /\ Cardinality(unsaved \ {Step'}) <= Cardinality(unsaved)
    BY <1>3, Without
  <2> QED
    BY <1>1, <1>3, <2>1
<1> QED
  BY <1>3, <1>5, <1>6 DEF Unrecorded

\* Every step keeps the effects that no checkpoint records within the crashes.
LEMMA UnrecordedStep ==
  ASSUME CheckpointInterval = 1
  PROVE  TalkInv /\ Unrecorded /\ [Next]_vars => Unrecorded'
<1> SUFFICES ASSUME TalkInv, Unrecorded, [Next]_vars
             PROVE  Unrecorded'
  OBVIOUS
<1>0. saveFailures \in Nat
  BY DEF TalkInv, Counted
<1>1. CASE pc' = "returned"
  BY <1>1 DEF Unrecorded
<1>2. CASE HeadStops \/ Throws \/ HandoffReturns \/ GuardrailDenies \/ Accepted
  <2>1. \E s : Return(s) \/ ReturnUnsaved(s)
    BY <1>2 DEF HeadStops, Throws, HandoffReturns, GuardrailDenies, Accepted
  <2> QED
    BY <1>0, <1>1, <2>1, ReturnEffect
<1>3. CASE HeadContinues \/ ModelAsksForTools \/ ModelAnswers
  <2>1. /\ UNCHANGED <<setup, crashes, saveFailures, unsaved, stepIdx>>
        /\ pc \in {"head", "model", "terminal"} /\ pc' \in {"head", "model", "terminal", "tools"}
    BY <1>3 DEF HeadContinues, ModelAsksForTools, ModelAnswers, env, store, counters
  <2> QED
    BY <2>1, UnrecordedGoesOn
<1>4. CASE SchemaRetry \/ VerifyFails \/ CriticRevises
  <2>1. /\ UNCHANGED <<setup, crashes, saveFailures, unsaved>> /\ stepIdx' = stepIdx + 1
        /\ pc \in {"head", "model", "terminal"} /\ pc' = "head"
    BY <1>4 DEF SchemaRetry, VerifyFails, CriticRevises, Continue, terminalFrame, env, store
  <2> QED
    BY <2>1, UnrecordedGoesOn
<1>5. CASE AllReturned
  BY <1>5, UnrecordedAnswers
<1>6. CASE ResumeFromCheckpoint
  <2>1. pc' = "head" /\ unsaved' = {} /\ saveFailures' = saveFailures
    BY <1>6 DEF ResumeFromCheckpoint, store
  <2> QED
    BY <1>0, <2>1, FS_EmptySet DEF Unrecorded
<1>7. ASSUME NEW id \in DOMAIN batch, CallStep(id)
      PROVE  Unrecorded'
  BY <1>7, UnrecordedCall
<1>8. CASE Expire \/ UNCHANGED vars
  <2>1. UNCHANGED <<setup, pc, crashes, saveFailures, unsaved, stepIdx>>
    BY <1>8 DEF Expire, vars, env, store, counters
  <2>2. Step' = Step /\ Mode' = Mode
    BY <2>1 DEF Step, Mode
  <2> QED
    BY <2>1, <2>2 DEF Unrecorded
<1>9. CASE Crash
  <2>1. pc' = "down" /\ UNCHANGED <<setup, saveFailures, unsaved>> /\ pc # "returned"
    BY <1>9 DEF Crash, store
  <2>2. Mode' = Mode
    BY <2>1 DEF Mode
  <2> QED
    BY <2>1, <2>2 DEF Unrecorded
<1> QED
  BY <1>2, <1>3, <1>4, <1>5, <1>6, <1>7, <1>8, <1>9 DEF Next, LoopStep

\* With a checkpoint after every step, which is the default of run() in
\* agent.ts (intervalSteps ?? 1), a crash forgets the tool effects of at most
\* one step, and of one more for each save that failed.
THEOREM EffectsSafe == CheckpointInterval = 1 => (Spec => []EffectsRecorded)
<1> SUFFICES ASSUME CheckpointInterval = 1
             PROVE  Spec => []EffectsRecorded
  OBVIOUS
<1>1. Init => Unrecorded
  BY FS_EmptySet DEF Init, Unrecorded
<1>2. Unrecorded => EffectsRecorded
  BY DEF Unrecorded, EffectsRecorded
<1>3. TalkInv /\ Unrecorded /\ [Next]_vars => Unrecorded'
  BY UnrecordedStep
<1> QED
  BY <1>1, <1>2, <1>3, TalkInit, TalkStep, PTL DEF Spec
=============================================================================
