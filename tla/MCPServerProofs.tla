--------------------------- MODULE MCPServerProofs ---------------------------
(***************************************************************************)
(* Safety of the dispatcher for any set of messages, tools and transports. *)
(* The inductive invariant says that the accepted calls stand in one line: *)
(* those answered, then the one that runs, then those queued.  What stands *)
(* behind the answered ones is what ToolService calls pending, and every   *)
(* task of the dispatcher is one of its steps.                             *)
(***************************************************************************)
EXTENDS MCPServer, SequenceTheorems, TLAPS

(***************************************************************************)
(* The line formed by the accepted calls acc when q is the queue, run the  *)
(* running calls, s the replies and rcv the messages received.             *)
(***************************************************************************)
Answered(acc, q, run) == Len(acc) - Len(q) - (IF run = {} THEN 0 ELSE 1)

InLine(acc, q, run, s, rcv) ==
  /\ Answered(acc, q, run) \in Nat
  /\ \A i \in 1 .. Len(q) : q[i] = acc[Len(acc) - Len(q) + i]
  /\ run # {} => run = {acc[Answered(acc, q, run) + 1]}
  /\ \A i \in 1 .. Len(acc) : acc[i] \in rcv
  /\ \A i, j \in 1 .. Len(acc) : acc[i] = acc[j] => i = j
  /\ \A i \in 1 .. Len(acc) : s[acc[i]] # <<>> <=> i <= Answered(acc, q, run)
  /\ \A m \in Message : s[m] = <<>> \/ Len(s[m]) = 1
  /\ \A m \in Message : m \notin rcv => s[m] = <<>>
  /\ \A m \in rcv : s[m] # <<>> \/ \E i \in 1 .. Len(acc) : acc[i] = m

Line == InLine(accepted, tool_call_queue, running, sent, received)

Busy ==
  /\ tool_call_in_progress = (running # {})
  /\ NoStrandedCall

IInv == TypeOK /\ Line /\ Busy

-----------------------------------------------------------------------------
(* Lemmas.                                                                 *)

\* A first reply makes a history of one reply.
LEMMA AppendToEmpty == \A o : Append(<<>>, o) # <<>> /\ Len(Append(<<>>, o)) = 1
  OBVIOUS

\* ExecuteNextToolCall, started when no call runs on a queue whose calls are
\* the last accepted ones, keeps the line, the types and the flag.
LEMMA ExecuteNextKeepsLine ==
  ASSUME NEW acc, NEW q, NEW s, NEW rcv
  PROVE  /\ acc \in Seq(Message)
         /\ q \in Seq(Message)
         /\ s \in [Message -> Seq(Outcomes)]
         /\ rcv \subseteq Message
         /\ InLine(acc, q, {}, s, rcv)
         /\ ExecuteNextToolCall(q, {}, s)
         => /\ tool_call_queue' \in Seq(Message)
            /\ running' \subseteq Message
            /\ sent' \in [Message -> Seq(Outcomes)]
            /\ tool_call_in_progress' = (running' # {})
            /\ tool_call_queue' # <<>> => running' # {}
            /\ InLine(acc, tool_call_queue', running', sent', rcv)
<1>h. SUFFICES ASSUME /\ acc \in Seq(Message)
                      /\ q \in Seq(Message)
                      /\ s \in [Message -> Seq(Outcomes)]
                      /\ rcv \subseteq Message,
                      InLine(acc, q, {}, s, rcv),
                      ExecuteNextToolCall(q, {}, s)
               PROVE  /\ tool_call_queue' \in Seq(Message)
                      /\ running' \subseteq Message
                      /\ sent' \in [Message -> Seq(Outcomes)]
                      /\ tool_call_in_progress' = (running' # {})
                      /\ tool_call_queue' # <<>> => running' # {}
                      /\ InLine(acc, tool_call_queue', running', sent', rcv)
  OBVIOUS
<1>a. PICK L \in Nat, M \in Nat, n \in Nat :
        L = Len(acc) /\ M = Len(q) /\ n = L - M
  BY <1>h DEF InLine, Answered
<1>b. PICK k \in 0 .. Len(q) :
        /\ tool_call_in_progress' = (k < Len(q))
        /\ tool_call_queue' = SubSeq(q, k + 2, Len(q))
        /\ running' = {} \cup (IF k < Len(q) THEN {q[k + 1]} ELSE {})
        /\ sent' = [m \in Message |->
                     IF \E i \in 1 .. k : q[i] = m
                       THEN Append(s[m], CallOutcome(m)) ELSE s[m]]
  BY <1>h DEF ExecuteNextToolCall
<1>1. /\ L = Len(acc) /\ M = Len(q) /\ n = L - M /\ k <= M /\ k \in Nat
      /\ tool_call_queue' = SubSeq(q, k + 2, M)
      /\ running' = (IF k < M THEN {q[k + 1]} ELSE {})
      /\ sent' = [m \in Message |->
                   IF \E i \in 1 .. k : q[i] = m
                     THEN Append(s[m], CallOutcome(m)) ELSE s[m]]
  BY <1>a, <1>b
<1>2. n = L - M /\ k <= M /\ k \in Nat
  BY <1>1
\* The facts used below, free of sequences: q continues acc after its first n.
<1>3. \A i \in 1 .. M : q[i] \in Message /\ n + i \in 1 .. L /\ q[i] = acc[n + i]
  <2>1. \A i \in 1 .. M : q[i] \in Message
    BY <1>h, <1>1
  <2>2. \A i \in 1 .. M : q[i] = acc[L - M + i]
    BY <1>h, <1>1 DEF InLine
  <2> QED
    BY <2>1, <2>2, <1>2
<1>4. \A i \in 1 .. L : s[acc[i]] # <<>> <=> i <= n
  BY <1>h, <1>1 DEF InLine, Answered
<1>5. \A i, j \in 1 .. L : acc[i] = acc[j] => i = j
  BY <1>h, <1>1 DEF InLine
<1>6. sent' \in [Message -> Seq(Outcomes)]
  BY <1>h, <1>1 DEF CallOutcome, Outcomes
\* The calls answered by this task are the first k of the queue, i.e. those
\* numbered n + 1 to n + k in the line, and none of them had a reply.
<1>7. \A m \in Message : (\E i \in 1 .. k : q[i] = m) => s[m] = <<>>
  BY <1>2, <1>3, <1>4
<1>8. \A m \in Message :
        /\ (\E i \in 1 .. k : q[i] = m) => sent'[m] # <<>> /\ Len(sent'[m]) = 1
        /\ ~(\E i \in 1 .. k : q[i] = m) => sent'[m] = s[m]
  <2>1. \A m \in Message : (\E i \in 1 .. k : q[i] = m) => sent'[m] = Append(<<>>, CallOutcome(m))
    BY <1>1, <1>7
  <2>2. \A m \in Message : ~(\E i \in 1 .. k : q[i] = m) => sent'[m] = s[m]
    BY <1>1
  <2> QED
    BY <2>1, <2>2, AppendToEmpty
<1>9. \A i \in 1 .. L : (\E j \in 1 .. k : q[j] = acc[i]) <=> i \in n + 1 .. n + k
  <2> SUFFICES ASSUME NEW i \in 1 .. L
               PROVE  (\E j \in 1 .. k : q[j] = acc[i]) <=> i \in n + 1 .. n + k
    OBVIOUS
  <2>1. ASSUME NEW j \in 1 .. k, q[j] = acc[i]
        PROVE  i = n + j
    BY <2>1, <1>2, <1>3, <1>5
  <2>2. ASSUME i \in n + 1 .. n + k
        PROVE  q[i - n] = acc[i] /\ i - n \in 1 .. k
    BY <2>2, <1>2, <1>3
  <2> QED
    BY <2>1, <2>2, <1>2
<1>10. \A i \in 1 .. L : acc[i] \in Message
  BY <1>h, <1>1
<1>11. \A i \in 1 .. L : sent'[acc[i]] # <<>> <=> i <= n + k
  <2> SUFFICES ASSUME NEW i \in 1 .. L
               PROVE  sent'[acc[i]] # <<>> <=> i <= n + k
    OBVIOUS
  <2>1. CASE i \in n + 1 .. n + k
    <3>1. sent'[acc[i]] # <<>>
      BY <2>1, <1>8, <1>9, <1>10
    <3> QED
      BY <3>1, <2>1, <1>2
  <2>2. CASE i \notin n + 1 .. n + k
    <3>1. sent'[acc[i]] = s[acc[i]]
      BY <2>2, <1>8, <1>9, <1>10
    <3> QED
      BY <3>1, <2>2, <1>2, <1>4
  <2> QED
    BY <2>1, <2>2
<1>12. \A m \in Message : sent'[m] = <<>> \/ Len(sent'[m]) = 1
  <2>1. \A m \in Message : s[m] = <<>> \/ Len(s[m]) = 1
    BY <1>h DEF InLine
  <2>2. \A m \in Message : Len(sent'[m]) = 1 \/ sent'[m] = s[m]
    BY <1>8
  <2> QED
    BY <2>1, <2>2
<1>13. \A m \in Message : m \notin rcv => sent'[m] = <<>>
  <2>1. \A i \in 1 .. L : acc[i] \in rcv
    BY <1>h, <1>1 DEF InLine
  <2>2. ASSUME NEW i \in 1 .. k
        PROVE  q[i] \in rcv
    <3>1. i \in 1 .. M
      BY <1>2
    <3>2. q[i] = acc[n + i] /\ n + i \in 1 .. L
      BY <3>1, <1>3
    <3> QED
      BY <3>2, <2>1
  <2>3. \A m \in Message : m \notin rcv => s[m] = <<>>
    BY <1>h DEF InLine
  <2> QED
    BY <2>2, <2>3, <1>8
<1>14. \A m \in rcv : sent'[m] # <<>> \/ \E i \in 1 .. L : acc[i] = m
  BY <1>h, <1>1, <1>8 DEF InLine
<1>15. /\ \A i \in 1 .. Len(acc) : acc[i] \in rcv
       /\ \A i, j \in 1 .. Len(acc) : acc[i] = acc[j] => i = j
       /\ \A i \in 1 .. Len(acc) : sent'[acc[i]] # <<>> <=> i <= n + k
       /\ \A m \in rcv : sent'[m] # <<>> \/ \E i \in 1 .. Len(acc) : acc[i] = m
  <2>1. \A i \in 1 .. Len(acc) : acc[i] \in rcv
    BY <1>h DEF InLine
  <2> QED
    BY <2>1, <1>5, <1>11, <1>14, <1>a
<1>16. CASE k = M
  <2>1. /\ tool_call_queue' = <<>> /\ Len(tool_call_queue') = 0
        /\ tool_call_queue' \in Seq(Message)
    BY <1>h, <1>1, <1>16
  <2>2. running' = {}
    BY <1>1, <1>16
  <2>3. Answered(acc, tool_call_queue', running') = n + k
    BY <2>1, <2>2, <1>1, <1>16 DEF Answered
  <2>4. InLine(acc, tool_call_queue', running', sent', rcv)
    <3>1. \A i \in 1 .. Len(tool_call_queue') :
             tool_call_queue'[i] = acc[Len(acc) - Len(tool_call_queue') + i]
      BY <2>1
    <3>2. n + k \in Nat
      BY <1>2
    <3> QED
      BY <2>2, <2>3, <3>1, <3>2, <1>15, <1>12, <1>13 DEF InLine
  <2>5. (k < Len(q)) = FALSE
    BY <1>1, <1>16
  <2>6. tool_call_in_progress' = FALSE
    BY <1>b, <2>5
  <2>7. (running' # {}) = FALSE
    BY <2>2
  <2> QED
    BY <2>1, <2>2, <2>4, <2>6, <2>7, <1>6
<1>17. CASE k < M
  <2>1. /\ tool_call_queue' \in Seq(Message)
        /\ Len(tool_call_queue') = M - k - 1
        /\ \A i \in 1 .. M - k - 1 : tool_call_queue'[i] = q[k + 1 + i]
    BY <1>h, <1>1, <1>17
  <2>2. running' = {q[k + 1]} /\ running' # {} /\ q[k + 1] \in Message
    BY <1>1, <1>3, <1>17
  <2>3. Answered(acc, tool_call_queue', running') = n + k
    <3>1. Answered(acc, tool_call_queue', running') = L - (M - k - 1) - 1
      BY <2>1, <2>2, <1>a DEF Answered
    <3> QED
      BY <3>1, <1>2
  <2>4. q[k + 1] = acc[n + k + 1]
    BY <1>2, <1>3, <1>17
  <2>5. \A i \in 1 .. M - k - 1 : tool_call_queue'[i] = acc[L - (M - k - 1) + i]
    BY <2>1, <1>2, <1>3, <1>17
  <2>6. InLine(acc, tool_call_queue', running', sent', rcv)
    <3>1. \A i \in 1 .. Len(tool_call_queue') :
             tool_call_queue'[i] = acc[Len(acc) - Len(tool_call_queue') + i]
      BY <2>1, <2>5, <1>1
    <3>2. running' = {acc[n + k + 1]} /\ n + k \in Nat
      BY <2>2, <2>4, <1>2
    <3> QED
      BY <2>3, <3>1, <3>2, <1>15, <1>12, <1>13 DEF InLine
  <2>7. (k < Len(q)) = TRUE
    BY <1>1, <1>17
  <2>8. tool_call_in_progress' = TRUE
    BY <1>b, <2>7
  <2> QED
    BY <2>1, <2>2, <2>6, <2>8, <1>6
<1>18. k = M \/ k < M
  BY <1>2
<1> QED
  BY <1>16, <1>17, <1>18

\* A new call joins the end of the queue and of the line.
LEMMA EnqueueKeepsLine ==
  ASSUME TypeOK, Line, NEW m \in Message, m \notin received
  PROVE  InLine(Append(accepted, m), Append(tool_call_queue, m), running, sent,
                received \cup {m})
<1>a. PICK L \in Nat, M \in Nat, n \in Nat :
        /\ L = Len(accepted) /\ M = Len(tool_call_queue)
        /\ n = Answered(accepted, tool_call_queue, running)
  BY DEF TypeOK, Line, InLine
<1> DEFINE acc == Append(accepted, m)
           q == Append(tool_call_queue, m)
<1>1. /\ Len(acc) = L + 1 /\ acc[L + 1] = m
      /\ \A i \in 1 .. L : acc[i] = accepted[i]
  BY <1>a DEF TypeOK
<1>2. /\ Len(q) = M + 1 /\ q[M + 1] = m
      /\ \A i \in 1 .. M : q[i] = tool_call_queue[i]
  BY <1>a DEF TypeOK
<1>3. n = L - M - (IF running = {} THEN 0 ELSE 1)
  BY <1>a DEF Answered
<1>4. Answered(acc, q, running) = n
  BY <1>1, <1>2, <1>3 DEF Answered
<1>5. /\ \A i \in 1 .. M : tool_call_queue[i] = accepted[L - M + i]
      /\ running # {} => running = {accepted[n + 1]}
      /\ \A i \in 1 .. L : accepted[i] \in received
      /\ \A i, j \in 1 .. L : accepted[i] = accepted[j] => i = j
      /\ \A i \in 1 .. L : sent[accepted[i]] # <<>> <=> i <= n
      /\ \A x \in Message : sent[x] = <<>> \/ Len(sent[x]) = 1
      /\ \A x \in Message : x \notin received => sent[x] = <<>>
      /\ \A x \in received : sent[x] # <<>> \/ \E i \in 1 .. L : accepted[i] = x
  BY <1>a DEF Line, InLine
<1> HIDE DEF acc, q
<1>6. \A i \in 1 .. M + 1 : q[i] = acc[L + 1 - (M + 1) + i]
  <2> SUFFICES ASSUME NEW i \in 1 .. M + 1
               PROVE  q[i] = acc[L + 1 - (M + 1) + i]
    OBVIOUS
  <2>1. CASE i = M + 1
    BY <2>1, <1>1, <1>2
  <2>2. CASE i # M + 1
    <3>1. i \in 1 .. M /\ L + 1 - (M + 1) + i = L - M + i /\ L - M + i \in 1 .. L
      BY <2>2, <1>3
    <3>2. q[i] = accepted[L - M + i]
      BY <3>1, <1>2, <1>5
    <3> QED
      BY <3>1, <3>2, <1>1
  <2> QED
    BY <2>1, <2>2
<1>7. running # {} => running = {acc[n + 1]}
  <2>1. running # {} => n + 1 \in 1 .. L
    BY <1>3
  <2> QED
    BY <2>1, <1>1, <1>5
<1>8. \A i \in 1 .. L + 1 : acc[i] \in received \cup {m}
  BY <1>1, <1>5
<1>9. \A i, j \in 1 .. L + 1 : acc[i] = acc[j] => i = j
  BY <1>1, <1>5
<1>10. \A i \in 1 .. L + 1 : sent[acc[i]] # <<>> <=> i <= n
  <2> SUFFICES ASSUME NEW i \in 1 .. L + 1
               PROVE  sent[acc[i]] # <<>> <=> i <= n
    OBVIOUS
  <2>1. CASE i = L + 1
    BY <2>1, <1>1, <1>3, <1>5
  <2>2. CASE i # L + 1
    BY <2>2, <1>1, <1>5
  <2> QED
    BY <2>1, <2>2
<1>11. \A x \in received \cup {m} :
         sent[x] # <<>> \/ \E i \in 1 .. L + 1 : acc[i] = x
  BY <1>1, <1>5
<1>12. InLine(acc, q, running, sent, received \cup {m})
  BY <1>1, <1>2, <1>4, <1>5, <1>6, <1>7, <1>8, <1>9, <1>10, <1>11 DEF InLine
<1> QED
  BY <1>12 DEF acc, q

\* The running call is answered: it joins the answered part of the line.
LEMMA FinishKeepsLine ==
  ASSUME TypeOK, Line, NEW m \in running
  PROVE  /\ running \ {m} = {}
         /\ InLine(accepted, tool_call_queue, {},
                   [sent EXCEPT ![m] = Append(@, "toolResult")], received)
<1>a. PICK L \in Nat, M \in Nat, n \in Nat :
        /\ L = Len(accepted) /\ M = Len(tool_call_queue)
        /\ n = Answered(accepted, tool_call_queue, running)
  BY DEF TypeOK, Line, InLine
<1> DEFINE s == [sent EXCEPT ![m] = Append(@, "toolResult")]
<1>1. n = L - M - 1
  BY <1>a DEF Answered
<1>2. Answered(accepted, tool_call_queue, {}) = n + 1
  BY <1>1, <1>a DEF Answered
<1>3. /\ \A i \in 1 .. M : tool_call_queue[i] = accepted[L - M + i]
      /\ running = {accepted[n + 1]}
      /\ \A i \in 1 .. L : accepted[i] \in received
      /\ \A i, j \in 1 .. L : accepted[i] = accepted[j] => i = j
      /\ \A i \in 1 .. L : sent[accepted[i]] # <<>> <=> i <= n
      /\ \A x \in Message : sent[x] = <<>> \/ Len(sent[x]) = 1
      /\ \A x \in Message : x \notin received => sent[x] = <<>>
      /\ \A x \in received : sent[x] # <<>> \/ \E i \in 1 .. L : accepted[i] = x
  BY <1>a DEF Line, InLine
<1>4. m = accepted[n + 1] /\ running \ {m} = {} /\ n + 1 \in 1 .. L
  BY <1>1, <1>3
<1>5. sent[m] = <<>>
  BY <1>3, <1>4
<1>6. s[m] = Append(<<>>, "toolResult") /\ \A x \in Message : x # m => s[x] = sent[x]
  BY <1>5 DEF TypeOK
<1>7. s[m] # <<>> /\ Len(s[m]) = 1
  BY <1>6, AppendToEmpty
<1> HIDE DEF s
<1>8. \A i \in 1 .. L : accepted[i] \in Message
  BY <1>3 DEF TypeOK
<1>9. \A i \in 1 .. L : s[accepted[i]] # <<>> <=> i <= n + 1
  <2> SUFFICES ASSUME NEW i \in 1 .. L
               PROVE  s[accepted[i]] # <<>> <=> i <= n + 1
    OBVIOUS
  <2>1. CASE i = n + 1
    BY <2>1, <1>4, <1>7
  <2>2. CASE i # n + 1
    <3>1. s[accepted[i]] = sent[accepted[i]]
      BY <2>2, <1>3, <1>4, <1>6, <1>8
    <3> QED
      BY <3>1, <2>2, <1>3
  <2> QED
    BY <2>1, <2>2
<1>10. \A x \in Message : s[x] = <<>> \/ Len(s[x]) = 1
  BY <1>3, <1>6, <1>7
<1>11. \A x \in Message : x \notin received => s[x] = <<>>
  BY <1>3, <1>4, <1>6
<1>12. \A x \in received : s[x] # <<>> \/ \E i \in 1 .. L : accepted[i] = x
  BY <1>3, <1>6, <1>7 DEF TypeOK
<1>13. /\ \A i \in 1 .. Len(tool_call_queue) :
            tool_call_queue[i] = accepted[Len(accepted) - Len(tool_call_queue) + i]
       /\ \A i \in 1 .. Len(accepted) : accepted[i] \in received
       /\ \A i, j \in 1 .. Len(accepted) : accepted[i] = accepted[j] => i = j
  BY DEF Line, InLine
<1>14. /\ \A i \in 1 .. Len(accepted) : s[accepted[i]] # <<>> <=> i <= n + 1
       /\ \A x \in received :
            s[x] # <<>> \/ \E i \in 1 .. Len(accepted) : accepted[i] = x
  BY <1>a, <1>9, <1>12
<1>15. InLine(accepted, tool_call_queue, {}, s, received)
  BY <1>2, <1>10, <1>11, <1>13, <1>14 DEF InLine
<1> QED
  BY <1>4, <1>15 DEF s

\* A message answered at once leaves the line as it is.
LEMMA ControlKeepsLine ==
  ASSUME TypeOK, Line, NEW m \in Message, m \notin received, NEW o
  PROVE  InLine(accepted, tool_call_queue, running,
                [sent EXCEPT ![m] = Append(@, o)], received \cup {m})
<1>a. PICK L \in Nat : L = Len(accepted)
  BY DEF TypeOK
<1> DEFINE s == [sent EXCEPT ![m] = Append(@, o)]
           n == Answered(accepted, tool_call_queue, running)
<1>1. sent[m] = <<>>
  BY DEF Line, InLine
<1>2. s[m] = Append(<<>>, o) /\ \A x \in Message : x # m => s[x] = sent[x]
  BY <1>1 DEF TypeOK
<1>3. s[m] # <<>> /\ Len(s[m]) = 1
  BY <1>2, AppendToEmpty
<1> HIDE DEF s
<1>4. /\ \A i \in 1 .. L : accepted[i] \in received /\ accepted[i] \in Message
      /\ \A i \in 1 .. L : sent[accepted[i]] # <<>> <=> i <= n
      /\ \A x \in Message : sent[x] = <<>> \/ Len(sent[x]) = 1
      /\ \A x \in Message : x \notin received => sent[x] = <<>>
      /\ \A x \in received : sent[x] # <<>> \/ \E i \in 1 .. L : accepted[i] = x
  BY <1>a DEF Line, InLine, TypeOK
<1> HIDE DEF n
<1>5. \A i \in 1 .. L : s[accepted[i]] # <<>> <=> i <= n
  BY <1>2, <1>4
<1>6. \A x \in Message : s[x] = <<>> \/ Len(s[x]) = 1
  BY <1>2, <1>3, <1>4
<1>7. \A x \in Message : x \notin received \cup {m} => s[x] = <<>>
  BY <1>2, <1>4
<1>8. \A x \in received \cup {m} : s[x] # <<>> \/ \E i \in 1 .. L : accepted[i] = x
  BY <1>2, <1>3, <1>4 DEF TypeOK
<1>9. /\ n \in Nat
      /\ \A i \in 1 .. Len(tool_call_queue) :
           tool_call_queue[i] = accepted[Len(accepted) - Len(tool_call_queue) + i]
      /\ running # {} => running = {accepted[n + 1]}
      /\ \A i, j \in 1 .. Len(accepted) : accepted[i] = accepted[j] => i = j
  BY DEF Line, InLine, n
<1>10. /\ \A i \in 1 .. Len(accepted) : accepted[i] \in received \cup {m}
       /\ \A i \in 1 .. Len(accepted) : s[accepted[i]] # <<>> <=> i <= n
       /\ \A x \in received \cup {m} :
            s[x] # <<>> \/ \E i \in 1 .. Len(accepted) : accepted[i] = x
  BY <1>a, <1>4, <1>5, <1>8
<1> QED
  BY <1>6, <1>7, <1>9, <1>10 DEF InLine, s, n

-----------------------------------------------------------------------------
(* The inductive invariant.                                                *)

\* A server that has just been constructed has no calls in any place.
LEMMA InitInv == Init => IInv
<1> SUFFICES ASSUME Init PROVE IInv
  OBVIOUS
<1>1. TypeOK
  <2>1. sent \in [Message -> Seq(Outcomes)]
    BY DEF Init
  <2>2. tool_call_queue \in Seq(Message) /\ accepted \in Seq(Message)
    BY DEF Init
  <2> QED
    BY <2>1, <2>2 DEF Init, TypeOK
<1>2. Len(accepted) = 0 /\ Len(tool_call_queue) = 0 /\ running = {}
  BY DEF Init
<1>3. Answered(accepted, tool_call_queue, running) = 0
  BY <1>2 DEF Answered
<1>4. \A m \in Message : sent[m] = <<>> /\ Len(sent[m]) = 0
  BY DEF Init
<1>5. Line
  BY <1>2, <1>3, <1>4 DEF Line, InLine, Init
<1>6. Busy
  BY DEF Busy, NoStrandedCall, Init
<1> QED
  BY <1>1, <1>5, <1>6 DEF IInv

\* OnMessage, answering at once, does not touch the calls in line.
LEMMA ControlInv ==
  ASSUME IInv, NEW m \in Message, OnControlMessage(m)
  PROVE  IInv'
<1>1. PICK o \in Outcomes : sent' = [sent EXCEPT ![m] = Append(@, o)]
  BY DEF OnControlMessage, Send, ImmediateOutcome, Outcomes
<1>2. m \notin received /\ received' = received \cup {m}
  BY DEF OnControlMessage, Deliver
<1>3. UNCHANGED queueVars
  BY DEF OnControlMessage
<1>4. Line'
  BY <1>1, <1>2, <1>3, ControlKeepsLine DEF IInv, Line, queueVars
<1>5. TypeOK'
  <2>1. sent' \in [Message -> Seq(Outcomes)]
    BY <1>1 DEF IInv, TypeOK
  <2>2. initialized' \in BOOLEAN
    BY DEF OnControlMessage
  <2> QED
    BY <2>1, <2>2, <1>2, <1>3
    DEF IInv, TypeOK, queueVars, OnControlMessage, Deliver
<1>6. Busy'
  BY <1>3 DEF IInv, Busy, NoStrandedCall, queueVars
<1> QED
  BY <1>4, <1>5, <1>6 DEF IInv

\* HandleToolsCall puts a call at the end of the line, and starts the queue
\* when no call runs.
LEMMA ToolsCallInv ==
  ASSUME IInv, NEW m \in Message, OnToolsCall(m)
  PROVE  IInv'
<1> DEFINE acc == Append(accepted, m)
           q == Append(tool_call_queue, m)
<1>1. /\ m \notin received /\ received' = received \cup {m}
      /\ accepted' = acc
      /\ UNCHANGED <<initialized, stdio, loop>>
  BY DEF OnToolsCall, Deliver
<1>2. /\ acc \in Seq(Message) /\ q \in Seq(Message)
      /\ received' \in SUBSET Message
  BY <1>1 DEF IInv, TypeOK
<1>3. InLine(acc, q, running, sent, received')
  BY <1>1, EnqueueKeepsLine DEF IInv
<1>4. CASE tool_call_in_progress
  <2>1. tool_call_queue' = q /\ UNCHANGED <<tool_call_in_progress, running, sent>>
    BY <1>4 DEF OnToolsCall
  <2>2. Line'
    BY <1>1, <1>3, <2>1 DEF Line
  <2>3. TypeOK'
    BY <1>1, <1>2, <2>1 DEF IInv, TypeOK
  <2>4. Busy'
    BY <2>1, <1>4 DEF IInv, Busy, NoStrandedCall
  <2> QED
    BY <2>2, <2>3, <2>4 DEF IInv
<1>5. CASE ~tool_call_in_progress
  <2>1. ExecuteNextToolCall(q, running, sent)
    BY <1>5 DEF OnToolsCall
  <2>2. running = {}
    BY <1>5 DEF IInv, Busy
  <2>3. sent \in [Message -> Seq(Outcomes)]
    BY DEF IInv, TypeOK
  <2> HIDE DEF acc, q
  <2>4. /\ tool_call_queue' \in Seq(Message)
        /\ running' \subseteq Message
        /\ sent' \in [Message -> Seq(Outcomes)]
        /\ tool_call_in_progress' = (running' # {})
        /\ tool_call_queue' # <<>> => running' # {}
        /\ InLine(acc, tool_call_queue', running', sent', received')
    BY <1>2, <1>3, <2>1, <2>2, <2>3, ExecuteNextKeepsLine
  <2>5. Line'
    BY <2>4, <1>1 DEF Line
  <2>6. Busy'
    BY <2>4 DEF Busy, NoStrandedCall
  <2>7. tool_call_in_progress' \in BOOLEAN
    BY <2>4
  <2>8. TypeOK'
    BY <2>4, <2>7, <1>1, <1>2 DEF IInv, TypeOK
  <2> QED
    BY <2>5, <2>6, <2>8 DEF IInv
<1> QED
  BY <1>4, <1>5

\* OnToolCallComplete moves the running call among the answered ones, and goes
\* on with the queue.
LEMMA CompleteInv ==
  ASSUME IInv, NEW m \in Message, OnToolCallComplete(m)
  PROVE  IInv'
<1> DEFINE s == [sent EXCEPT ![m] = Append(@, "toolResult")]
<1>1. /\ m \in running
      /\ ExecuteNextToolCall(tool_call_queue, running \ {m}, s)
      /\ UNCHANGED <<received, initialized, accepted, stdio, loop>>
  BY DEF OnToolCallComplete
<1>2. /\ running \ {m} = {}
      /\ InLine(accepted, tool_call_queue, {}, s, received)
  BY <1>1, FinishKeepsLine DEF IInv
<1>3. /\ s \in [Message -> Seq(Outcomes)]
      /\ accepted \in Seq(Message) /\ tool_call_queue \in Seq(Message)
      /\ received \in SUBSET Message
  BY DEF IInv, TypeOK, Outcomes
<1> HIDE DEF s
<1>4. /\ tool_call_queue' \in Seq(Message)
      /\ running' \subseteq Message
      /\ sent' \in [Message -> Seq(Outcomes)]
      /\ tool_call_in_progress' = (running' # {})
      /\ tool_call_queue' # <<>> => running' # {}
      /\ InLine(accepted, tool_call_queue', running', sent', received)
  BY <1>1, <1>2, <1>3, ExecuteNextKeepsLine
<1>5. Line'
  BY <1>1, <1>4 DEF Line
<1>6. Busy'
  BY <1>4 DEF Busy, NoStrandedCall
<1>7. tool_call_in_progress' \in BOOLEAN
  BY <1>4
<1>8. TypeOK'
  BY <1>1, <1>4, <1>7 DEF IInv, TypeOK
<1> QED
  BY <1>5, <1>6, <1>8 DEF IInv

\* Every task of the main sequence keeps the line.
LEMMA StepInv == IInv /\ [Next]_vars => IInv'
<1> SUFFICES ASSUME IInv, [Next]_vars PROVE IInv'
  OBVIOUS
<1>1. ASSUME NEW m \in Message, OnControlMessage(m)
      PROVE  IInv'
  BY <1>1, ControlInv
<1>2. ASSUME NEW m \in Message, OnToolsCall(m)
      PROVE  IInv'
  BY <1>2, ToolsCallInv
<1>3. ASSUME NEW m \in Message, OnToolCallComplete(m)
      PROVE  IInv'
  BY <1>3, CompleteInv
<1>4. CASE OnTransportClosed \/ ShutDown \/ LoopExit
  <2>1. UNCHANGED <<received, sent, queueVars>> /\ UNCHANGED initialized
    BY <1>4 DEF OnTransportClosed, ShutDown, LoopExit
  <2>2. loop' \in {"running", "quitting", "gone"} /\ stdio' \in {"open", "closed"}
    BY <1>4 DEF OnTransportClosed, ShutDown, LoopExit, IInv, TypeOK
  <2> QED
    BY <2>1, <2>2 DEF IInv, TypeOK, Line, Busy, NoStrandedCall, queueVars
<1>5. CASE UNCHANGED vars
  BY <1>5 DEF vars, IInv, TypeOK, Line, Busy, NoStrandedCall
<1> QED
  BY <1>1, <1>2, <1>3, <1>4, <1>5 DEF Next

\* The accepted calls always stand in one line: answered, running, queued.
THEOREM Inductive == Spec => []IInv
  BY InitInv, StepInv, PTL DEF Spec

-----------------------------------------------------------------------------
(* What it gives.                                                          *)

\* The types of the dispatcher's fields and of the histories.
THEOREM Typing == Spec => []TypeOK
<1>1. IInv => TypeOK
  BY DEF IInv
<1> QED
  BY <1>1, Inductive, PTL

\* However many transports feed the queue, at most one tool handler is active
\* and the in-progress flag says so.
THEOREM OneToolAtATime == Spec => [](SerialExecution /\ NoStrandedCall)
<1>1. IInv => SerialExecution /\ NoStrandedCall
  BY DEF IInv, Busy, Line, InLine, SerialExecution
<1> QED
  BY <1>1, Inductive, PTL

\* Tool calls are answered in the order they were accepted, across transports.
THEOREM FifoAnswers == Spec => []AnsweredInOrder
<1>1. ASSUME IInv PROVE AnsweredInOrder
  <2>1. PICK n \in Nat : n = Answered(accepted, tool_call_queue, running)
    BY <1>1 DEF IInv, Line, InLine
  <2>2. Len(accepted) \in Nat /\ Len(tool_call_queue) \in Nat
    BY <1>1 DEF IInv, TypeOK
  <2>3. n \in 0 .. Len(accepted)
    BY <2>1, <2>2 DEF Answered
  <2>4. \A i \in 1 .. Len(accepted) : sent[accepted[i]] # <<>> <=> i <= n
    BY <1>1, <2>1 DEF IInv, Line, InLine
  <2> QED
    BY <2>3, <2>4 DEF AnsweredInOrder
<1> QED
  BY <1>1, Inductive, PTL

\* No message is answered twice and none is lost: one without a reply is in
\* exactly one place, the queue or its handler.
THEOREM RepliesExactlyOnce == Spec => []ExactlyOneReply
<1>1. ASSUME IInv PROVE ExactlyOneReply
  <2> DEFINE n == Answered(accepted, tool_call_queue, running)
             L == Len(accepted)
             M == Len(tool_call_queue)
  <2>1. L \in Nat /\ M \in Nat /\ n = L - M - (IF running = {} THEN 0 ELSE 1)
    BY <1>1 DEF IInv, TypeOK, Answered
  <2>2. /\ n \in Nat
        /\ \A i \in 1 .. M : tool_call_queue[i] = accepted[L - M + i]
        /\ running # {} => running = {accepted[n + 1]}
        /\ \A i, j \in 1 .. L : accepted[i] = accepted[j] => i = j
        /\ \A i \in 1 .. L : sent[accepted[i]] # <<>> <=> i <= n
        /\ \A x \in received : sent[x] # <<>> \/ \E i \in 1 .. L : accepted[i] = x
    BY <1>1 DEF IInv, Line, InLine
  <2>3. \A x \in received : sent[x] = <<>> \/ Len(sent[x]) = 1
    BY <1>1 DEF IInv, TypeOK, Line, InLine
  <2> HIDE DEF n, L
  <2> SUFFICES ASSUME NEW m \in received
               PROVE  \/ /\ Len(sent[m]) = 1
                         /\ m \notin running
                         /\ {i \in 1 .. M : tool_call_queue[i] = m} = {}
                      \/ /\ sent[m] = <<>>
                         /\ \/ /\ m \in running
                               /\ {i \in 1 .. M : tool_call_queue[i] = m} = {}
                            \/ /\ m \notin running
                               /\ \E i \in {i \in 1 .. M : tool_call_queue[i] = m} :
                                    {j \in 1 .. M : tool_call_queue[j] = m} = {i}
    BY DEF ExactlyOneReply, M
  <2> HIDE DEF M
  <2>4. CASE sent[m] # <<>>
    <3>1. Len(sent[m]) = 1
      BY <2>3, <2>4
    <3>2. m \notin running
      BY <2>1, <2>2, <2>4
    <3>3. \A i \in 1 .. M : tool_call_queue[i] # m
      BY <2>1, <2>2, <2>4
    <3> QED
      BY <3>1, <3>2, <3>3
  <2>5. CASE sent[m] = <<>>
    <3>1. PICK k \in 1 .. L : accepted[k] = m /\ k > n
      BY <2>1, <2>2, <2>5
    <3>2. CASE k = n + 1 /\ running # {}
      <4>1. \A i \in 1 .. M : tool_call_queue[i] # m
        BY <3>1, <3>2, <2>1, <2>2
      <4> QED
        BY <4>1, <3>1, <3>2, <2>2, <2>5
    <3>3. CASE k # n + 1 \/ running = {}
      <4>1. k - (L - M) \in 1 .. M
        BY <3>1, <3>3, <2>1, <2>2
      <4>2. \A i \in 1 .. M : tool_call_queue[i] = m <=> i = k - (L - M)
        BY <3>1, <4>1, <2>1, <2>2
      <4>3. m \notin running
        BY <3>1, <3>3, <2>1, <2>2
      <4> QED
        BY <4>1, <4>2, <4>3, <2>5
    <3> QED
      BY <3>2, <3>3
  <2> QED
    BY <2>4, <2>5
<1> QED
  BY <1>1, Inductive, PTL

-----------------------------------------------------------------------------
(* The refinement: the line without those answered is what ToolService     *)
(* calls pending.                                                          *)

Pending(acc, n) == SubSeq(acc, n + 1, Len(acc))

\* What is pending are the calls behind the first n.
LEMMA PendingElements ==
  ASSUME NEW acc \in Seq(Message), NEW n \in 0 .. Len(acc)
  PROVE  /\ Pending(acc, n) \in Seq(Message)
         /\ Len(Pending(acc, n)) = Len(acc) - n
         /\ \A i \in 1 .. Len(acc) - n : Pending(acc, n)[i] = acc[n + i]
<1> DEFINE L == Len(acc)
<1>1. L \in Nat /\ n \in Nat /\ n <= L
  OBVIOUS
<1>2. \A i \in n + 1 .. L : acc[i] \in Message
  <2>1. \A i \in 1 .. L : acc[i] \in Message
    OBVIOUS
  <2> QED
    BY <1>1, <2>1
<1> HIDE DEF L
<1>3. /\ SubSeq(acc, n + 1, L) \in Seq(Message)
      /\ Len(SubSeq(acc, n + 1, L)) = IF n + 1 <= L THEN L - (n + 1) + 1 ELSE 0
      /\ \A i \in 1 .. L - (n + 1) + 1 : SubSeq(acc, n + 1, L)[i] = acc[n + 1 + i - 1]
  BY <1>1, <1>2, SubSeqProperties
<1>4. Len(SubSeq(acc, n + 1, L)) = L - n
  BY <1>1, <1>3
<1>5. \A i \in 1 .. L - n : SubSeq(acc, n + 1, L)[i] = acc[n + i]
  BY <1>1, <1>3
<1> QED
  BY <1>3, <1>4, <1>5 DEF Pending, L

\* The first k of those pending are answered.
LEMMA PendingRest ==
  ASSUME NEW acc \in Seq(Message), NEW n \in 0 .. Len(acc), NEW k \in 0 .. Len(acc) - n
  PROVE  Pending(acc, n + k) = SubSeq(Pending(acc, n), k + 1, Len(Pending(acc, n)))
<1>1. PICK L \in Nat : L = Len(acc)
  OBVIOUS
<1>2. n \in Nat /\ k \in Nat /\ n + k <= L /\ n + k \in 0 .. Len(acc)
  BY <1>1
<1> DEFINE w == Pending(acc, n)
           r == Pending(acc, n + k)
<1>3. /\ w \in Seq(Message) /\ Len(w) = L - n
      /\ \A i \in 1 .. L - n : w[i] = acc[n + i]
  BY <1>1, PendingElements
<1>4. /\ r \in Seq(Message) /\ Len(r) = L - (n + k)
      /\ \A i \in 1 .. L - (n + k) : r[i] = acc[n + k + i]
  BY <1>1, <1>2, PendingElements
<1> HIDE DEF w, r
<1>5. w \in Seq(Message) /\ Len(w) \in Nat /\ k \in 0 .. Len(w)
  BY <1>2, <1>3
<1>6. /\ Pending(w, k) \in Seq(Message)
      /\ Len(Pending(w, k)) = Len(w) - k
      /\ \A i \in 1 .. Len(w) - k : Pending(w, k)[i] = w[k + i]
  BY <1>5, PendingElements
<1>7. Len(r) = Len(Pending(w, k))
  BY <1>2, <1>3, <1>4, <1>6
<1>8. \A i \in 1 .. Len(r) : r[i] = Pending(w, k)[i]
  <2> SUFFICES ASSUME NEW i \in 1 .. Len(r)
               PROVE  r[i] = Pending(w, k)[i]
    OBVIOUS
  <2>1. /\ i \in 1 .. L - (n + k) /\ i \in 1 .. Len(w) - k /\ k + i \in 1 .. L - n
        /\ n + (k + i) = n + k + i
    BY <1>2, <1>3, <1>4
  <2> QED
    BY <1>3, <1>4, <1>6, <2>1
<1>9. r = Pending(w, k)
  BY <1>4, <1>6, <1>7, <1>8, SeqEqual
<1> QED
  BY <1>9 DEF w, r, Pending

\* A call that joins the line is pending behind the others.
LEMMA PendingAppend ==
  ASSUME NEW acc \in Seq(Message), NEW n \in 0 .. Len(acc), NEW m \in Message
  PROVE  Pending(Append(acc, m), n) = Append(Pending(acc, n), m)
<1>1. PICK L \in Nat : L = Len(acc)
  OBVIOUS
<1> DEFINE a == Append(acc, m)
           w == Pending(acc, n)
           v == Append(w, m)
           p == Pending(a, n)
<1>2. /\ a \in Seq(Message) /\ Len(a) = L + 1
      /\ \A i \in 1 .. L : a[i] = acc[i]
      /\ a[L + 1] = m
  BY <1>1
<1>3. /\ w \in Seq(Message) /\ Len(w) = L - n
      /\ \A i \in 1 .. L - n : w[i] = acc[n + i]
  BY <1>1, PendingElements
<1> HIDE DEF a, w
<1>4. /\ v \in Seq(Message) /\ Len(v) = L - n + 1
      /\ \A i \in 1 .. L - n : v[i] = w[i]
      /\ v[L - n + 1] = m
  BY <1>1, <1>3
<1>5. n \in 0 .. Len(a) /\ n \in Nat /\ n <= L
  BY <1>1, <1>2
<1>6. /\ p \in Seq(Message) /\ Len(p) = L + 1 - n
      /\ \A i \in 1 .. L + 1 - n : p[i] = a[n + i]
  <2>1. /\ p \in Seq(Message) /\ Len(p) = Len(a) - n
        /\ \A i \in 1 .. Len(a) - n : p[i] = a[n + i]
    BY <1>2, <1>5, PendingElements
  <2> HIDE DEF p
  <2> QED
    BY <1>2, <2>1
<1> HIDE DEF v, p
<1>7. Len(p) = Len(v)
  BY <1>4, <1>5, <1>6
<1>8. \A i \in 1 .. Len(p) : p[i] = v[i]
  <2> SUFFICES ASSUME NEW i \in 1 .. L + 1 - n
               PROVE  p[i] = v[i]
    BY <1>6
  <2>1. CASE i = L + 1 - n
    <3>1. n + i = L + 1 /\ L - n + 1 = i
      BY <1>5, <2>1
    <3> QED
      BY <1>2, <1>4, <1>6, <3>1
  <2>2. CASE i # L + 1 - n
    <3>1. i \in 1 .. L - n /\ n + i \in 1 .. L
      BY <1>5, <2>2
    <3> QED
      BY <1>2, <1>3, <1>4, <1>6, <3>1
  <2> QED
    BY <2>1, <2>2
<1> QED
  BY <1>4, <1>6, <1>7, <1>8, SeqEqual DEF a, w, v, p

\* What a task that answers calls does to the replies: some that were missing
\* come, each the result of a tool or an error.
OnlyAnswers(s) ==
  /\ sent' = [x \in Message |-> sent'[x]]
  /\ \A x \in Message : \/ sent'[x] = s[x]
                        \/ s[x] = <<>> /\ sent'[x] \in {<<"toolResult">>, <<"error">>}

\* ExecuteNextToolCall does no more than that, when no call of its queue has been
\* replied to.
LEMMA ExecuteNextAnswers ==
  ASSUME NEW q, NEW others, NEW s, ExecuteNextToolCall(q, others, s),
         \A i \in 1 .. Len(q) : s[q[i]] = <<>>, Len(q) \in Nat
  PROVE  OnlyAnswers(s)
<1>1. PICK k \in 0 .. Len(q) :
        sent' = [x \in Message |->
                   IF \E i \in 1 .. k : q[i] = x
                     THEN Append(s[x], CallOutcome(x)) ELSE s[x]]
  BY DEF ExecuteNextToolCall
<1>2. 1 .. k \subseteq 1 .. Len(q)
  BY <1>1
<1>3. /\ Append(<<>>, "toolResult") = <<"toolResult">>
      /\ Append(<<>>, "error") = <<"error">>
  OBVIOUS
<1>4. ASSUME NEW x \in Message
      PROVE  \/ sent'[x] = s[x]
             \/ s[x] = <<>> /\ sent'[x] \in {<<"toolResult">>, <<"error">>}
  <2>1. CASE \E i \in 1 .. k : q[i] = x
    <3>1. s[x] = <<>> /\ sent'[x] = Append(<<>>, CallOutcome(x))
      BY <1>1, <1>2, <2>1
    <3> QED
      BY <1>3, <3>1 DEF CallOutcome
  <2>2. CASE ~(\E i \in 1 .. k : q[i] = x)
    BY <1>1, <2>2
  <2> QED
    BY <2>1, <2>2
<1> QED
  BY <1>1, <1>4 DEF OnlyAnswers

\* When the line is acc, of which the first n had been answered, the task has
\* answered those of ToolService's pending calls that stand first in it.
LEMMA AnswersPending ==
  ASSUME NEW acc \in Seq(Message), accepted' = acc, IInv',
         NEW n \in 0 .. Len(acc),
         \A i \in 1 .. Len(acc) : sent[acc[i]] # <<>> <=> i <= n,
         \A i, j \in 1 .. Len(acc) : acc[i] = acc[j] => i = j,
         \A x \in Message : sent[x] # <<>> \/ (\E i \in 1 .. Len(acc) : acc[i] = x)
                              \/ x \notin received',
         OnlyAnswers(sent)
  PROVE  LET N == Answered(accepted, tool_call_queue, running)'
         IN  /\ N - n \in 0 .. Len(acc) - n
             /\ Service!Answer(Pending(acc, n), N - n)
<1>1. PICK N \in Nat, L \in Nat :
        /\ N = Answered(accepted, tool_call_queue, running)' /\ L = Len(acc) /\ N <= L
  <2>1. Len(accepted') = Len(acc) /\ Len(acc) \in Nat /\ Len(tool_call_queue') \in Nat
    BY DEF IInv, TypeOK
  <2>2. Answered(accepted, tool_call_queue, running)' \in Nat
    BY DEF IInv, Line, InLine
  <2>3. Answered(accepted, tool_call_queue, running)' <= Len(acc)
    BY <2>1, <2>2 DEF Answered
  <2> QED
    BY <2>1, <2>2, <2>3
<1>2. \A i \in 1 .. L : sent'[acc[i]] # <<>> <=> i <= N
  <2>1. \A i \in 1 .. Len(accepted') :
          sent'[accepted'[i]] # <<>>
            <=> i <= Answered(accepted, tool_call_queue, running)'
    BY DEF IInv, Line, InLine
  <2> QED
    BY <1>1, <2>1
<1>3. \A i \in 1 .. L : acc[i] \in Message
  BY <1>1
<1>4. n \in Nat /\ n <= L
  BY <1>1
<1>5. \A x \in Message : sent[x] # <<>> => sent'[x] = sent[x]
  BY DEF OnlyAnswers
<1>6. n <= N
  <2>1. CASE n = 0
    BY <1>1, <2>1
  <2>2. CASE n # 0
    <3>1. n \in 1 .. L
      BY <1>4, <2>2
    <3> QED
      BY <1>1, <1>2, <1>3, <1>5, <3>1
  <2> QED
    BY <2>1, <2>2
<1>7. PICK k \in Nat : k = N - n
  BY <1>1, <1>4, <1>6
<1>8. k <= L - n /\ k \in 0 .. Len(acc) - n /\ n + k = N
  BY <1>1, <1>4, <1>7
<1> DEFINE w == Pending(acc, n)
<1>9. /\ w \in Seq(Message)
      /\ \A i \in 1 .. L - n : w[i] = acc[n + i]
  BY <1>1, PendingElements
<1>10. Pending(acc, N) = SubSeq(w, k + 1, Len(w))
  BY <1>8, PendingRest
<1> HIDE DEF w
<1>11. \A i \in 1 .. k : n + i \in 1 .. L /\ n + i > n /\ n + i <= N /\ i \in 1 .. L - n
  BY <1>1, <1>4, <1>7, <1>8
\* Those answered are the first k, and nobody else got an answer.
<1>12. ASSUME NEW i \in 1 .. k
       PROVE  w[i] \in Message /\ sent'[w[i]] \in {<<"toolResult">>, <<"error">>}
  <2>1. w[i] = acc[n + i] /\ w[i] \in Message
    BY <1>3, <1>9, <1>11
  <2>2. ~(n + i <= n)
    BY <1>4
  <2>3. sent[w[i]] = <<>> /\ sent'[w[i]] # <<>>
    BY <1>1, <1>2, <1>11, <2>1, <2>2
  <2> QED
    BY <2>1, <2>3 DEF OnlyAnswers
<1>13. ASSUME NEW x \in Message, \A i \in 1 .. k : w[i] # x
       PROVE  sent'[x] = sent[x]
  <2> SUFFICES ASSUME sent'[x] # sent[x]
               PROVE  FALSE
    OBVIOUS
  <2>1. sent[x] = <<>> /\ sent'[x] # <<>>
    BY <1>5
  <2>2. x \in received'
    BY <2>1 DEF IInv, Line, InLine
  <2>3. PICK j \in 1 .. L : acc[j] = x
    BY <1>1, <2>1, <2>2
  <2>4. j <= N /\ ~(j <= n)
    BY <1>1, <1>2, <2>1, <2>3
  <2>5. j - n \in 1 .. k /\ j - n \in 1 .. L - n /\ n + (j - n) = j
    BY <1>1, <1>4, <1>7, <2>4
  <2> QED
    BY <1>9, <1>13, <2>3, <2>5
<1> DEFINE reply == [i \in 1 .. k |-> sent'[w[i]][1]]
<1>14. reply \in [1 .. k -> {"toolResult", "error"}]
  BY <1>12
<1>15. \A i \in 1 .. k : sent'[w[i]] = <<reply[i]>>
  BY <1>12
<1> HIDE DEF reply
<1>16. ASSUME NEW x \in Message
       PROVE  sent'[x] = IF \E i \in 1 .. k : w[i] = x
                           THEN <<reply[CHOOSE i \in 1 .. k : w[i] = x]>>
                           ELSE sent[x]
  <2>1. CASE \E i \in 1 .. k : w[i] = x
    <3>1. PICK c : c = CHOOSE i \in 1 .. k : w[i] = x
      OBVIOUS
    <3>2. c \in 1 .. k /\ w[c] = x
      BY <2>1, <3>1
    <3> QED
      BY <1>15, <2>1, <3>1, <3>2
  <2>2. CASE ~(\E i \in 1 .. k : w[i] = x)
    BY <1>13, <2>2
  <2> QED
    BY <2>1, <2>2
<1>17. sent' = [x \in Message |->
                  IF \E i \in 1 .. k : w[i] = x
                    THEN <<reply[CHOOSE i \in 1 .. k : w[i] = x]>>
                    ELSE sent[x]]
  BY <1>16 DEF OnlyAnswers
<1>18. Service!Answer(w, k)
  <2>1. SubSeq(accepted, Len(accepted) - Len(tool_call_queue)
                           - (IF running = {} THEN 0 ELSE 1) + 1, Len(accepted))'
          = SubSeq(w, k + 1, Len(w))
    BY <1>1, <1>10 DEF Pending, Answered
  <2> QED
    BY <1>14, <1>17, <2>1 DEF Service!Answer
<1> QED
  BY <1>1, <1>7, <1>8, <1>18 DEF w

\* A message just received is not among those pending.
LEMMA NotPending ==
  ASSUME IInv, NEW m \in Message, m \notin received
  PROVE  sent[m] = <<>> /\ ~Service!Waiting(m)
<1>1. PICK n \in Nat : n = Answered(accepted, tool_call_queue, running)
  BY DEF IInv, Line, InLine
<1>2. /\ accepted \in Seq(Message) /\ Len(accepted) \in Nat
      /\ Len(tool_call_queue) \in Nat /\ n \in 0 .. Len(accepted)
  <2>1. Len(accepted) \in Nat /\ Len(tool_call_queue) \in Nat
    BY DEF IInv, TypeOK
  <2>2. n <= Len(accepted)
    BY <1>1, <2>1 DEF Answered
  <2> QED
    BY <1>1, <2>1, <2>2 DEF IInv, TypeOK
<1> DEFINE w == Pending(accepted, n)
<1>3. /\ Len(w) = Len(accepted) - n
      /\ \A i \in 1 .. Len(accepted) - n : w[i] = accepted[n + i]
  BY <1>2, PendingElements
<1>4. \A i \in 1 .. Len(accepted) : accepted[i] \in received
  BY DEF IInv, Line, InLine
<1> HIDE DEF w
<1>5. \A i \in 1 .. Len(w) : w[i] # m
  <2> SUFFICES ASSUME NEW i \in 1 .. Len(w)
               PROVE  w[i] \in received
    OBVIOUS
  <2>1. n + i \in 1 .. Len(accepted) /\ i \in 1 .. Len(accepted) - n
    BY <1>2, <1>3
  <2> QED
    BY <1>3, <1>4, <2>1
<1>6. SubSeq(accepted, Len(accepted) - Len(tool_call_queue)
                         - (IF running = {} THEN 0 ELSE 1) + 1, Len(accepted)) = w
  BY <1>1 DEF w, Pending, Answered
<1>7. ~Service!Waiting(m)
  BY <1>5, <1>6 DEF Service!Waiting
<1>8. sent[m] = <<>>
  BY DEF IInv, Line, InLine
<1> QED
  BY <1>7, <1>8

\* A new dispatcher has nothing pending.
LEMMA InitService == Init => Service!Init
<1> SUFFICES ASSUME Init PROVE Service!Init
  OBVIOUS
<1>1. accepted = <<>> /\ Len(accepted) = 0 /\ Len(tool_call_queue) = 0 /\ running = {}
  BY DEF Init
<1>2. SubSeq(accepted, Len(accepted) - Len(tool_call_queue)
                         - (IF running = {} THEN 0 ELSE 1) + 1, Len(accepted)) = <<>>
  <2>1. Len(accepted) - Len(tool_call_queue) - (IF running = {} THEN 0 ELSE 1) + 1 = 1
    BY <1>1
  <2> QED
    BY <1>1, <2>1, SubSeqEmpty
<1> QED
  BY <1>2 DEF Service!Init, Init

\* A message answered at once.
LEMMA ControlService ==
  ASSUME IInv, NEW m \in Message, OnControlMessage(m)
  PROVE  Service!ReplyNow(m)
<1>1. m \notin received /\ UNCHANGED queueVars
  BY DEF OnControlMessage, Deliver
<1>2. sent[m] = <<>> /\ ~Service!Waiting(m)
  BY <1>1, NotPending
<1>3. PICK o \in {"nothing", "result", "error"} :
        /\ ~HasId[m] => o = "nothing"
        /\ sent' = [sent EXCEPT ![m] = Append(@, o)]
  BY DEF OnControlMessage, Send, Notification, ImmediateOutcome
<1>4. sent' = [sent EXCEPT ![m] = <<o>>]
  <2>1. Append(<<>>, o) = <<o>>
    OBVIOUS
  <2>2. sent' = [sent EXCEPT ![m] = Append(sent[m], o)]
    BY <1>3
  <2> QED
    BY <1>2, <2>1, <2>2
<1>5. UNCHANGED SubSeq(accepted, Len(accepted) - Len(tool_call_queue)
                                   - (IF running = {} THEN 0 ELSE 1) + 1, Len(accepted))
  BY <1>1 DEF queueVars
<1> QED
  BY <1>2, <1>3, <1>4, <1>5 DEF Service!ReplyNow

\* A call that joins the line, and those it may set going.
LEMMA CallService ==
  ASSUME IInv, NEW m \in Message, OnToolsCall(m)
  PROVE  Service!Call(m)
<1> DEFINE acc == Append(accepted, m)
           q == Append(tool_call_queue, m)
<1>1. /\ m \notin received /\ received' = received \cup {m}
      /\ accepted' = acc /\ HasId[m]
  BY DEF OnToolsCall, Deliver, Queued
<1>2. sent[m] = <<>> /\ ~Service!Waiting(m)
  BY <1>1, NotPending
<1>3. InLine(acc, q, running, sent, received')
  BY <1>1, EnqueueKeepsLine DEF IInv
<1>4. IInv'
  BY ToolsCallInv
<1>5. PICK n \in Nat : n = Answered(accepted, tool_call_queue, running)
  BY DEF IInv, Line, InLine
<1>6. /\ accepted \in Seq(Message) /\ tool_call_queue \in Seq(Message)
      /\ Len(accepted) \in Nat /\ Len(tool_call_queue) \in Nat
      /\ sent \in [Message -> Seq(Outcomes)]
  BY DEF IInv, TypeOK
<1>7. n \in 0 .. Len(accepted)
  BY <1>5, <1>6 DEF Answered
<1>8. /\ acc \in Seq(Message) /\ Len(acc) = Len(accepted) + 1
      /\ q \in Seq(Message) /\ Len(q) = Len(tool_call_queue) + 1
  BY <1>6
<1>9. n = Answered(acc, q, running) /\ n \in 0 .. Len(acc)
  BY <1>5, <1>6, <1>7, <1>8 DEF Answered
<1>10. OnlyAnswers(sent)
  <2>1. CASE tool_call_in_progress
    <3>1. sent' = sent
      BY <2>1 DEF OnToolsCall
    <3>2. sent = [x \in Message |-> sent[x]]
      BY <1>6
    <3> QED
      BY <3>1, <3>2 DEF OnlyAnswers
  <2>2. CASE ~tool_call_in_progress
    <3>1. ExecuteNextToolCall(q, running, sent)
      BY <2>2 DEF OnToolsCall
    <3>2. tool_call_queue = <<>>
      BY <2>2 DEF IInv, Busy, NoStrandedCall
    <3>3. Len(q) = 1 /\ q[1] = m
      BY <3>2
    <3> HIDE DEF q
    <3>4. \A i \in 1 .. Len(q) : sent[q[i]] = <<>>
      BY <1>2, <3>3
    <3>5. Len(q) \in Nat
      BY <3>3
    <3> QED
      BY <3>1, <3>4, <3>5, ExecuteNextAnswers
  <2> QED
    BY <2>1, <2>2
<1> HIDE DEF acc, q
<1>11. /\ \A i \in 1 .. Len(acc) : sent[acc[i]] # <<>> <=> i <= n
       /\ \A i, j \in 1 .. Len(acc) : acc[i] = acc[j] => i = j
       /\ \A x \in Message : sent[x] # <<>> \/ (\E i \in 1 .. Len(acc) : acc[i] = x)
                               \/ x \notin received'
  BY <1>3, <1>9 DEF InLine
<1>12. PICK k \in 0 .. Len(acc) - n : Service!Answer(Pending(acc, n), k)
  BY <1>1, <1>4, <1>8, <1>9, <1>10, <1>11, AnswersPending
<1> DEFINE w == Pending(accepted, n)
<1>13. Pending(acc, n) = Append(w, m)
  BY <1>6, <1>7, PendingAppend DEF acc
<1>14. w \in Seq(Message) /\ Len(w) = Len(accepted) - n
  BY <1>6, <1>7, PendingElements
<1> HIDE DEF w
<1>15. k \in 0 .. Len(w) + 1
  BY <1>6, <1>7, <1>8, <1>14
<1>16. SubSeq(accepted, Len(accepted) - Len(tool_call_queue)
                          - (IF running = {} THEN 0 ELSE 1) + 1, Len(accepted)) = w
  BY <1>5 DEF w, Pending, Answered
<1>17. \E j \in 0 .. Len(w) + 1 : Service!Answer(Append(w, m), j)
  BY <1>12, <1>13, <1>15
<1> QED
  BY <1>1, <1>2, <1>16, <1>17 DEF Service!Call

\* A handler's callback answers its call, and maybe some of those behind it.
LEMMA CompleteService ==
  ASSUME IInv, NEW m \in Message, OnToolCallComplete(m)
  PROVE  Service!Complete
<1> DEFINE s == [sent EXCEPT ![m] = Append(@, "toolResult")]
           n == Answered(accepted, tool_call_queue, running)
           L == Len(accepted)
           M == Len(tool_call_queue)
<1>1. /\ m \in running
      /\ ExecuteNextToolCall(tool_call_queue, running \ {m}, s)
      /\ accepted' = accepted /\ received' = received
  BY DEF OnToolCallComplete
<1>2. IInv'
  BY CompleteInv
<1>3. /\ accepted \in Seq(Message) /\ sent \in [Message -> Seq(Outcomes)]
      /\ L \in Nat /\ M \in Nat
  BY DEF IInv, TypeOK
<1>4. n \in Nat /\ n = L - M - 1 /\ n \in 0 .. L /\ n + 1 \in 1 .. L
  BY <1>1, <1>3 DEF IInv, Line, InLine, Answered
<1>5. m = accepted[n + 1]
  BY <1>1 DEF IInv, Line, InLine
<1>6. /\ \A i \in 1 .. L : sent[accepted[i]] # <<>> <=> i <= n
      /\ \A i, j \in 1 .. L : accepted[i] = accepted[j] => i = j
      /\ \A x \in received : sent[x] # <<>> \/ \E i \in 1 .. L : accepted[i] = x
      /\ \A i \in 1 .. M : tool_call_queue[i] = accepted[L - M + i]
      /\ \A i \in 1 .. L : accepted[i] \in Message
  BY <1>3 DEF IInv, Line, InLine
<1> HIDE DEF n
<1>7. sent[m] = <<>>
  <2>1. ~(n + 1 <= n)
    BY <1>4
  <2> QED
    BY <1>4, <1>5, <1>6, <2>1
<1>8. s[m] = <<"toolResult">> /\ \A x \in Message : x # m => s[x] = sent[x]
  BY <1>3, <1>7
<1> HIDE DEF s
<1>9. \A i \in 1 .. M : s[tool_call_queue[i]] = <<>>
  <2> SUFFICES ASSUME NEW i \in 1 .. M
               PROVE  s[tool_call_queue[i]] = <<>>
    OBVIOUS
  <2>1. PICK p : p = L - M + i
    OBVIOUS
  <2>2. p \in 1 .. L /\ ~(p <= n) /\ p # n + 1
    BY <1>3, <1>4, <2>1
  <2>3. tool_call_queue[i] = accepted[p]
    BY <1>6, <2>1
  <2>4. accepted[p] # m
    BY <1>4, <1>5, <1>6, <2>2
  <2>5. accepted[p] \in Message /\ sent[accepted[p]] = <<>>
    BY <1>6, <2>2
  <2> QED
    BY <1>8, <2>3, <2>4, <2>5
<1>10. OnlyAnswers(s)
  BY <1>1, <1>3, <1>9, ExecuteNextAnswers
<1>11. <<"toolResult">> # <<>>
  OBVIOUS
<1>12. OnlyAnswers(sent) /\ sent'[m] # <<>>
  BY <1>7, <1>8, <1>10, <1>11 DEF OnlyAnswers
<1>13. PICK N : N = Answered(accepted, tool_call_queue, running)'
  OBVIOUS
<1>14. N - n \in 0 .. L - n /\ Service!Answer(Pending(accepted, n), N - n)
  <2>1. \A x \in Message : sent[x] # <<>> \/ (\E i \in 1 .. L : accepted[i] = x)
                             \/ x \notin received'
    BY <1>1, <1>6
  <2> QED
    BY <1>1, <1>2, <1>3, <1>4, <1>6, <1>12, <1>13, <2>1, AnswersPending
<1>15. N \in Nat
  BY <1>2, <1>13 DEF IInv, Line, InLine
<1>16. n + 1 <= N
  <2>1. \A i \in 1 .. Len(accepted') : sent'[accepted'[i]] # <<>> <=> i <= N
    BY <1>2, <1>13 DEF IInv, Line, InLine
  <2> QED
    BY <1>1, <1>4, <1>5, <1>12, <2>1
<1>17. N - n \in 1 .. L - n
  BY <1>4, <1>14, <1>15, <1>16
<1> DEFINE w == Pending(accepted, n)
<1>18. Len(w) = L - n
  BY <1>3, <1>4, PendingElements
<1>19. SubSeq(accepted, Len(accepted) - Len(tool_call_queue)
                          - (IF running = {} THEN 0 ELSE 1) + 1, Len(accepted)) = w
  BY DEF n, Pending, Answered
<1>20. \E j \in 1 .. Len(w) : Service!Answer(w, j)
  BY <1>14, <1>17, <1>18
<1> HIDE DEF w
<1> QED
  BY <1>19, <1>20 DEF Service!Complete

\* The queue, the flag and the recursion implement ToolService: replies that
\* are not immediate come in the order of the calls, once each.
THEOREM Refinement == Spec => ImplementsToolService
<1>1. Init => Service!Init
  BY InitService
<1>2. IInv /\ [Next]_vars => [Service!Next]_(Service!vars)
  <2> SUFFICES ASSUME IInv, [Next]_vars
               PROVE  Service!Next \/ UNCHANGED Service!vars
    OBVIOUS
  <2>1. ASSUME NEW m \in Message, OnControlMessage(m)
        PROVE  Service!Next
    BY <2>1, ControlService DEF Service!Next
  <2>2. ASSUME NEW m \in Message, OnToolsCall(m)
        PROVE  Service!Next
    BY <2>2, CallService DEF Service!Next
  <2>3. ASSUME NEW m \in Message, OnToolCallComplete(m)
        PROVE  Service!Next
    BY <2>3, CompleteService DEF Service!Next
  <2>4. CASE OnTransportClosed \/ ShutDown \/ LoopExit \/ UNCHANGED vars
    <3>1. UNCHANGED <<tool_call_queue, running, accepted, sent>>
      BY <2>4 DEF OnTransportClosed, ShutDown, LoopExit, vars, queueVars
    <3> QED
      BY <3>1 DEF Service!vars
  <2> QED
    BY <2>1, <2>2, <2>3, <2>4 DEF Next
<1> QED
  BY <1>1, <1>2, Inductive, PTL DEF Spec, ImplementsToolService, Service!Spec
=============================================================================
