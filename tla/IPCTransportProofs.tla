-------------------------- MODULE IPCTransportProofs --------------------------
(***************************************************************************)
(* One client at a time, and answers that reach the client that asked, for *)
(* any clients and lines.  A client is known to SendResponse only by the   *)
(* number of its generation, so the argument is about what one generation  *)
(* is: a single client, from the accept that starts it to the last line    *)
(* and the last byte that came from it.  The second part is about what is  *)
(* read: every complete line is dispatched, once and in order, however the *)
(* bytes arrive.                                                           *)
(***************************************************************************)
EXTENDS IPCTransport, FiniteSetTheorems, SequenceTheorems, TLAPS

Piece == [client : Client, piece : Nat]
Line == [client : Client, line : Nat, gen : Nat]

Types ==
  /\ conn \in [Client -> {"new", "backlog", "open", "closed"}]
  /\ backlog \in Seq(Client)
  /\ written \in [Client -> Nat] /\ taken \in [Client -> Nat]
  /\ got \in [Client -> SUBSET Nat]
  /\ active \in Client \cup {NoClient}
  /\ generation \in Nat
  /\ buffer \in Seq(Piece)
  /\ dispatched \in Seq(Line)

\* Only the active client's connection is open, and those that wait to be
\* accepted wait once.
Connections ==
  /\ \A c \in Client : conn[c] = "open" <=> c = active
  /\ \A i \in DOMAIN backlog : conn[backlog[i]] = "backlog"
  /\ \A i, j \in DOMAIN backlog : backlog[i] = backlog[j] => i = j

\* The current generation is that of c: whatever is active, left in the buffer,
\* posted under its number or about to be received is c's.
GenerationOf(c) ==
  /\ active \in {c, NoClient}
  /\ \A i \in DOMAIN buffer : buffer[i].client = c
  /\ \A i \in DOMAIN dispatched : dispatched[i].gen = generation => dispatched[i].client = c
  /\ pc \in {"recv", "blocked"} => snapshot = c /\ c \in Client /\ snapshot_gen = generation

OneOwner == \E c \in Client \cup {NoClient} : GenerationOf(c)

\* No line is posted under a generation to come.
PostedSoFar == \A i \in DOMAIN dispatched : dispatched[i].gen <= generation

\* lock_ is held for as long as a send takes.
SendIsCurrent == main = "sending" => sending \in DOMAIN dispatched /\ Current(sending)

Answered ==
  \A c \in Client : \A i \in got[c] : i \in DOMAIN dispatched /\ dispatched[i].client = c

IInv ==
  /\ Types
  /\ Connections
  /\ OneOwner
  /\ PostedSoFar
  /\ SendIsCurrent
  /\ Answered

LEMMA InitEstablishes == Init => IInv
<1> SUFFICES ASSUME Init PROVE IInv
  OBVIOUS
<1>1. Types
  BY DEF Init, Types
<1>2. Connections
  BY BoundsAssumption DEF Init, Connections
<1>3. GenerationOf(NoClient)
  BY DEF Init, GenerationOf
<1>4. PostedSoFar /\ SendIsCurrent /\ Answered
  BY DEF Init, PostedSoFar, SendIsCurrent, Answered
<1> QED BY <1>1, <1>2, <1>3, <1>4 DEF IInv, OneOwner

-----------------------------------------------------------------------------
(* Lines.                                                                  *)

\* What is cut out of one client's stream is that client's, and comes after all
\* that was posted before.
LEMMA DispatchPosts ==
  ASSUME Types, NEW c \in Client, NEW g \in Nat, NEW b \in Seq(Piece),
         \A i \in DOMAIN b : b[i].client = c,
         Dispatch(b, g)
  PROVE  /\ buffer' \in Seq(Piece) /\ \A i \in DOMAIN buffer' : buffer'[i].client = c
         /\ dispatched' \in Seq(Line)
         /\ \A i \in DOMAIN dispatched :
              i \in DOMAIN dispatched' /\ dispatched'[i] = dispatched[i]
         /\ \A i \in DOMAIN dispatched' \ DOMAIN dispatched :
              dispatched'[i].client = c /\ dispatched'[i].gen = g
<1> DEFINE n == Cardinality(Parsed(b))
<1>1. Parsed(b) \subseteq DOMAIN b /\ Newlines(b) \subseteq DOMAIN b
  BY DEF Parsed, Newlines
<1>2. n \in Nat
  <2>1. IsFiniteSet(DOMAIN b)
    BY FS_Interval
  <2> QED BY <1>1, <2>1, FS_Subset, FS_CardinalityType
<1> HIDE DEF n
<1>3. PICK ends \in [1 .. n -> Parsed(b)], last \in Newlines(b) \cup {0} :
        /\ dispatched' = dispatched \o [k \in DOMAIN ends |-> LineAt(b, ends[k], g)]
        /\ buffer' = SubSeq(b, last + 1, Len(b))
  BY DEF Dispatch, n
<1> DEFINE new == [k \in DOMAIN ends |-> LineAt(b, ends[k], g)]
<1>4. ASSUME NEW k \in 1 .. n
      PROVE  /\ new[k] \in Line /\ new[k].client = c /\ new[k].gen = g
  <2>1. ends[k] \in DOMAIN b
    BY <1>1, <1>3
  <2>2. b[ends[k]] \in Piece /\ b[ends[k]].client = c
    BY <2>1
  <2>3. new[k] = LineAt(b, ends[k], g)
    BY <1>3
  <2> QED BY <2>2, <2>3 DEF LineAt, Line, Piece
<1>5. new \in Seq(Line) /\ Len(new) = n
  BY <1>2, <1>3, <1>4
<1>6. buffer' \in Seq(Piece) /\ \A i \in DOMAIN buffer' : buffer'[i].client = c
  <2>1. last \in 0 .. Len(b)
    BY <1>1
  <2>2. /\ buffer' \in Seq(Piece)
        /\ Len(buffer') = Len(b) - last
        /\ \A i \in 1 .. Len(b) - last : buffer'[i] = b[last + i]
    BY <1>3, <2>1
  <2>3. \A i \in 1 .. Len(b) - last : last + i \in DOMAIN b
    BY <2>1
  <2>4. DOMAIN buffer' = 1 .. Len(b) - last
    BY <2>2
  <2> QED BY <2>2, <2>3, <2>4
<1> HIDE DEF new
<1>7. dispatched \in Seq(Line) /\ dispatched' = dispatched \o new
  BY <1>3 DEF Types, new
<1>8. dispatched' \in Seq(Line) /\ Len(dispatched') = Len(dispatched) + n
  <2>1. dispatched \o new \in Seq(Line) /\ Len(dispatched \o new) = Len(dispatched) + Len(new)
    BY <1>5, <1>7, ConcatProperties
  <2> QED BY <1>5, <1>7, <2>1
<1>9. \A i \in 1 .. Len(dispatched) : dispatched'[i] = dispatched[i]
  BY <1>5, <1>7
<1>10. ASSUME NEW i \in DOMAIN dispatched' \ DOMAIN dispatched
       PROVE  dispatched'[i].client = c /\ dispatched'[i].gen = g
  <2>1. i - Len(dispatched) \in 1 .. n /\ dispatched'[i] = new[i - Len(dispatched)]
    BY <1>2, <1>5, <1>7, <1>8
  <2> QED BY <1>4, <2>1
<1> QED BY <1>2, <1>6, <1>7, <1>8, <1>9, <1>10

-----------------------------------------------------------------------------
(* Steps that leave the connections, the lines and the answers alone.      *)

LEMMA QuietKeeps ==
  ASSUME IInv,
         UNCHANGED <<conn, backlog, got, active, generation, buffer, dispatched, sending>>,
         written' \in [Client -> Nat], taken' \in [Client -> Nat],
         main' = main \/ main' # "sending",
         pc' \in {"recv", "blocked"} =>
           \/ pc \in {"recv", "blocked"} /\ UNCHANGED <<snapshot, snapshot_gen>>
           \/ snapshot' = active /\ active # NoClient /\ snapshot_gen' = generation
  PROVE  IInv'
<1>1. Types'
  BY DEF IInv, Types
<1>2. Connections'
  BY DEF IInv, Connections
<1>3. ASSUME NEW c \in Client \cup {NoClient}, GenerationOf(c) PROVE GenerationOf(c)'
  BY <1>3, BoundsAssumption DEF GenerationOf, IInv, Types
<1>4. OneOwner'
  BY <1>3 DEF IInv, OneOwner
<1>5. PostedSoFar' /\ SendIsCurrent' /\ Answered'
  BY DEF IInv, PostedSoFar, SendIsCurrent, Current, Answered
<1> QED BY <1>1, <1>2, <1>4, <1>5 DEF IInv

\* Every line carries the generation it was received in.
LEMMA GenTyped ==
  ASSUME Types PROVE \A i \in DOMAIN dispatched : dispatched[i].gen \in Nat
<1> SUFFICES ASSUME NEW i \in DOMAIN dispatched PROVE dispatched[i].gen \in Nat
  OBVIOUS
<1>1. dispatched \in Seq(Line) /\ i \in 1 .. Len(dispatched)
  BY DEF Types
<1>2. dispatched[i] \in Line
  BY <1>1, ElementOfSeq
<1> QED BY <1>2 DEF Line

\* A client that writes.
LEMMA WrittenTyped ==
  ASSUME Types, NEW c \in Client, written' = [written EXCEPT ![c] = @ + 1]
  PROVE  written' \in [Client -> Nat]
BY DEF Types

-----------------------------------------------------------------------------
(* The IPC thread.                                                         *)

\* A generation begins with an accept, with nothing of it anywhere yet.
LEMMA AcceptKeeps == ASSUME IInv, Accept PROVE IInv'
<1> USE DEF Accept
<1>1. CASE ~(listener_ready /\ backlog # <<>>)
  BY <1>1, QuietKeeps DEF pollVars, mainVars, clientVars, IInv, Types
<1>2. CASE listener_ready /\ backlog # <<>>
  <2> PICK c : c = Head(backlog)
    OBVIOUS
  <2>1. /\ c \in Client /\ c = backlog[1] /\ 1 \in DOMAIN backlog
        /\ \A i \in 1 .. Len(backlog) - 1 :
             i + 1 \in DOMAIN backlog /\ backlog'[i] = backlog[i + 1]
        /\ backlog' \in Seq(Client) /\ Len(backlog') = Len(backlog) - 1
    <3>1. backlog \in Seq(Client) /\ backlog # <<>> /\ backlog' = Tail(backlog)
      BY <1>2 DEF IInv, Types
    <3>2. /\ Head(backlog) \in Client /\ Tail(backlog) \in Seq(Client)
          /\ Len(Tail(backlog)) = Len(backlog) - 1
          /\ \A i \in 1 .. Len(Tail(backlog)) : Tail(backlog)[i] = backlog[i + 1]
      BY <3>1, HeadTailProperties
    <3>3. Len(backlog) \in Nat \ {0} /\ DOMAIN backlog = 1 .. Len(backlog)
      BY <3>1, EmptySeq
    <3>4. \A i \in 1 .. Len(backlog) - 1 : i + 1 \in 1 .. Len(backlog)
      BY <3>3
    <3>5. 1 \in DOMAIN backlog
      BY <3>3
    <3>6. Len(Tail(backlog)) = Len(backlog) - 1
      BY <3>2
    <3>7. \A i \in 1 .. Len(backlog) - 1 : backlog'[i] = backlog[i + 1]
      BY <3>1, <3>2, <3>6
    <3>8. \A i \in 1 .. Len(backlog) - 1 : i + 1 \in DOMAIN backlog
      BY <3>3, <3>4
    <3>9. c = backlog[1]
      BY <3>1
    <3> QED BY <3>1, <3>2, <3>5, <3>6, <3>7, <3>8, <3>9
  <2>2. DOMAIN backlog' = 1 .. Len(backlog) - 1
    BY <2>1
  <2>3. conn[c] = "backlog" /\ \A i \in DOMAIN backlog' : backlog'[i] # c
    <3>1. \A i \in DOMAIN backlog' : i + 1 # 1
      BY <2>2
    <3>2. \A i, j \in DOMAIN backlog : backlog[i] = backlog[j] => i = j
      BY DEF IInv, Connections
    <3>3. ASSUME NEW i \in DOMAIN backlog' PROVE backlog'[i] # c
      <4>1. backlog'[i] = backlog[i + 1] /\ i + 1 \in DOMAIN backlog
        BY <2>1, <2>2
      <4> QED BY <2>1, <3>1, <3>2, <4>1
    <3> QED BY <2>1, <3>3 DEF IInv, Connections
  <2>4. /\ \A i \in DOMAIN backlog' : conn[backlog'[i]] = "backlog"
        /\ \A i \in DOMAIN backlog' : backlog'[i] \in Client
    BY <2>1, <2>2 DEF IInv, Connections
  <2>5. \A i, j \in DOMAIN backlog' : backlog'[i] = backlog'[j] => i = j
    <3> SUFFICES ASSUME NEW i \in DOMAIN backlog', NEW j \in DOMAIN backlog',
                        backlog'[i] = backlog'[j]
                 PROVE  i = j
      OBVIOUS
    <3>1. i + 1 = j + 1
      BY <2>1, <2>2 DEF IInv, Connections
    <3> QED BY <2>2, <3>1
  <2>6. PostedSoFar'
    <3>1. generation' \in {generation, generation + 1} /\ generation \in Nat
      BY <1>2 DEF IInv, Types
    <3>2. \A i \in DOMAIN dispatched : dispatched[i].gen <= generation'
      BY <3>1, GenTyped DEF IInv, PostedSoFar
    <3> QED BY <3>2 DEF PostedSoFar
  <2>7. SendIsCurrent' /\ Answered'
    BY DEF IInv, SendIsCurrent, Answered, LockFree, mainVars, clientVars
  <2>8. CASE active # NoClient
    <3>1. conn' = [conn EXCEPT ![c] = "closed"] /\ UNCHANGED <<active, generation, buffer>>
      BY <1>2, <2>8
    <3>2. Types'
      BY <2>1, <3>1 DEF IInv, Types, clientVars
    <3>3. Connections'
      BY <2>1, <2>3, <2>4, <2>5, <3>1 DEF IInv, Types, Connections
    <3>4. OneOwner'
      BY <3>1 DEF IInv, OneOwner, GenerationOf
    <3> QED BY <2>6, <2>7, <3>2, <3>3, <3>4 DEF IInv
  <2>9. CASE active = NoClient
    <3>1. /\ conn' = [conn EXCEPT ![c] = "open"] /\ active' = c
          /\ generation' = generation + 1 /\ buffer' = <<>>
      BY <1>2, <2>9
    <3>2. Types'
      BY <2>1, <3>1 DEF IInv, Types, clientVars
    <3>3. Connections'
      BY <2>1, <2>3, <2>4, <2>5, <2>9, <3>1, BoundsAssumption DEF IInv, Types, Connections
    <3>4. \A i \in DOMAIN dispatched : dispatched[i].gen \in Nat /\ dispatched[i].gen <= generation
      BY GenTyped DEF IInv, PostedSoFar
    <3>5. \A i \in DOMAIN dispatched' : dispatched'[i].gen # generation'
      BY <3>1, <3>4 DEF IInv, Types
    <3>6. GenerationOf(c)'
      BY <2>1, <3>1, <3>5 DEF GenerationOf
    <3> QED BY <2>1, <2>6, <2>7, <3>2, <3>3, <3>6 DEF IInv, OneOwner
  <2> QED BY <2>8, <2>9
<1> QED BY <1>1, <1>2

\* The lines received are of the current generation, though its client may have
\* been closed since by a send that failed.
LEMMA ReceiveKeeps == ASSUME IInv, Receive PROVE IInv'
<1> USE DEF Receive
<1>1. PICK c \in Client \cup {NoClient} : GenerationOf(c)
  BY DEF IInv, OneOwner
<1>2. snapshot = c /\ c \in Client /\ snapshot_gen = generation
  BY <1>1 DEF GenerationOf
<1>3. PICK k \in 1 .. written[snapshot] - taken[snapshot] :
        /\ taken' = [taken EXCEPT ![snapshot] = @ + k]
        /\ Dispatch(buffer \o [j \in 1 .. k |-> [client |-> snapshot,
                                                 piece |-> taken[snapshot] + j]],
                    snapshot_gen)
  OBVIOUS
<1> DEFINE new == [j \in 1 .. k |-> [client |-> c, piece |-> taken[c] + j]]
           b == buffer \o new
<1>4. k \in Nat /\ taken[c] \in Nat
  BY <1>2 DEF IInv, Types
<1>5. new \in Seq(Piece) /\ Len(new) = k /\ \A j \in 1 .. k : new[j].client = c
  BY <1>2, <1>4 DEF Piece
<1>6. buffer \in Seq(Piece) /\ \A i \in DOMAIN buffer : buffer[i].client = c
  BY <1>1 DEF IInv, Types, GenerationOf
<1>7. Dispatch(b, generation)
  BY <1>2, <1>3
<1> HIDE DEF new
<1>8. b \in Seq(Piece) /\ \A i \in DOMAIN b : b[i].client = c
  <2>1. /\ b \in Seq(Piece) /\ Len(b) = Len(buffer) + Len(new)
        /\ \A i \in 1 .. Len(buffer) + Len(new) :
             b[i] = IF i <= Len(buffer) THEN buffer[i] ELSE new[i - Len(buffer)]
    <3>1. PICK p, q : p = buffer /\ q = new
      OBVIOUS
    <3>2. p \in Seq(Piece) /\ q \in Seq(Piece) /\ b = p \o q
      BY <1>5, <1>6, <3>1
    <3> HIDE DEF b
    <3> QED
      BY <3>1, <3>2, ConcatProperties
  <2>2. ASSUME NEW i \in 1 .. Len(buffer) + Len(new) PROVE b[i].client = c
    <3>1. CASE i <= Len(buffer)
      <4>1. b[i] = buffer[i]
        BY <2>1, <3>1
      <4>2. i \in DOMAIN buffer
        BY <1>6, <3>1
      <4> QED
        BY <1>6, <4>1, <4>2
    <3>2. CASE ~(i <= Len(buffer))
      <4>1. b[i] = new[i - Len(buffer)] /\ i - Len(buffer) \in 1 .. k
        BY <1>4, <1>5, <1>6, <2>1, <3>2
      <4> QED BY <1>5, <4>1
    <3> QED BY <3>1, <3>2
  <2> QED BY <2>1, <2>2
<1> HIDE DEF b
<1>9. /\ buffer' \in Seq(Piece) /\ \A i \in DOMAIN buffer' : buffer'[i].client = c
      /\ dispatched' \in Seq(Line)
      /\ \A i \in DOMAIN dispatched :
           i \in DOMAIN dispatched' /\ dispatched'[i] = dispatched[i]
      /\ \A i \in DOMAIN dispatched' \ DOMAIN dispatched :
           dispatched'[i].client = c /\ dispatched'[i].gen = generation
  BY <1>2, <1>7, <1>8, DispatchPosts DEF IInv, Types
<1>10. Types'
  BY <1>2, <1>3, <1>4, <1>9 DEF IInv, Types, clientVars, sharedVars
<1>11. Connections'
  BY DEF IInv, Connections, sharedVars
<1>12. GenerationOf(c)'
  BY <1>1, <1>9 DEF GenerationOf, sharedVars
<1>13. PostedSoFar'
  <2>1. \A i \in DOMAIN dispatched' : dispatched'[i].gen <= generation
    <3> SUFFICES ASSUME NEW i \in DOMAIN dispatched' PROVE dispatched'[i].gen <= generation
      OBVIOUS
    <3>1. CASE i \in DOMAIN dispatched
      BY <1>9, <3>1 DEF IInv, PostedSoFar
    <3>2. CASE i \notin DOMAIN dispatched
      <4>1. dispatched'[i].gen = generation /\ generation \in Nat
        BY <1>9, <3>2 DEF IInv, Types
      <4> QED BY <4>1
    <3> QED BY <3>1, <3>2
  <2> QED BY <2>1 DEF PostedSoFar, sharedVars
<1>14. SendIsCurrent' /\ Answered'
  BY <1>9 DEF IInv, SendIsCurrent, Current, Answered, sharedVars, mainVars, clientVars
<1> QED BY <1>10, <1>11, <1>12, <1>13, <1>14 DEF IInv, OneOwner

-----------------------------------------------------------------------------
(* Connections that end.                                                   *)

LEMMA CloseKeeps ==
  ASSUME IInv, CloseActive,
         UNCHANGED <<backlog, written, taken, got, generation, dispatched>>,
         buffer' \in {buffer, <<>>}, main' # "sending",
         pc' \in {"recv", "blocked"} => pc' = pc /\ UNCHANGED <<snapshot, snapshot_gen>>
  PROVE  IInv'
<1> USE DEF CloseActive
<1>1. Types'
  <2>1. buffer' \in Seq(Piece)
    BY EmptySeq DEF IInv, Types
  <2>2. conn' \in [Client -> {"new", "backlog", "open", "closed"}]
    BY DEF IInv, Types
  <2> QED BY <2>1, <2>2 DEF IInv, Types
<1>2. Connections'
  BY BoundsAssumption DEF IInv, Types, Connections
<1>3. ASSUME NEW c \in Client \cup {NoClient}, GenerationOf(c) PROVE GenerationOf(c)'
  BY <1>3 DEF GenerationOf
<1>4. OneOwner'
  BY <1>3 DEF IInv, OneOwner
<1>5. PostedSoFar' /\ SendIsCurrent' /\ Answered'
  BY DEF IInv, PostedSoFar, SendIsCurrent, Answered
<1> QED BY <1>1, <1>2, <1>4, <1>5 DEF IInv

\* A connection that had been closed already is noticed.
LEMMA EmptyBufferKeeps ==
  ASSUME IInv, buffer' = <<>>, pc' = "loop",
         UNCHANGED <<conn, backlog, written, taken, got, active, generation,
                     dispatched, main, sending>>
  PROVE  IInv'
<1>1. Types'
  BY EmptySeq DEF IInv, Types
<1>2. OneOwner'
  BY DEF IInv, OneOwner, GenerationOf
<1>3. Connections' /\ PostedSoFar' /\ SendIsCurrent' /\ Answered'
  BY DEF IInv, Connections, PostedSoFar, SendIsCurrent, Current, Answered
<1> QED BY <1>1, <1>2, <1>3 DEF IInv

LEMMA StopKeeps ==
  ASSUME IInv, RequestStopLocked,
         UNCHANGED <<written, taken, got, generation, buffer, dispatched, sending>>,
         main' # "sending",
         pc' \in {"recv", "blocked"} => pc' = pc /\ UNCHANGED <<snapshot, snapshot_gen>>
  PROVE  IInv'
<1> USE DEF RequestStopLocked
<1>1. Types'
  BY DEF IInv, Types
<1>2. Connections'
  BY BoundsAssumption DEF IInv, Types, Connections
<1>3. ASSUME NEW c \in Client \cup {NoClient}, GenerationOf(c) PROVE GenerationOf(c)'
  BY <1>3 DEF GenerationOf
<1>4. OneOwner'
  BY <1>3 DEF IInv, OneOwner
<1>5. PostedSoFar' /\ SendIsCurrent' /\ Answered'
  BY DEF IInv, PostedSoFar, SendIsCurrent, Answered
<1> QED BY <1>1, <1>2, <1>4, <1>5 DEF IInv

-----------------------------------------------------------------------------
(* Answers.                                                                *)

\* A response that is current goes to the client of the line it answers.
LEMMA WriteKeeps ==
  ASSUME IInv, NEW i, i \in DOMAIN dispatched, Current(i), Write(i),
         UNCHANGED <<backlog, written, taken, generation, buffer, dispatched, pc,
                     snapshot, snapshot_gen>>
  PROVE  IInv'
<1> USE DEF Write
<1>1. PICK c \in Client \cup {NoClient} : GenerationOf(c)
  BY DEF IInv, OneOwner
<1>2. active = c /\ dispatched[i].client = c /\ c \in Client
  BY <1>1 DEF GenerationOf, Current, IInv, Types
<1>3. i \in Nat
  BY DEF IInv, Types
<1>4. \/ CloseActive /\ UNCHANGED got
      \/ got' = [got EXCEPT ![c] = @ \cup {i}] /\ UNCHANGED <<active, conn>>
  BY <1>2
<1>5. main' = "idle"
  OBVIOUS
<1>6. CASE CloseActive /\ UNCHANGED got
  BY <1>5, <1>6, CloseKeeps
<1>7. CASE got' = [got EXCEPT ![c] = @ \cup {i}] /\ UNCHANGED <<active, conn>>
  <2>1. got' \in [Client -> SUBSET Nat]
    BY <1>2, <1>3, <1>7 DEF IInv, Types
  <2>2. Types'
    BY <1>7, <2>1 DEF IInv, Types
  <2>3. Connections' /\ GenerationOf(c)'
    BY <1>1, <1>7 DEF IInv, Connections, GenerationOf
  <2>4. PostedSoFar' /\ SendIsCurrent'
    BY <1>5 DEF IInv, PostedSoFar, SendIsCurrent
  <2>5. ASSUME NEW d \in Client, NEW j \in got'[d]
        PROVE  j \in DOMAIN dispatched' /\ dispatched'[j].client = d
    <3>1. j \in got[d] \/ (d = c /\ j = i)
      <4>1. got \in [Client -> SUBSET Nat]
        BY DEF IInv, Types
      <4>2. got'[d] = IF d = c THEN got[c] \cup {i} ELSE got[d]
        BY <1>2, <1>7, <4>1
      <4>3. j \in got'[d]
        OBVIOUS
      <4> QED BY <4>2, <4>3
    <3> QED BY <1>2, <3>1 DEF IInv, Answered
  <2> QED BY <2>2, <2>3, <2>4, <2>5 DEF IInv, OneOwner, Answered
<1> QED BY <1>4, <1>6, <1>7

\* The main thread answers a line: it finds the connection by its generation.
LEMMA SendResponseKeeps ==
  ASSUME IInv, NEW i \in DOMAIN dispatched, SendResponse(i) PROVE IInv'
<1> USE DEF SendResponse, pollVars
<1>1. CASE ~Current(i)
  BY <1>1, QuietKeeps DEF IInv, Types
<1>2. CASE Current(i) /\ Write(i)
  BY <1>2, WriteKeeps
<1>3. CASE main' = "sending" /\ sending' = i /\ Current(i) /\ UNCHANGED <<active, conn, unread, got>>
  <2>1. Types' /\ Connections'
    BY <1>3 DEF IInv, Types, Connections
  <2>2. OneOwner' /\ PostedSoFar' /\ Answered'
    BY <1>3 DEF IInv, OneOwner, GenerationOf, PostedSoFar, Answered
  <2>3. SendIsCurrent'
    BY <1>3 DEF SendIsCurrent, Current
  <2> QED BY <2>1, <2>2, <2>3 DEF IInv
<1> QED BY <1>1, <1>2, <1>3

-----------------------------------------------------------------------------
(* Clients.                                                                *)

\* A client joins the listener's backlog.
LEMMA ConnectKeeps == ASSUME IInv, NEW c \in Client, Connect(c) PROVE IInv'
<1> USE DEF Connect, clientVars, sharedVars, pollVars, mainVars
<1>1. backlog \in Seq(Client) /\ backlog' = Append(backlog, c)
  BY DEF IInv, Types
<1>2. /\ backlog' \in Seq(Client)
      /\ Len(backlog') = Len(backlog) + 1
      /\ \A i \in 1 .. Len(backlog) : backlog'[i] = backlog[i]
      /\ backlog'[Len(backlog) + 1] = c
  BY <1>1, AppendProperties
<1>3. Len(backlog) \in Nat /\ DOMAIN backlog = 1 .. Len(backlog)
  BY <1>1, LenProperties
<1>4. \A i \in DOMAIN backlog' : i \in DOMAIN backlog \/ i = Len(backlog) + 1
  BY <1>2, <1>3
<1>5. \A i \in DOMAIN backlog : conn[backlog[i]] = "backlog" /\ backlog[i] # c
  BY DEF IInv, Connections
<1>6. conn' = [conn EXCEPT ![c] = "backlog"] /\ conn[c] = "new"
  OBVIOUS
<1>7. Types'
  BY <1>2 DEF IInv, Types
<1>8. \A i \in DOMAIN backlog' : conn'[backlog'[i]] = "backlog"
  <2> SUFFICES ASSUME NEW i \in DOMAIN backlog' PROVE conn'[backlog'[i]] = "backlog"
    OBVIOUS
  <2>1. CASE i \in DOMAIN backlog
    <3>1. backlog'[i] = backlog[i] /\ backlog[i] \in Client
      BY <1>1, <1>2, <1>3, <2>1, ElementOfSeq
    <3> QED BY <1>5, <1>6, <2>1, <3>1 DEF IInv, Types
  <2>2. CASE i = Len(backlog) + 1
    BY <1>2, <1>6, <2>2 DEF IInv, Types
  <2> QED BY <1>4, <2>1, <2>2
<1>9. \A i, j \in DOMAIN backlog' : backlog'[i] = backlog'[j] => i = j
  <2> SUFFICES ASSUME NEW i \in DOMAIN backlog', NEW j \in DOMAIN backlog',
                      backlog'[i] = backlog'[j]
               PROVE  i = j
    OBVIOUS
  <2>1. \A n \in DOMAIN backlog : backlog'[n] = backlog[n] /\ backlog'[n] # c
    BY <1>2, <1>3, <1>5
  <2>2. CASE i \in DOMAIN backlog /\ j \in DOMAIN backlog
    BY <2>1, <2>2 DEF IInv, Connections
  <2>3. CASE i = Len(backlog) + 1 \/ j = Len(backlog) + 1
    BY <1>2, <1>4, <2>1, <2>3
  <2> QED BY <1>4, <2>2, <2>3
<1>10. \A d \in Client : conn'[d] = "open" <=> d = active'
  BY <1>6 DEF IInv, Types, Connections
<1>11. OneOwner' /\ PostedSoFar' /\ SendIsCurrent' /\ Answered'
  BY DEF IInv, OneOwner, GenerationOf, PostedSoFar, SendIsCurrent, Current, Answered
<1> QED BY <1>7, <1>8, <1>9, <1>10, <1>11 DEF IInv, Connections

-----------------------------------------------------------------------------
\* What the theorems below rest on: the parts of IInv, together, hold from the
\* first state and over every step of the clients, the IPC thread and the main
\* thread.
THEOREM Inductive == Spec => []IInv
<1>1. IInv /\ [Next]_vars => IInv'
  <2> SUFFICES ASSUME IInv, [Next]_vars PROVE IInv'
    OBVIOUS
  <2> USE DEF clientVars, sharedVars, pollVars, mainVars
  <2>1. written \in [Client -> Nat] /\ taken \in [Client -> Nat]
    BY DEF IInv, Types
  <2>2. CASE IPCThread
    <3>1. CASE Snapshot \/ Poll \/ LookAgain \/ ReceiveBlocks
      BY <2>1, <3>1, QuietKeeps
      DEF Snapshot, Poll, LookAgain, ReceiveBlocks
    <3>2. CASE Accept \/ Receive
      BY <3>2, AcceptKeeps, ReceiveKeeps
    <3>3. CASE ReceiveEnds
      <4>1. CASE active = snapshot
        BY <3>3, <4>1, CloseKeeps DEF ReceiveEnds, LockFree
      <4>2. CASE active # snapshot
        BY <3>3, <4>2, EmptyBufferKeeps DEF ReceiveEnds
      <4> QED BY <4>1, <4>2
    <3>4. CASE Exit
      BY <3>4, StopKeeps DEF Exit, LockFree
    <3> QED BY <2>2, <3>1, <3>2, <3>3, <3>4 DEF IPCThread
  <2>3. CASE MainThread
    <3>1. CASE SendGoesOn
      BY <3>1, WriteKeeps DEF SendGoesOn, IInv, SendIsCurrent
    <3>2. CASE Destroy
      BY <3>2, StopKeeps DEF Destroy
    <3>3. CASE Joined
      BY <2>1, <3>3, QuietKeeps DEF Joined
    <3>4. CASE \E i \in DOMAIN dispatched : SendResponse(i)
      BY <3>4, SendResponseKeeps
    <3> QED BY <2>3, <3>1, <3>2, <3>3, <3>4 DEF MainThread
  <2>4. ASSUME NEW c \in Client, ClientStep(c) PROVE IInv'
    <3>1. CASE Connect(c)
      BY <3>1, ConnectKeeps
    <3>2. CASE WritePiece(c)
      BY <2>1, <3>2, WrittenTyped, QuietKeeps DEF WritePiece, IInv
    <3>3. CASE ReadResponse(c) \/ HangUp(c)
      BY <2>1, <3>3, QuietKeeps DEF ReadResponse, HangUp
    <3> QED BY <2>4, <3>1, <3>2, <3>3 DEF ClientStep
  <2>5. CASE UNCHANGED vars
    BY <2>1, <2>5, QuietKeeps DEF vars
  <2> QED BY <2>2, <2>3, <2>4, <2>5 DEF Next
<1> QED BY <1>1, InitEstablishes, PTL DEF Spec

\* However clients come and go and whichever thread closes them, a connection
\* is open exactly while it is the active client.
THEOREM OneAtATime == Spec => []OneActiveClient
<1>1. IInv => OneActiveClient
  BY BoundsAssumption DEF IInv, Types, Connections, OneActiveClient
<1> QED BY <1>1, Inductive, PTL

\* The generation that SendResponse compares is enough: an answer is written to
\* the client whose line it answers, or to none.
THEOREM AnsweredToAsker == Spec => []AnswersReachTheAsker
<1>1. IInv => AnswersReachTheAsker
  BY DEF IInv, Answered, AnswersReachTheAsker
<1> QED BY <1>1, Inductive, PTL

-----------------------------------------------------------------------------
(* Lines and streams.  Pieces come in pairs, and the buffer never holds a  *)
(* pair: at most the first piece of the line that is being received.       *)

\* What is left of a stream of which n pieces have been received.
Rest(c, n) == IF n % 2 = 0 THEN <<>> ELSE <<[client |-> c, piece |-> n]>>

\* The client the IPC thread receives from, or will.
Reading(c) == active = c \/ (pc \in {"recv", "blocked"} /\ snapshot = c)

\* The buffer holds the rest of the stream that is being read.
RestInBuffer == \A c \in Client : Reading(c) => buffer = Rest(c, taken[c])

\* Nothing is received from a connection that is not accepted.
NotYetTaken ==
  \A c \in Client : conn[c] \in {"new", "backlog"} => taken[c] = 0 /\ ~Reading(c)

Streams == RestInBuffer /\ NotYetTaken /\ EveryLineDispatched

\* The k pieces of c after the first n.
Pieces(c, n, k) == [j \in 1 .. k |-> [client |-> c, piece |-> n + j]]

\* Lines of c, after the first h.
LinesAfter(c, h, m, e, g) == [k \in 1 .. m |-> [client |-> c, line |-> h + e[k], gen |-> g]]

\* The lines of c that a step dispatches are its e[1], e[2], ... after the
\* first h, and these are all of its next n.
Posted(c, h, m, n, e) ==
  /\ h = taken[c] \div 2
  /\ taken'[c] \div 2 = h + n
  /\ \A d \in Client \ {c} : taken'[d] = taken[d]
  /\ dispatched' = dispatched \o LinesAfter(c, h, m, e, snapshot_gen)
  /\ \A j, k \in 1 .. m : j < k => e[j] < e[k]
  /\ \A i \in 1 .. n : \E k \in 1 .. m : e[k] = i

\* Halves and remainders.
LEMMA Halves ==
  ASSUME NEW h \in Nat, NEW i \in Nat
  PROVE  /\ (2 * h + i) % 2 = i % 2
         /\ (2 * h + i) \div 2 = h + i \div 2
         /\ i % 2 = 0 => i = 2 * (i \div 2)
         /\ i % 2 # 0 => i = 2 * (i \div 2) + 1 /\ i % 2 = 1
         /\ i \div 2 \in Nat
OBVIOUS

\* A piece is its client and its number.
LEMMA PieceIs ==
  ASSUME NEW p \in Piece, NEW c, NEW n, p.client = c, p.piece = n
  PROVE  p = [client |-> c, piece |-> n]
BY DEF Piece

\* The lines of a stream that begins between two lines.
LEMMA EvenEnds ==
  ASSUME NEW c \in Client, NEW h \in Nat, NEW b \in Seq(Piece),
         \A i \in 1 .. Len(b) : b[i].client = c /\ b[i].piece = 2 * h + i
  PROVE  /\ Newlines(b) = {i \in 1 .. Len(b) : i % 2 = 0}
         /\ Parsed(b) = Newlines(b)
<1>1. \A i \in 1 .. Len(b) : b[i].piece % 2 = i % 2
  <2> SUFFICES ASSUME NEW i \in 1 .. Len(b) PROVE (2 * h + i) % 2 = i % 2
    OBVIOUS
  <2>1. i \in Nat
    OBVIOUS
  <2> QED
    BY <2>1, Halves
<1>2. Newlines(b) = {i \in 1 .. Len(b) : i % 2 = 0}
  BY <1>1 DEF Newlines
<1>3. ASSUME NEW i \in Newlines(b)
      PROVE  /\ i = 2 \/ i - 2 \in Newlines(b)
             /\ b[i - 1] = [client |-> b[i].client, piece |-> b[i].piece - 1]
  <2>1. i \in 1 .. Len(b) /\ i % 2 = 0 /\ Len(b) \in Nat
    BY <1>2
  <2>2. i # 1
    BY <2>1
  <2>3. i = 2 \/ (i - 2 \in 1 .. Len(b) /\ (i - 2) % 2 = 0)
    BY <2>1, <2>2
  <2>4. i - 1 \in 1 .. Len(b)
    BY <2>1, <2>2
  <2>5. /\ b[i - 1].client = b[i].client /\ b[i - 1].piece = b[i].piece - 1
    <3>1. PICK j \in 1 .. Len(b) : j = i - 1
      BY <2>4
    <3>2. /\ b[j].client = c /\ b[j].piece = 2 * h + j
          /\ b[i].client = c /\ b[i].piece = 2 * h + i
      BY <2>1
    <3>3. 2 * h + j = (2 * h + i) - 1
      BY <2>1, <3>1
    <3> QED
      BY <3>1, <3>2, <3>3
  <2>6. b[i - 1] \in Piece
    BY <2>4
  <2> QED
    BY <1>2, <2>3, <2>5, <2>6, PieceIs
<1> QED
  BY <1>2, <1>3 DEF Parsed

\* The part of a sequence that is one element.
LEMMA OneOf ==
  ASSUME NEW D, NEW b \in Seq(D), NEW i \in 1 .. Len(b)
  PROVE  SubSeq(b, i, i) = <<b[i]>>
<1>1. /\ SubSeq(b, i, i) \in Seq(D) /\ Len(SubSeq(b, i, i)) = 1
      /\ SubSeq(b, i, i)[1] = b[i]
  BY SubSeqProperties
<1> DEFINE t == SubSeq(b, i, i)
           x == b[i]
<1>2. x \in D
  BY ElementOfSeq
<1>3. t \in Seq(D) /\ Len(t) = 1 /\ t[1] = x
  BY <1>1
<1> HIDE DEF t, x
<1>4. t = <<x>>
  BY <1>2, <1>3
<1> QED
  BY <1>4 DEF t, x

\* All of them are cut off and posted, in order.
LEMMA DispatchLines ==
  ASSUME Types, NEW c \in Client, snapshot_gen \in Nat, NEW h \in Nat, NEW b \in Seq(Piece),
         \A i \in 1 .. Len(b) : b[i].client = c /\ b[i].piece = 2 * h + i,
         Dispatch(b, snapshot_gen)
  PROVE  /\ buffer' = Rest(c, 2 * h + Len(b))
         /\ \E m \in Nat : \E e \in [1 .. m -> 1 .. Len(b) \div 2] :
              /\ dispatched' = dispatched \o LinesAfter(c, h, m, e, snapshot_gen)
              /\ \A j, k \in 1 .. m : j < k => e[j] < e[k]
              /\ \A n \in 1 .. Len(b) \div 2 : \E k \in 1 .. m : e[k] = n
<1>1. /\ Newlines(b) = {i \in 1 .. Len(b) : i % 2 = 0}
      /\ Parsed(b) = Newlines(b) /\ Len(b) \in Nat
  <2>1. Len(b) \in Nat
    OBVIOUS
  <2> QED
    BY <2>1, EvenEnds, Zenon
<1> DEFINE m == Cardinality(Parsed(b))
<1>2. IsFiniteSet(Parsed(b)) /\ m \in Nat
  <2>1. IsFiniteSet(1 .. Len(b)) /\ Parsed(b) \in SUBSET (1 .. Len(b))
    BY <1>1, FS_Interval
  <2> QED
    BY <2>1, FS_Subset, FS_CardinalityType
<1>3. PICK ends \in [1 .. m -> Parsed(b)], last \in Newlines(b) \cup {0} :
        /\ \A j, k \in DOMAIN ends : j < k => ends[j] < ends[k]
        /\ \A i \in Newlines(b) : i <= last
        /\ dispatched' = dispatched \o [k \in DOMAIN ends |-> LineAt(b, ends[k], snapshot_gen)]
        /\ buffer' = SubSeq(b, last + 1, Len(b))
  BY DEF Dispatch
<1>3a. /\ \A j, k \in 1 .. m : j < k => ends[j] < ends[k]
       /\ \A k \in 1 .. m : ends[k] \in Nat
  <2>1. DOMAIN ends = 1 .. m /\ \A k \in 1 .. m : ends[k] \in Parsed(b)
    BY <1>3
  <2>2. \A i \in Parsed(b) : i \in Nat
    BY <1>1
  <2>3. \A k \in 1 .. m : ends[k] \in Nat
    BY <2>1, <2>2
  <2>4. \A j, k \in 1 .. m : j < k => ends[j] < ends[k]
    <3> HIDE DEF m
    <3> QED
      BY <1>3, <2>1
  <2> QED
    BY <2>3, <2>4
<1>4. Cardinality(1 .. m) = m /\ IsFiniteSet(1 .. m)
  <2> HIDE DEF m
  <2> QED
    BY <1>2, FS_Interval
<1> HIDE DEF m
<1>5. \A i \in Parsed(b) : \E k \in 1 .. m : ends[k] = i
  <2>2. \A j, k \in 1 .. m : ends[j] = ends[k] => j = k
    <3> SUFFICES ASSUME NEW j \in 1 .. m, NEW k \in 1 .. m, ends[j] = ends[k]
                 PROVE  j = k
      OBVIOUS
    <3>1. ~(j < k) /\ ~(k < j)
      <4>1. PICK n \in Nat : ends[j] = n /\ ends[k] = n
        BY <1>3a
      <4>2. ~(n < n)
        BY <4>1
      <4> QED
        BY <1>3a, <4>1, <4>2
    <3> QED
      BY <1>2, <3>1
  <2>3. ends \in Injection(1 .. m, Parsed(b))
    BY <1>3, <2>2 DEF Injection, IsInjective
  <2>4. ends \in Surjection(1 .. m, Parsed(b))
    BY <1>2, <1>4, <2>3, FS_Injection DEF m
  <2> QED
    BY <2>4 DEF Surjection
<1> DEFINE e == [k \in 1 .. m |-> ends[k] \div 2]
<1>6. ASSUME NEW k \in 1 .. m
      PROVE  /\ ends[k] \in 1 .. Len(b) /\ ends[k] % 2 = 0 /\ ends[k] = 2 * (ends[k] \div 2)
             /\ ends[k] \div 2 \in 1 .. Len(b) \div 2
             /\ LineAt(b, ends[k], snapshot_gen) = [client |-> c, line |-> h + (ends[k] \div 2), gen |-> snapshot_gen]
  <2>1. ends[k] \in 1 .. Len(b) /\ ends[k] % 2 = 0
    BY <1>1, <1>3
  <2>2. ends[k] = 2 * (ends[k] \div 2) /\ (2 * h + ends[k]) \div 2 = h + (ends[k] \div 2)
    <3>1. PICK i \in Nat : i = ends[k]
      BY <2>1
    <3>2. i % 2 = 0
      BY <2>1, <3>1
    <3>3. i = 2 * (i \div 2) /\ (2 * h + i) \div 2 = h + (i \div 2)
      BY <3>2, Halves
    <3> QED
      BY <3>1, <3>3
  <2>3. ends[k] \div 2 \in 1 .. Len(b) \div 2
    BY <1>1, <2>1
  <2>4. b[ends[k]].client = c /\ b[ends[k]].piece = 2 * h + ends[k]
    BY <2>1
  <2> QED
    BY <2>1, <2>2, <2>3, <2>4 DEF LineAt
<1>7. e \in [1 .. m -> 1 .. Len(b) \div 2]
  BY <1>6
<1>8. dispatched' = dispatched \o LinesAfter(c, h, m, e, snapshot_gen)
  <2>1. [k \in DOMAIN ends |-> LineAt(b, ends[k], snapshot_gen)] = LinesAfter(c, h, m, e, snapshot_gen)
    BY <1>3, <1>6 DEF LinesAfter
  <2> QED
    BY <1>3, <2>1
<1>9. \A j, k \in 1 .. m : j < k => e[j] < e[k]
  <2> SUFFICES ASSUME NEW j \in 1 .. m, NEW k \in 1 .. m, j < k PROVE e[j] < e[k]
    OBVIOUS
  <2>1. PICK x \in Nat, y \in Nat : x = ends[j] /\ y = ends[k]
    BY <1>3a
  <2>2. x < y /\ x % 2 = 0 /\ y % 2 = 0
    BY <1>3a, <1>6, <2>1
  <2>3. x \div 2 < y \div 2
    BY <2>2
  <2> QED
    BY <2>1, <2>3
<1>10. ASSUME NEW n \in 1 .. Len(b) \div 2 PROVE \E k \in 1 .. m : e[k] = n
  <2>1. 2 * n \in 1 .. Len(b) /\ (2 * n) % 2 = 0 /\ (2 * n) \div 2 = n
    BY <1>1
  <2>2. PICK k \in 1 .. m : ends[k] = 2 * n
    BY <1>1, <1>5, <2>1
  <2> QED
    BY <2>1, <2>2
<1>11. buffer' = Rest(c, 2 * h + Len(b))
  <2>1. last \in 0 .. Len(b) /\ last % 2 = 0
    BY <1>1, <1>3
  <2>2. Len(b) - last <= 1
    <3> SUFFICES ASSUME Len(b) - last >= 2 PROVE FALSE
      BY <1>1, <2>1
    <3>1. last + 2 \in 1 .. Len(b) /\ (last + 2) % 2 = 0
      BY <1>1, <2>1
    <3>2. last + 2 <= last
      BY <1>1, <1>3, <3>1
    <3> QED
      BY <2>1, <3>2
  <2>3. CASE last = Len(b)
    <3>1. (2 * h + Len(b)) % 2 = 0
      BY <1>1, <2>1, <2>3, Halves
    <3>2. buffer' = <<>>
      BY <1>1, <1>3, <2>3, SubSeqEmpty
    <3> QED
      BY <3>1, <3>2 DEF Rest
  <2>4. CASE last # Len(b)
    <3>1. Len(b) = last + 1
      BY <1>1, <2>1, <2>2, <2>4
    <3>2. Len(b) % 2 = 1
      <4>1. PICK x \in Nat : x = last
        BY <2>1
      <4>2. x % 2 = 0
        BY <2>1, <4>1
      <4>3. (x + 1) % 2 = 1
        BY <4>2
      <4> QED
        BY <3>1, <4>1, <4>3
    <3>3. (2 * h + Len(b)) % 2 # 0
      BY <1>1, <3>2, Halves
    <3>4. buffer' = SubSeq(b, Len(b), Len(b)) /\ Len(b) \in 1 .. Len(b)
      BY <1>1, <1>3, <2>1, <3>1
    <3>5. buffer' = <<b[Len(b)]>>
      <4>1. \A i \in 1 .. Len(b) : SubSeq(b, i, i) = <<b[i]>>
        BY OneOf
      <4> QED
        BY <3>4, <4>1
    <3>6. b[Len(b)] = [client |-> c, piece |-> 2 * h + Len(b)]
      BY <3>4, PieceIs
    <3> QED
      BY <3>3, <3>5, <3>6 DEF Rest
  <2> QED
    BY <2>3, <2>4
<1> HIDE DEF e
<1> QED
  BY <1>2, <1>7, <1>8, <1>9, <1>10, <1>11

\* A step that receives nothing, and after which nothing is read that was not.
LEMMA QuietStreams ==
  ASSUME Streams, UNCHANGED <<taken, dispatched>>,
         \A c \in Client : Reading(c)' => Reading(c) /\ buffer' = buffer,
         \A c \in Client : conn'[c] \in {"new", "backlog"} => conn[c] \in {"new", "backlog"}
  PROVE  Streams'
<1>1. RestInBuffer'
  BY DEF Streams, RestInBuffer
<1>2. NotYetTaken'
  BY DEF Streams, NotYetTaken
<1>3. EveryLineDispatched'
  BY DEF Streams, EveryLineDispatched
<1> QED
  BY <1>1, <1>2, <1>3 DEF Streams

\* The IPC thread and one that closes the connection leave the rest where it is.
LEMMA StillReading ==
  ASSUME active' \in {active, NoClient},
         pc' \in {"recv", "blocked"} =>
           \/ pc \in {"recv", "blocked"} /\ snapshot' = snapshot
           \/ snapshot' = active,
         NEW c \in Client, Reading(c)'
  PROVE  Reading(c)
BY BoundsAssumption DEF Reading

\* A new connection begins with an empty buffer, and nothing of it is taken.
LEMMA AcceptStreams ==
  ASSUME IInv, Streams, Accept PROVE Streams'
<1> USE DEF Accept, pollVars, mainVars, clientVars
<1>1. CASE UNCHANGED <<conn, active, buffer>>
  BY <1>1, QuietStreams, StillReading
<1>2. CASE listener_ready /\ backlog # <<>>
  <2> PICK c : c = Head(backlog)
    OBVIOUS
  <2>1. c \in Client /\ conn[c] = "backlog"
    <3>1. c = backlog[1] /\ 1 \in DOMAIN backlog /\ c \in Client
      BY <1>2, HeadTailProperties, EmptySeq DEF IInv, Types
    <3> QED
      BY <3>1 DEF IInv, Connections
  <2>2. conn \in [Client -> {"new", "backlog", "open", "closed"}]
    BY DEF IInv, Types
  <2>3. CASE active # NoClient
    <3>1. conn' = [conn EXCEPT ![c] = "closed"] /\ UNCHANGED <<active, buffer>>
      BY <1>2, <2>3
    <3>2. \A d \in Client : conn'[d] \in {"new", "backlog"} => conn[d] \in {"new", "backlog"}
      BY <2>1, <2>2, <3>1
    <3> QED
      BY <3>1, <3>2, QuietStreams, StillReading
  <2>4. CASE active = NoClient
    <3>1. conn' = [conn EXCEPT ![c] = "open"] /\ active' = c /\ buffer' = <<>>
      BY <1>2, <2>4
    <3>2. \A d \in Client : Reading(d)' => d = c
      BY <3>1 DEF Reading
    <3>3. taken[c] = 0
      BY <2>1 DEF Streams, NotYetTaken
    <3>4. RestInBuffer'
      BY <3>1, <3>2, <3>3 DEF RestInBuffer, Rest
    <3>5. \A d \in Client : conn'[d] \in {"new", "backlog"}
                              => d # c /\ conn[d] \in {"new", "backlog"}
      BY <2>1, <2>2, <3>1
    <3>6. NotYetTaken'
      BY <3>2, <3>5 DEF Streams, NotYetTaken
    <3>7. EveryLineDispatched'
      BY DEF Streams, EveryLineDispatched
    <3> QED
      BY <3>4, <3>6, <3>7 DEF Streams
  <2> QED
    BY <2>3, <2>4
<1> QED
  BY <1>1, <1>2

\* The half of n, and what is left of a stream of n pieces.
LEMMA RestOf ==
  ASSUME NEW c \in Client, NEW n \in Nat
  PROVE  LET r == Rest(c, n)
             h == n \div 2
         IN  /\ r \in Seq(Piece) /\ h \in Nat /\ Len(r) \in {0, 1} /\ n = 2 * h + Len(r)
             /\ \A i \in 1 .. Len(r) : r[i].client = c /\ r[i].piece = 2 * h + i
<1> DEFINE h == n \div 2
<1>1. h \in Nat
  OBVIOUS
<1>2. CASE n % 2 = 0
  <2>1. n = 2 * h
    BY <1>2
  <2>2. Rest(c, n) = <<>>
    BY <1>2 DEF Rest
  <2> QED
    BY <1>1, <2>1, <2>2
<1>3. CASE n % 2 # 0
  <2>1. n = 2 * h + 1
    BY <1>3
  <2> DEFINE x == [client |-> c, piece |-> n]
  <2>2. x \in Piece /\ x.client = c /\ x.piece = n
    BY DEF Piece
  <2>3. Rest(c, n) = <<x>>
    BY <1>3 DEF Rest
  <2> HIDE DEF x, h
  <2>4. <<x>> \in Seq(Piece) /\ Len(<<x>>) = 1 /\ <<x>>[1] = x
    BY <2>2
  <2>5. \A i \in 1 .. 1 : <<x>>[i].client = c /\ <<x>>[i].piece = 2 * h + i
    <3>1. \A i \in 1 .. 1 : i = 1
      OBVIOUS
    <3> QED
      BY <2>1, <2>2, <2>4, <3>1
  <2>6. Rest(c, n) \in Seq(Piece) /\ Len(Rest(c, n)) = 1
    BY <2>3, <2>4
  <2>7. \A i \in 1 .. Len(Rest(c, n)) :
          Rest(c, n)[i].client = c /\ Rest(c, n)[i].piece = 2 * h + i
    BY <2>3, <2>4, <2>5
  <2> QED
    BY <1>1, <2>1, <2>6, <2>7 DEF h
<1> QED
  BY <1>2, <1>3

\* What is received goes on where the rest of the stream ends.
LEMMA StreamGoesOn ==
  ASSUME NEW c \in Client, NEW n \in Nat, NEW k \in Nat
  PROVE  \E h \in Nat, b \in Seq(Piece) :
           /\ h = n \div 2
           /\ b = Rest(c, n) \o Pieces(c, n, k)
           /\ 2 * h + Len(b) = n + k
           /\ \A i \in 1 .. Len(b) : b[i].client = c /\ b[i].piece = 2 * h + i
<1> DEFINE r == Rest(c, n)
           h == n \div 2
           new == Pieces(c, n, k)
           b == r \o new
<1>1. /\ r \in Seq(Piece) /\ h \in Nat /\ Len(r) \in {0, 1} /\ n = 2 * h + Len(r)
      /\ \A i \in 1 .. Len(r) : r[i].client = c /\ r[i].piece = 2 * h + i
  BY RestOf
<1>2. \A j \in 1 .. k : new[j] \in Piece /\ new[j].client = c /\ new[j].piece = n + j
  BY DEF Piece, Pieces
<1>3. new \in Seq(Piece) /\ Len(new) = k
  BY <1>2 DEF Pieces
<1> HIDE DEF r, h, new
<1>4. /\ b \in Seq(Piece) /\ Len(b) = Len(r) + k
      /\ \A i \in 1 .. Len(r) + k : b[i] = IF i <= Len(r) THEN r[i] ELSE new[i - Len(r)]
  BY <1>1, <1>3, ConcatProperties
<1> HIDE DEF b
<1>5. 2 * h + Len(b) = n + k
  BY <1>1, <1>4
<1>6. ASSUME NEW i \in 1 .. Len(b) PROVE b[i].client = c /\ b[i].piece = 2 * h + i
  <2>1. i \in 1 .. Len(r) + k
    BY <1>4
  <2>2. CASE i <= Len(r)
    <3>1. b[i] = r[i] /\ i \in 1 .. Len(r)
      BY <1>1, <1>4, <2>1, <2>2
    <3> QED
      BY <1>1, <3>1
  <2>3. CASE ~(i <= Len(r))
    <3>1. PICK j \in 1 .. k : j = i - Len(r)
      BY <1>1, <2>1, <2>3
    <3>2. b[i] = new[j]
      BY <1>4, <2>1, <2>3, <3>1
    <3>3. n + j = 2 * h + i
      BY <1>1, <2>1, <3>1
    <3> QED
      BY <1>2, <3>2, <3>3
  <2> QED
    BY <2>2, <2>3
<1> QED
  BY <1>1, <1>4, <1>5, <1>6 DEF b, r, h, new

\* Lines of c posted behind the others, from the one after the last, are all
\* there, once and in order.
LEMMA PostedInOrder ==
  ASSUME Types, EveryLineDispatched, NEW c \in Client, snapshot_gen \in Nat,
         NEW m \in Nat, NEW n \in Nat, NEW h \in Nat, NEW e \in [1 .. m -> 1 .. n],
         Posted(c, h, m, n, e)
  PROVE  EveryLineDispatched'
<1> USE DEF Posted
<1> DEFINE new == LinesAfter(c, h, m, e, snapshot_gen)
           L == Len(dispatched)
<1>1. \A k \in 1 .. m : new[k] \in Line /\ new[k].client = c /\ new[k].line = h + e[k]
  <2> SUFFICES ASSUME NEW k \in 1 .. m
               PROVE  new[k] \in Line /\ new[k].client = c /\ new[k].line = h + e[k]
    OBVIOUS
  <2>1. PICK x \in 1 .. n : x = e[k]
    OBVIOUS
  <2>1a. PICK l \in Nat : l = h + x
    OBVIOUS
  <2>2. new[k] = [client |-> c, line |-> l, gen |-> snapshot_gen]
    BY <2>1, <2>1a DEF LinesAfter
  <2> QED
    BY <2>1, <2>1a, <2>2 DEF Line
<1>2. new \in Seq(Line) /\ Len(new) = m
  BY <1>1 DEF LinesAfter
<1>3. dispatched \in Seq(Line) /\ L \in Nat /\ DOMAIN dispatched = 1 .. L
  BY DEF Types
<1> HIDE DEF new
<1>4. /\ dispatched' \in Seq(Line) /\ Len(dispatched') = L + m
      /\ \A i \in 1 .. L + m :
           dispatched'[i] = IF i <= L THEN dispatched[i] ELSE new[i - L]
  <2>1. dispatched' = dispatched \o new
    BY DEF new
  <2>2. PICK p, q : p = dispatched /\ q = new
    OBVIOUS
  <2>3. p \in Seq(Line) /\ q \in Seq(Line)
    BY <1>2, <1>3, <2>2
  <2>4. /\ p \o q \in Seq(Line) /\ Len(p \o q) = Len(p) + Len(q)
        /\ \A i \in 1 .. Len(p) + Len(q) :
             (p \o q)[i] = IF i <= Len(p) THEN p[i] ELSE q[i - Len(p)]
    BY <2>3, ConcatProperties
  <2> QED
    BY <1>2, <2>1, <2>2, <2>4
<1>5. DOMAIN dispatched' = 1 .. L + m
  BY <1>4
<1> HIDE DEF L
<1>6. \A i \in 1 .. L : i \in 1 .. L + m /\ dispatched'[i] = dispatched[i]
  BY <1>3, <1>4
<1>7. ASSUME NEW k \in 1 .. m
      PROVE  /\ L + k \in 1 .. L + m /\ dispatched'[L + k].client = c
             /\ dispatched'[L + k].line = h + e[k]
  <2>1. L + k \in 1 .. L + m /\ ~(L + k <= L) /\ (L + k) - L = k
    BY <1>3
  <2>2. dispatched'[L + k] = new[k]
    BY <1>4, <2>1
  <2> QED
    BY <1>1, <2>1, <2>2
<1>8. \A i \in 1 .. L + m : i \in 1 .. L \/ \E k \in 1 .. m : i = L + k
  <2> SUFFICES ASSUME NEW i \in 1 .. L + m, i \notin 1 .. L
               PROVE  \E k \in 1 .. m : i = L + k
    OBVIOUS
  <2>1. i - L \in 1 .. m /\ i = L + (i - L)
    BY <1>3
  <2> QED
    BY <2>1
<1> SUFFICES ASSUME NEW d \in Client
             PROVE  LET own == {i \in 1 .. L + m : dispatched'[i].client = d}
                    IN  /\ {dispatched'[i].line : i \in own} = 1 .. taken'[d] \div 2
                        /\ \A i, j \in own :
                             i < j => dispatched'[i].line < dispatched'[j].line
  <2> HIDE DEF Posted
  <2> QED
    BY <1>5 DEF EveryLineDispatched
<1> DEFINE old == {i \in 1 .. L : dispatched[i].client = d}
           own == {i \in 1 .. L + m : dispatched'[i].client = d}
<1>9. /\ {dispatched[i].line : i \in old} = 1 .. taken[d] \div 2
      /\ \A i, j \in old : i < j => dispatched[i].line < dispatched[j].line
  BY <1>3 DEF EveryLineDispatched
<1>10. CASE d # c
  <2>1. own = old
    <3>1. ASSUME NEW i \in 1 .. L + m, dispatched'[i].client = d PROVE i \in 1 .. L
      <4>1. ASSUME NEW k \in 1 .. m, i = L + k PROVE FALSE
        BY <1>7, <1>10, <3>1, <4>1
      <4> QED
        BY <1>8, <4>1
    <3> QED
      BY <1>6, <3>1
  <2>2. \A i \in old : dispatched'[i] = dispatched[i]
    BY <1>6
  <2>3. {dispatched'[i].line : i \in old} = {dispatched[i].line : i \in old}
    <3> HIDE DEF old, Posted
    <3> QED
      BY <2>2
  <2>4. taken'[d] = taken[d]
    BY <1>10
  <2>5. {dispatched'[i].line : i \in own} = 1 .. taken'[d] \div 2
    <3> HIDE DEF old, own
    <3> QED
      BY <1>9, <2>1, <2>3, <2>4
  <2>6. ASSUME NEW i \in own, NEW j \in own, i < j
        PROVE  dispatched'[i].line < dispatched'[j].line
    <3>1. i \in old /\ j \in old
      BY <2>1
    <3> HIDE DEF old, own
    <3> QED
      BY <1>9, <2>2, <2>6, <3>1
  <2> QED
    BY <2>5, <2>6
<1>11. CASE d = c
  <2>1. \A i \in old : /\ i \in own /\ dispatched'[i].line = dispatched[i].line
                       /\ dispatched[i].line \in 1 .. h
    <3>1. \A i \in old : dispatched[i].line \in 1 .. h
      BY <1>9, <1>11
    <3> QED
      BY <1>6, <3>1
  <2>2. \A i \in own : i \in old \/ \E k \in 1 .. m : i = L + k
    BY <1>6, <1>8
  <2>3. \A k \in 1 .. m : L + k \in own
    BY <1>7, <1>11
  <2>4. \A k \in 1 .. m : e[k] \in 1 .. n
    OBVIOUS
  <2>5. ASSUME NEW l \in {dispatched'[i].line : i \in own} PROVE l \in 1 .. h + n
    <3>1. PICK i \in own : l = dispatched'[i].line
      OBVIOUS
    <3>2. CASE i \in old
      <4>1. PICK x \in 1 .. h : x = l
        BY <2>1, <3>1, <3>2
      <4>2. x \in 1 .. h + n
        BY <4>1
      <4> QED
        BY <4>1, <4>2
    <3>3. CASE \E k \in 1 .. m : i = L + k
      <4>1. PICK k \in 1 .. m : l = h + e[k]
        BY <1>7, <3>1, <3>3
      <4>2. PICK y \in 1 .. n : y = e[k]
        BY <2>4
      <4>4. \A u, v \in Nat : \A z \in 1 .. v : u + z \in 1 .. u + v
        OBVIOUS
      <4>5. h + y \in 1 .. h + n
        BY <4>2, <4>4
      <4> QED
        BY <4>1, <4>2, <4>5
    <3> QED
      BY <2>2, <3>2, <3>3
  <2>6. ASSUME NEW l \in 1 .. h + n PROVE l \in {dispatched'[i].line : i \in own}
    <3>1. CASE l \in 1 .. h
      <4>1. PICK i \in old : dispatched[i].line = l
        BY <1>9, <1>11, <3>1
      <4> QED
        BY <2>1, <4>1
    <3>2. CASE l \notin 1 .. h
      <4>1. l - h \in 1 .. n /\ l = h + (l - h)
        BY <3>2
      <4>2. PICK k \in 1 .. m : e[k] = l - h
        BY <4>1
      <4>3. dispatched'[L + k].line = l
        BY <1>7, <4>1, <4>2
      <4> QED
        BY <2>3, <4>3
    <3> QED
      BY <3>1, <3>2
  <2>7. ASSUME NEW i \in own, NEW j \in own, i < j
        PROVE  dispatched'[i].line < dispatched'[j].line
    <3>1. CASE i \in old /\ j \in old
      BY <1>9, <2>1, <2>7, <3>1
    <3>2. CASE \E k \in 1 .. m : j = L + k
      <4>1. PICK k \in 1 .. m : j = L + k
        BY <3>2
      <4>2. dispatched'[j].line = h + e[k] /\ e[k] \in 1 .. n
        BY <1>7, <2>4, <4>1
      <4>3. CASE i \in old
        <5>1. PICK l \in 1 .. h : dispatched'[i].line = l
          BY <2>1, <4>3
        <5>2. PICK y \in 1 .. n : y = e[k]
          BY <4>2
        <5>3. l < h + y
          BY <5>1, <5>2
        <5> QED
          BY <4>2, <5>1, <5>2, <5>3
      <4>4. CASE \E q \in 1 .. m : i = L + q
        <5>1. PICK q \in 1 .. m : i = L + q
          BY <4>4
        <5>2. q < k
          BY <1>3, <2>7, <4>1, <5>1
        <5>3. e[q] < e[k] /\ e[q] \in 1 .. n /\ dispatched'[i].line = h + e[q]
          BY <1>7, <2>4, <5>1, <5>2
        <5>4. PICK x \in 1 .. n, y \in 1 .. n : x = e[q] /\ y = e[k]
          BY <4>2, <5>3
        <5>5. h + x < h + y
          BY <5>3, <5>4
        <5> QED
          BY <4>2, <5>3, <5>4, <5>5
      <4> QED
        BY <2>2, <4>3, <4>4
    <3>3. CASE j \in old /\ \E q \in 1 .. m : i = L + q
      BY <1>3, <2>7, <3>3
    <3> QED
      BY <2>2, <3>1, <3>2, <3>3
  <2>8. {dispatched'[i].line : i \in own} = 1 .. taken'[d] \div 2
    <3>1. taken'[d] \div 2 = h + n
      BY <1>11
    <3> HIDE DEF own
    <3> QED
      BY <2>5, <2>6, <3>1
  <2> QED
    BY <2>7, <2>8
<1> QED
  BY <1>10, <1>11

\* What is received goes behind the rest; its lines are cut off and posted.
LEMMA ReceiveStreams ==
  ASSUME IInv, Streams, Receive PROVE Streams'
<1> USE DEF Receive
<1>1. PICK c \in Client \cup {NoClient} : GenerationOf(c)
  BY DEF IInv, OneOwner
<1>2. snapshot = c /\ c \in Client /\ snapshot_gen \in Nat /\ active \in {c, NoClient}
  BY <1>1 DEF GenerationOf, IInv, Types
<1>3. PICK k \in 1 .. written[c] - taken[c] :
        /\ taken' = [taken EXCEPT ![c] = @ + k]
        /\ Dispatch(buffer \o Pieces(c, taken[c], k), snapshot_gen)
  <2>1. \E k \in 1 .. written[snapshot] - taken[snapshot] :
          /\ taken' = [taken EXCEPT ![snapshot] = @ + k]
          /\ Dispatch(buffer \o Pieces(snapshot, taken[snapshot], k), snapshot_gen)
    BY Zenon DEF Pieces
  <2> HIDE DEF Receive
  <2> QED
    BY <1>2, <2>1
<1>4. /\ taken \in [Client -> Nat] /\ k \in Nat /\ taken[c] \in Nat
      /\ taken'[c] = taken[c] + k
      /\ \A d \in Client \ {c} : taken'[d] = taken[d]
  BY <1>2, <1>3 DEF IInv, Types
<1>5. Reading(c) /\ buffer = Rest(c, taken[c])
  BY <1>2 DEF Reading, Streams, RestInBuffer
<1>6a. PICK n \in Nat : n = taken[c]
  BY <1>4
<1>6b. \A d \in Client, x, y \in Nat :
         \E h \in Nat, b \in Seq(Piece) :
           /\ h = x \div 2
           /\ b = Rest(d, x) \o Pieces(d, x, y)
           /\ 2 * h + Len(b) = x + y
           /\ \A i \in 1 .. Len(b) : b[i].client = d /\ b[i].piece = 2 * h + i
  <2> HIDE DEF Receive
  <2> QED
    BY StreamGoesOn, Zenon
<1>6. PICK h \in Nat, b \in Seq(Piece) :
        /\ h = n \div 2
        /\ b = Rest(c, n) \o Pieces(c, n, k)
        /\ 2 * h + Len(b) = n + k
        /\ \A i \in 1 .. Len(b) : b[i].client = c /\ b[i].piece = 2 * h + i
  <2> HIDE DEF Receive
  <2>1. c \in Client /\ k \in Nat /\ n \in Nat
    BY <1>2, <1>4, <1>6a
  <2> QED
    BY <2>1, <1>6b, Zenon
<1>7. Dispatch(b, snapshot_gen)
  BY <1>3, <1>5, <1>6a, <1>6
<1>8. /\ buffer' = Rest(c, 2 * h + Len(b))
      /\ \E m \in Nat : \E e \in [1 .. m -> 1 .. Len(b) \div 2] :
           /\ dispatched' = dispatched \o LinesAfter(c, h, m, e, snapshot_gen)
           /\ \A j, v \in 1 .. m : j < v => e[j] < e[v]
           /\ \A l \in 1 .. Len(b) \div 2 : \E v \in 1 .. m : e[v] = l
  <2>1. Types /\ c \in Client /\ snapshot_gen \in Nat
    BY <1>2 DEF IInv
  <2>2. \A i \in 1 .. Len(b) : b[i].client = c /\ b[i].piece = 2 * h + i
    BY <1>6
  <2> HIDE DEF Receive
  <2> QED
    BY <1>6, <1>7, <2>1, <2>2, DispatchLines, ZenonT(40)
<1>9. taken'[c] \div 2 = h + Len(b) \div 2 /\ Len(b) \div 2 \in Nat
  <2>1. PICK l \in Nat : l = Len(b)
    BY <1>6
  <2>2. taken'[c] = 2 * h + l
    <3> HIDE DEF Receive
    <3>1. taken'[c] = n + k
      BY <1>4, <1>6a
    <3> QED
      BY <1>6, <2>1, <3>1
  <2>3. (2 * h + l) \div 2 = h + l \div 2 /\ l \div 2 \in Nat
    BY <1>6, Halves
  <2> QED
    BY <2>1, <2>2, <2>3
<1>10. EveryLineDispatched'
  <2>1. h = taken[c] \div 2
    BY <1>6a, <1>6
  <2>2. Types /\ EveryLineDispatched
    BY DEF IInv, Streams
  <2>3. PICK l \in Nat : l = Len(b) \div 2
    BY <1>9
  <2>4. PICK m \in Nat : \E e \in [1 .. m -> 1 .. l] :
           /\ dispatched' = dispatched \o LinesAfter(c, h, m, e, snapshot_gen)
           /\ \A j, v \in 1 .. m : j < v => e[j] < e[v]
           /\ \A q \in 1 .. l : \E v \in 1 .. m : e[v] = q
    <3> HIDE DEF Receive
    <3> QED
      BY <1>8, <2>3
  <2>4a. PICK e \in [1 .. m -> 1 .. l] :
           /\ dispatched' = dispatched \o LinesAfter(c, h, m, e, snapshot_gen)
           /\ \A j, v \in 1 .. m : j < v => e[j] < e[v]
           /\ \A q \in 1 .. l : \E v \in 1 .. m : e[v] = q
    BY <2>4
  <2>5. taken'[c] \div 2 = h + l /\ h \in Nat
    BY <1>6, <1>9, <2>3
  <2>6. c \in Client /\ snapshot_gen \in Nat /\ \A d \in Client \ {c} : taken'[d] = taken[d]
    BY <1>2, <1>4
  <2>7. Posted(c, h, m, l, e)
    BY <2>1, <2>4a, <2>5, <2>6 DEF Posted
  <2> HIDE DEF Receive
  <2> QED
    BY <2>2, <2>5, <2>6, <2>7, PostedInOrder, Zenon
<1>11. \A d \in Client : Reading(d)' => d = c
  BY <1>2, BoundsAssumption DEF Reading, sharedVars
<1>12. RestInBuffer'
  <2>1. buffer' = Rest(c, taken'[c])
    BY <1>4, <1>6a, <1>6, <1>8
  <2>2. ASSUME NEW d \in Client, Reading(d)' PROVE buffer' = Rest(d, taken'[d])
    BY <1>11, <2>1, <2>2
  <2> QED
    BY <2>2 DEF RestInBuffer, Rest
<1>13. NotYetTaken'
  <2>1. conn' = conn
    OBVIOUS
  <2>2. ~(conn[c] \in {"new", "backlog"})
    BY <1>2, <1>5 DEF Streams, NotYetTaken
  <2> QED
    BY <1>4, <1>11, <2>1, <2>2 DEF Streams, NotYetTaken
<1> QED
  BY <1>10, <1>12, <1>13 DEF Streams

\* The end of a connection, or of the transport: the buffer may be emptied, but
\* then nothing more is read.
LEMMA EndsStreams ==
  ASSUME IInv, Streams, ReceiveEnds PROVE Streams'
<1> USE DEF ReceiveEnds
<1>1. PICK c \in Client \cup {NoClient} : GenerationOf(c)
  BY DEF IInv, OneOwner
<1>2. snapshot = c /\ active \in {c, NoClient}
  BY <1>1 DEF GenerationOf
<1>3. active' = NoClient /\ pc' = "loop"
  BY <1>2 DEF CloseActive
<1>4. \A d \in Client : ~Reading(d)'
  BY <1>3, BoundsAssumption DEF Reading
<1>5. \A d \in Client : conn'[d] \in {"new", "backlog"} => conn[d] \in {"new", "backlog"}
  BY DEF CloseActive, IInv, Types
<1> QED
  BY <1>4, <1>5, QuietStreams

\* The main thread closes the descriptors: nothing more is read.
LEMMA StopStreams ==
  ASSUME IInv, Streams, RequestStopLocked,
         UNCHANGED <<taken, dispatched, buffer, snapshot>>, pc' \in {pc, "done"}
  PROVE  Streams'
<1>1. \A d \in Client : Reading(d)' => Reading(d)
  BY BoundsAssumption DEF Reading, RequestStopLocked
<1>2. \A d \in Client : conn'[d] \in {"new", "backlog"} => conn[d] \in {"new", "backlog"}
  BY DEF RequestStopLocked
<1> QED
  BY <1>1, <1>2, QuietStreams

\* An answer, or the close that a failed answer leads to.
LEMMA WriteStreams ==
  ASSUME IInv, Streams, NEW i, Write(i),
         UNCHANGED <<taken, dispatched, buffer, snapshot, pc>>
  PROVE  Streams'
<1>1. CASE CloseActive
  <2>1. \A d \in Client : Reading(d)' => Reading(d)
    BY <1>1, BoundsAssumption DEF Reading, CloseActive
  <2>2. \A d \in Client : conn'[d] \in {"new", "backlog"} => conn[d] \in {"new", "backlog"}
    BY <1>1 DEF CloseActive, IInv, Types
  <2> QED
    BY <2>1, <2>2, QuietStreams
<1>2. CASE UNCHANGED <<active, conn>>
  BY <1>2, QuietStreams, StillReading
<1> QED
  BY <1>1, <1>2 DEF Write

\* For any clients and lines: the IPC thread reads every connection as one
\* stream.  What is in the receive buffer is the rest of it, what has come out
\* of it are its complete lines, and no other client's bytes get between.
THEOREM StreamsKept == Spec => []Streams
<1>1. Init => Streams
  <2> SUFFICES ASSUME Init PROVE Streams
    OBVIOUS
  <2>1. RestInBuffer /\ NotYetTaken
    BY BoundsAssumption DEF Init, RestInBuffer, NotYetTaken, Reading
  <2>2. ASSUME NEW c \in Client
        PROVE  taken[c] \div 2 = 0 /\ DOMAIN dispatched = {}
    BY DEF Init
  <2>3. EveryLineDispatched
    BY <2>2 DEF EveryLineDispatched
  <2> QED
    BY <2>1, <2>3 DEF Streams
<1>2. IInv /\ Streams /\ [Next]_vars => Streams'
  <2> SUFFICES ASSUME IInv, Streams, [Next]_vars PROVE Streams'
    OBVIOUS
  <2> USE DEF clientVars, sharedVars, pollVars, mainVars
  <2>1. CASE Snapshot \/ Poll \/ LookAgain \/ ReceiveBlocks
    BY <2>1, QuietStreams, StillReading DEF Snapshot, Poll, LookAgain, ReceiveBlocks
  <2>2. CASE Accept
    BY <2>2, AcceptStreams
  <2>3. CASE Receive
    BY <2>3, ReceiveStreams
  <2>4. CASE ReceiveEnds
    BY <2>4, EndsStreams
  <2>5. CASE Exit \/ Destroy
    BY <2>5, StopStreams DEF Exit, Destroy
  <2>6. CASE SendGoesOn
    BY <2>6, WriteStreams DEF SendGoesOn
  <2>7. ASSUME NEW i \in DOMAIN dispatched, SendResponse(i) PROVE Streams'
    <3>1. CASE Write(i)
      BY <2>7, <3>1, WriteStreams DEF SendResponse
    <3>2. CASE UNCHANGED <<active, conn>>
      BY <2>7, <3>2, QuietStreams, StillReading DEF SendResponse
    <3> QED
      BY <2>7, <3>1, <3>2 DEF SendResponse
  <2>8. CASE Joined
    BY <2>8, QuietStreams, StillReading DEF Joined
  <2>9. ASSUME NEW c \in Client, ClientStep(c) PROVE Streams'
    <3>1. CASE Connect(c)
      <4>1. \A d \in Client : conn'[d] \in {"new", "backlog"} => conn[d] \in {"new", "backlog"}
        BY <3>1 DEF Connect, IInv, Types
      <4> QED
        BY <3>1, <4>1, QuietStreams, StillReading DEF Connect
    <3>2. CASE WritePiece(c) \/ ReadResponse(c) \/ HangUp(c)
      BY <3>2, QuietStreams, StillReading DEF WritePiece, ReadResponse, HangUp
    <3> QED
      BY <2>9, <3>1, <3>2 DEF ClientStep
  <2>10. CASE UNCHANGED vars
    BY <2>10, QuietStreams, StillReading DEF vars
  <2> QED
    BY <2>1, <2>2, <2>3, <2>4, <2>5, <2>6, <2>7, <2>8, <2>9, <2>10
    DEF Next, IPCThread, MainThread
<1> QED
  BY <1>1, <1>2, Inductive, PTL DEF Spec

\* Every line that has been received whole has been posted, once and in order,
\* whatever recv returns at a time and whoever's stream came before.
THEOREM LinesPosted == Spec => []EveryLineDispatched
<1>1. Streams => EveryLineDispatched
  BY DEF Streams
<1> QED
  BY <1>1, StreamsKept, PTL
=============================================================================
