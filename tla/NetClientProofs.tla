--------------------------- MODULE NetClientProofs ---------------------------
(***************************************************************************)
(* NetClient's safety properties for every number of clients, callers and  *)
(* messages, every message length and every choice of malformed messages.  *)
(* One inductive invariant, NetInv, in two halves that do not meet: the    *)
(* reading half (FramingInv) and the writing half (WritingInv).            *)
(***************************************************************************)
EXTENDS NetClient, SequenceTheorems, TLAPS

\* The length of a message, and the bytes of the next one, as facts of
\* arithmetic.
LEMMA MessageEnds ==
  /\ \A k \in 0..MaxMsgs : MsgEnd[k] \in Nat
  /\ \A k \in 1..MaxMsgs : Size(k) \in Nat /\ Size(k) > 0
  /\ \A j, k \in 0..MaxMsgs : MsgEnd[j] = MsgEnd[k] => j = k
  /\ \A j, k \in 0..MaxMsgs : j <= k => MsgEnd[j] <= MsgEnd[k]
<1>1. \A k \in 0..MaxMsgs : MsgEnd[k] \in Nat
  BY NetAssumption
<1>2. \A j, k \in 0..MaxMsgs : j < k => MsgEnd[j] < MsgEnd[k]
  BY NetAssumption
<1>3. MaxMsgs \in Nat
  BY NetAssumption
<1>4. \A k \in 1..MaxMsgs : Size(k) \in Nat /\ Size(k) > 0
  BY <1>1, <1>2, <1>3 DEF Size
<1>5. \A j, k \in 0..MaxMsgs : MsgEnd[j] = MsgEnd[k] => j = k
  BY <1>1, <1>2, <1>3
<1>6. \A j, k \in 0..MaxMsgs : j <= k => MsgEnd[j] <= MsgEnd[k]
  BY <1>1, <1>2, <1>3
<1> QED
  BY <1>1, <1>4, <1>5, <1>6

\* A stretch of a sequence of bytes.
LEMMA Stretch ==
  ASSUME NEW s \in Seq(Nat), NEW m \in Nat, NEW n \in Nat,
         1 <= m, m <= n + 1, n <= Len(s)
  PROVE  /\ SubSeq(s, m, n) \in Seq(Nat)
         /\ Len(SubSeq(s, m, n)) = n - m + 1
         /\ \A i \in 1..(n - m + 1) : SubSeq(s, m, n)[i] = s[m + i - 1]
OBVIOUS

\* What the parse loop looks at: the buffer from processed_bytes on.
LEMMA RemainingBytes ==
  ASSUME NetTypeOK, NEW c \in Client, processed[c] <= Len(current_binary[c])
  PROVE  /\ Remaining(c) \in Seq(Nat)
         /\ Len(Remaining(c)) = Len(current_binary[c]) - processed[c]
         /\ \A i \in 1..Len(Remaining(c)) :
              Remaining(c)[i] = current_binary[c][processed[c] + i]
<1> DEFINE b == current_binary[c]
           p == processed[c]
<1>1. b \in Seq(Nat) /\ p \in Nat /\ Len(b) \in Nat
  BY DEF NetTypeOK
<1>2. Remaining(c) = SubSeq(b, p + 1, Len(b))
  BY DEF Remaining
<1> HIDE DEF b, p
<1>3. /\ SubSeq(b, p + 1, Len(b)) \in Seq(Nat)
      /\ Len(SubSeq(b, p + 1, Len(b))) = Len(b) - (p + 1) + 1
      /\ \A i \in 1..(Len(b) - (p + 1) + 1) :
           SubSeq(b, p + 1, Len(b))[i] = b[(p + 1) + i - 1]
  <2>1. p + 1 \in Nat /\ 1 <= p + 1 /\ p + 1 <= Len(b) + 1
    BY <1>1 DEF b, p
  <2> QED
    BY <1>1, <2>1, Stretch
<1>4. Len(b) - (p + 1) + 1 = Len(b) - p /\ \A i \in Nat : (p + 1) + i - 1 = p + i
  BY <1>1
<1>5. \A i \in 1..(Len(b) - p) : SubSeq(b, p + 1, Len(b))[i] = b[p + i]
  <2> SUFFICES ASSUME NEW i \in 1..(Len(b) - p)
               PROVE  SubSeq(b, p + 1, Len(b))[i] = b[p + i]
    OBVIOUS
  <2>1. i \in 1..(Len(b) - (p + 1) + 1) /\ (p + 1) + i - 1 = p + i
    BY <1>1, <1>4
  <2> QED
    BY <1>3, <2>1
<1> QED
  BY <1>2, <1>3, <1>4, <1>5 DEF b, p

-----------------------------------------------------------------------------
(* Types. *)

\* Draining the buffer keeps the types.
LEMMA DrainBufferType ==
  ASSUME NetTypeOK, NEW c \in Client, NEW n \in Nat, DrainBuffer(c, n)
  PROVE  NetTypeOK'
<1>1. current_binary[c] \in Seq(Nat) /\ Len(current_binary[c]) \in Nat
  BY DEF NetTypeOK
<1>2. SubSeq(current_binary[c], n + 1, Len(current_binary[c])) \in Seq(Nat)
  BY <1>1, ElementOfSeq, SubSeqProperties
<1> QED
  BY <1>2 DEF NetTypeOK, DrainBuffer, Goto, WorkerState, sendVars, peerVars

\* Delivering a message keeps the types.
LEMMA DeliverType ==
  ASSUME NetTypeOK, NEW c \in Client, NEW k \in Nat, NEW n \in Nat, Deliver(c, k, n)
  PROVE  NetTypeOK'
<1>1. processed[c] + n \in Nat /\ Append(delivered[c], k) \in Seq(Nat)
  BY DEF NetTypeOK
<1>2. /\ processed' = [processed EXCEPT ![c] = processed[c] + n]
      /\ delivered' = [delivered EXCEPT ![c] = Append(delivered[c], k)]
  BY DEF Deliver
<1>3. processed' \in [Client -> Nat] /\ delivered' \in [Client -> Seq(Nat)]
  BY <1>1, <1>2 DEF NetTypeOK
<1>4. UNCHANGED <<connected, worker, taken, written, cmds, pending, peer, sent,
                  inbound, current_binary>>
  BY DEF Deliver, sendVars, peerVars, workVars
<1> QED
  BY <1>3, <1>4 DEF NetTypeOK

\* The types hold at first.
LEMMA TypeInit == NetInit => NetTypeOK
BY DEF NetInit, NetTypeOK, WorkerState, PeerState

\* The worker keeps the types.
LEMMA TypeWork ==
  ASSUME NetTypeOK, FramingInv, NEW c \in Client, Work(c)
  PROVE  NetTypeOK'
<1>0. processed[c] \in Nat /\ current_binary[c] \in Seq(Nat)
      /\ processed[c] <= Len(current_binary[c]) /\ Len(current_binary[c]) \in Nat
  BY DEF NetTypeOK, FramingInv, Framed
<1>1. CASE Loop(c)
  BY <1>1 DEF NetTypeOK, Loop, Goto, WorkerState, sendVars, readVars, peerVars
<1>2. CASE WriteOk(c)
  <2>1. taken[c] + 1 \in Nat /\ Append(written[c], taken[c] + 1) \in Seq(Nat)
    BY DEF NetTypeOK
  <2>2. taken' \in [Client -> Nat] /\ written' \in [Client -> Seq(Nat)]
    BY <1>2, <2>1 DEF NetTypeOK, WriteOk, TryRecv
  <2> QED
    BY <1>2, <2>2 DEF NetTypeOK, WriteOk, sendVars, readVars, peerVars
<1>3. CASE WriteErr(c)
  <2>1. taken' \in [Client -> Nat] /\ worker' \in [Client -> WorkerState]
    BY <1>3 DEF NetTypeOK, WriteErr, TryRecv, Goto, WorkerState
  <2>2. connected' \in [Client -> BOOLEAN]
    BY <1>3 DEF NetTypeOK, WriteErr
  <2> QED
    BY <1>3, <2>1, <2>2 DEF NetTypeOK, WriteErr, sendVars, readVars, peerVars
<1>4. CASE TakeDisconnect(c)
  <2>1. taken' \in [Client -> Nat] /\ worker' \in [Client -> WorkerState]
    BY <1>4 DEF NetTypeOK, TakeDisconnect, TryRecv, Goto, WorkerState
  <2> QED
    BY <1>4, <2>1 DEF NetTypeOK, TakeDisconnect, sendVars, readVars, peerVars
<1>5. CASE Drained(c)
  BY <1>5 DEF NetTypeOK, Drained, Goto, WorkerState, sendVars, readVars, peerVars
<1>6. CASE ReadBinary(c)
  <2>1. PICK n \in 1..Len(inbound[c]) :
          /\ current_binary' = [current_binary EXCEPT ![c] = @ \o SubSeq(inbound[c], 1, n)]
          /\ inbound' = [inbound EXCEPT ![c] = SubSeq(@, n + 1, Len(@))]
    BY <1>6 DEF ReadBinary
  <2>2. inbound[c] \in Seq(Nat) /\ Len(inbound[c]) \in Nat
    BY DEF NetTypeOK
  <2>3. SubSeq(inbound[c], 1, n) \in Seq(Nat)
    BY <2>2, ElementOfSeq, SubSeqProperties
  <2>4. SubSeq(inbound[c], n + 1, Len(inbound[c])) \in Seq(Nat)
    BY <2>2, ElementOfSeq, SubSeqProperties
  <2>5. current_binary[c] \o SubSeq(inbound[c], 1, n) \in Seq(Nat)
    BY <1>0, <2>3, ConcatProperties
  <2>6. /\ current_binary' \in [Client -> Seq(Nat)]
        /\ inbound' \in [Client -> Seq(Nat)]
    BY <2>1, <2>4, <2>5 DEF NetTypeOK
  <2> QED
    BY <1>6, <2>6 DEF NetTypeOK, ReadBinary, Goto, WorkerState, sendVars, peerVars
<1>7. CASE ReadNothing(c)
  BY <1>7 DEF NetTypeOK, ReadNothing, Goto, WorkerState, sendVars, readVars, peerVars
<1>8. CASE ReadClosed(c)
  BY <1>8 DEF NetTypeOK, ReadClosed, Goto, WorkerState, sendVars, readVars, peerVars
<1>9. CASE Close(c)
  BY <1>9 DEF NetTypeOK, Close, Goto, WorkerState, sendVars, readVars, peerVars
<1>10. CASE ParseMessage(c)
  <2>1. PICK k \in 1..MaxMsgs : Deliver(c, k, Size(k))
    BY <1>10 DEF ParseMessage
  <2>2. k \in Nat /\ Size(k) \in Nat
    BY MessageEnds, NetAssumption
  <2> QED
    BY <2>1, <2>2, DeliverType
<1>11. CASE ParseGarbage(c)
  <2>1. PICK n \in 1..Len(Remaining(c)) : Deliver(c, 0, n)
    BY <1>11 DEF ParseGarbage
  <2>2. n \in Nat
    BY <1>0, RemainingBytes
  <2> QED
    BY <2>1, <2>2, DeliverType
<1>12. CASE ParsePause(c)
  BY <1>0, <1>12, DrainBufferType DEF ParsePause
<1>13. CASE ParseError(c)
  BY <1>0, <1>13, DrainBufferType DEF ParseError
<1> QED
  BY <1>1, <1>2, <1>3, <1>4, <1>5, <1>6, <1>7, <1>8, <1>9, <1>10, <1>11, <1>12, <1>13
  DEF Work

\* So do connect, the callers and the peer.
LEMMA TypeOthers ==
  ASSUME NetTypeOK, FramingInv, NEW c \in Client
  PROVE  /\ Connect(c) => NetTypeOK'
         /\ PeerFault(c) => NetTypeOK'
         /\ \A m \in Msg : ServerSend(c, m) => NetTypeOK'
         /\ \A t \in Caller, cmd \in Cmd \cup {Disconnect} :
              SendCheck(t, c, cmd) => NetTypeOK'
         /\ \A t \in Caller : SendOk(t) \/ SendErr(t) => NetTypeOK'
<1>1. Connect(c) => NetTypeOK'
  BY DEF NetTypeOK, Connect, WorkerState, sendVars, readVars, peerVars
<1>2. ASSUME PeerFault(c) PROVE NetTypeOK'
  <2>1. PICK p \in PeerState \ {"open"}, n \in 0..Len(inbound[c]) :
          /\ peer' = [peer EXCEPT ![c] = p]
          /\ inbound' = [inbound EXCEPT ![c] = SubSeq(@, 1, n)]
    BY <1>2 DEF PeerFault
  <2>2. inbound[c] \in Seq(Nat) /\ Len(inbound[c]) \in Nat
    BY DEF NetTypeOK
  <2>3. SubSeq(inbound[c], 1, n) \in Seq(Nat)
    BY <2>2, Stretch
  <2> QED
    BY <1>2, <2>1, <2>3 DEF NetTypeOK, PeerFault, sendVars, workVars, readVars
<1>3. ASSUME NEW m \in Msg, ServerSend(c, m) PROVE NetTypeOK'
  <2> DEFINE k == Len(sent[c]) + 1
             bytes == [i \in 1..Size(k) |-> MsgEnd[k - 1] + i]
  <2>1. sent[c] \in Seq(Msg) /\ Len(sent[c]) \in Nat /\ inbound[c] \in Seq(Nat)
    BY DEF NetTypeOK
  <2>2. k \in 1..MaxMsgs /\ k - 1 \in 0..MaxMsgs /\ k - 1 = Len(sent[c])
    BY <1>3, <2>1, NetAssumption DEF ServerSend
  <2>3. Size(k) \in Nat /\ MsgEnd[k - 1] \in Nat
    BY <2>2, MessageEnds
  <2>4. bytes \in Seq(Nat)
    <3>1. \A i \in 1..Size(k) : MsgEnd[k - 1] + i \in Nat
      BY <2>3
    <3> QED
      BY <2>3, <3>1, IsASeq
  <2>5. inbound[c] \o bytes \in Seq(Nat)
    BY <2>1, <2>4, ConcatProperties
  <2>6. inbound' = [inbound EXCEPT ![c] = @ \o bytes]
    BY <1>3, <2>2 DEF ServerSend
  <2>7. sent' \in [Client -> Seq(Msg)]
    BY <1>3 DEF ServerSend, NetTypeOK
  <2> QED
    BY <1>3, <2>5, <2>6, <2>7, SMTT(30) DEF NetTypeOK, ServerSend, sendVars, workVars
<1>4. ASSUME NEW t \in Caller, NEW cmd \in Cmd \cup {Disconnect}, SendCheck(t, c, cmd)
      PROVE NetTypeOK'
  BY <1>4 DEF NetTypeOK, SendCheck, workVars, readVars, peerVars
<1>5. ASSUME NEW t \in Caller, SendOk(t) \/ SendErr(t) PROVE NetTypeOK'
  <2>1. pending[t] \in [client : Client, cmd : Cmd \cup {Disconnect}]
    BY <1>5 DEF NetTypeOK, SendOk, SendErr
  <2>2. CASE SendOk(t)
    <3> DEFINE d == pending[t].client
    <3>1. d \in Client /\ pending[t].cmd \in Cmd \cup {Disconnect}
      BY <2>1
    <3>2. Append(cmds[d], pending[t].cmd) \in Seq(Cmd \cup {Disconnect})
      BY <3>1, SMTT(30) DEF NetTypeOK
    <3>3. cmds' = [cmds EXCEPT ![d] = Append(cmds[d], pending[t].cmd)]
      BY <2>2 DEF SendOk
    <3>4. cmds' \in [Client -> Seq(Cmd \cup {Disconnect})]
      BY <3>1, <3>2, <3>3 DEF NetTypeOK
    <3>5. pending' \in [Caller -> [client : Client, cmd : Cmd \cup {Disconnect}] \cup {None}]
      BY <2>2 DEF NetTypeOK, SendOk
    <3> QED
      BY <2>2, <3>4, <3>5 DEF NetTypeOK, SendOk, workVars, readVars, peerVars
  <2>3. CASE SendErr(t)
    BY <2>3 DEF NetTypeOK, SendErr, workVars, readVars, peerVars
  <2> QED
    BY <1>5, <2>2, <2>3
<1> QED
  BY <1>1, <1>2, <1>3, <1>4, <1>5

\* Types survive every step; the bound on processed_bytes, from the framing
\* half, is what keeps the parse loop's slices inside the buffer.
LEMMA TypeStep == NetTypeOK /\ FramingInv /\ [NetNext]_netVars => NetTypeOK'
<1> SUFFICES ASSUME NetTypeOK, FramingInv, [NetNext]_netVars PROVE NetTypeOK'
  OBVIOUS
<1>1. CASE UNCHANGED netVars
  BY <1>1 DEF netVars, sendVars, workVars, readVars, peerVars, NetTypeOK
<1>2. ASSUME NEW c \in Client, Connect(c) \/ Work(c) \/ PeerFault(c) PROVE NetTypeOK'
  BY <1>2, TypeWork, TypeOthers
<1>3. ASSUME NEW c \in Client, NEW m \in Msg, ServerSend(c, m) PROVE NetTypeOK'
  BY <1>3, TypeOthers
<1>4. ASSUME NEW t \in Caller, NEW c \in Client, NEW cmd \in Cmd \cup {Disconnect},
             SendCheck(t, c, cmd)
      PROVE NetTypeOK'
  BY <1>4, TypeOthers
<1>5. ASSUME NEW t \in Caller, SendOk(t) \/ SendErr(t) PROVE NetTypeOK'
  <2>1. pending[t].client \in Client
    BY <1>5 DEF NetTypeOK, SendOk, SendErr
  <2> QED
    BY <1>5, <2>1, TypeOthers
<1> QED
  BY <1>1, <1>2, <1>3, <1>4, <1>5 DEF NetNext

-----------------------------------------------------------------------------
(* The reading half: Framed, one client at a time. *)

\* A step that leaves what a client has sent, read and delivered alone.
LEMMA FramedKept ==
  ASSUME NEW c \in Client, Framed(c),
         UNCHANGED <<sent[c], delivered[c], inbound[c], current_binary[c],
                     processed[c], peer[c]>>,
         worker'[c] # "parse" => processed[c] = 0
  PROVE  Framed(c)'
BY DEF Framed, InSync, LostSync, Base

\* Once lost, the framing stays lost: what was delivered stays.
LEMMA LostKept ==
  ASSUME NEW c \in Client, NetTypeOK, NetTypeOK', LostSync(c),
         Len(sent[c]) <= Len(sent'[c]),
         Len(delivered[c]) <= Len(delivered'[c]),
         \A i \in 1..Len(delivered[c]) : delivered'[c][i] = delivered[c][i]
  PROVE  LostSync(c)'
<1>1. PICK m \in Malformed :
        /\ m <= Len(sent[c])
        /\ m - 1 <= Len(delivered[c])
        /\ \A i \in 1..(m - 1) : delivered[c][i] = i
  BY DEF LostSync
<1>2. m \in Nat /\ Len(sent[c]) \in Nat /\ Len(delivered[c]) \in Nat
      /\ Len(sent'[c]) \in Nat /\ Len(delivered'[c]) \in Nat
  <2>1. m \in Nat
    BY NetAssumption
  <2>2. sent[c] \in Seq(Msg) /\ delivered[c] \in Seq(Nat)
    BY DEF NetTypeOK
  <2>3. sent'[c] \in Seq(Msg) /\ delivered'[c] \in Seq(Nat)
    BY DEF NetTypeOK
  <2> QED
    BY <2>1, <2>2, <2>3, LenProperties
<1>3. m <= Len(sent'[c]) /\ m - 1 <= Len(delivered'[c])
  BY <1>1, <1>2
<1>4. \A i \in 1..(m - 1) : delivered'[c][i] = i
  <2> SUFFICES ASSUME NEW i \in 1..(m - 1) PROVE delivered'[c][i] = i
    OBVIOUS
  <2>1. i \in 1..Len(delivered[c])
    BY <1>1, <1>2
  <2> QED
    BY <1>1, <2>1
<1> QED
  BY <1>3, <1>4 DEF LostSync

\* In sync, the parse loop stands at the beginning of the next message.
LEMMA AtNextMessage ==
  ASSUME NetTypeOK, NEW c \in Client, Framed(c), InSync(c), Remaining(c) # <<>>
  PROVE  /\ Len(delivered[c]) + 1 \in 1..MaxMsgs
         /\ Len(delivered[c]) + 1 <= Len(sent[c])
         /\ \A k \in 1..MaxMsgs :
              StartsWith(Remaining(c), k) <=> k = Len(delivered[c]) + 1
<1> DEFINE d == Len(delivered[c])
           p == processed[c]
           b == current_binary[c]
<1>1. d \in Nat /\ p \in Nat /\ b \in Seq(Nat) /\ Len(b) \in Nat
      /\ Len(sent[c]) \in Nat /\ Len(inbound[c]) \in Nat /\ MaxMsgs \in Nat
  BY NetAssumption DEF NetTypeOK
<1>2. p <= Len(b) /\ Len(sent[c]) <= MaxMsgs /\ d <= Len(sent[c])
  BY DEF Framed, InSync
<1>3. Remaining(c) \in Seq(Nat) /\ Len(Remaining(c)) = Len(b) - p
      /\ \A i \in 1..Len(Remaining(c)) : Remaining(c)[i] = b[p + i]
  BY <1>2, RemainingBytes
<1>4. 1 <= Len(Remaining(c))
  BY <1>3, EmptySeq
<1>5. 1 \in 1..Len(Remaining(c)) /\ p + 1 \in 1..Len(b)
  BY <1>1, <1>2, <1>3, <1>4, SMTT(30)
<1>6. d \in 0..MaxMsgs /\ MsgEnd[d] \in Nat /\ MsgEnd[Len(sent[c])] \in Nat
  BY <1>1, <1>2, MessageEnds
<1>7. Remaining(c)[1] = MsgEnd[d] + 1
  <2>1. Remaining(c)[1] = b[p + 1]
    BY <1>3, <1>5
  <2>2. b[p + 1] = (MsgEnd[d] - p) + (p + 1)
    BY <1>5 DEF InSync, Base
  <2> QED
    BY <2>1, <2>2, <1>1, <1>6
<1>8. d # Len(sent[c])
  <2>1. (MsgEnd[d] - p) + Len(b) + Len(inbound[c]) <= MsgEnd[Len(sent[c])]
    BY DEF InSync, Base
  <2>2. p < Len(b)
    BY <1>1, <1>5
  <2>3. SUFFICES ASSUME d = Len(sent[c]) PROVE FALSE
    OBVIOUS
  <2>4. (MsgEnd[d] - p) + Len(b) + Len(inbound[c]) <= MsgEnd[d]
    BY <2>1, <2>3
  <2> HIDE DEF d, p, b
  <2> QED
    BY <2>2, <2>4, <1>1, <1>6
<1>9. d + 1 \in 1..MaxMsgs /\ d + 1 <= Len(sent[c])
  BY <1>1, <1>2, <1>8, SMTT(30)
<1>10. ASSUME NEW k \in 1..MaxMsgs
       PROVE  StartsWith(Remaining(c), k) <=> k = d + 1
  <2>1. k - 1 \in 0..MaxMsgs /\ MsgEnd[k - 1] \in Nat
    BY <1>1, MessageEnds
  <2>2. StartsWith(Remaining(c), k) <=> MsgEnd[d] + 1 = MsgEnd[k - 1] + 1
    BY <1>7 DEF StartsWith
  <2>3. MsgEnd[d] + 1 = MsgEnd[k - 1] + 1 <=> d = k - 1
    BY <2>1, <1>6, MessageEnds, SMTT(30)
  <2> QED
    BY <2>2, <2>3, <1>1
<1> QED
  BY <1>9, <1>10

\* Reading a frame moves bytes from the wire to the buffer.
LEMMA FramedReadBinary ==
  ASSUME NetTypeOK, NetTypeOK', NEW c \in Client, Framed(c), ReadBinary(c)
  PROVE  Framed(c)'
<1> DEFINE b == current_binary[c]
           q == inbound[c]
<1>1. PICK n \in 1..Len(q) :
        /\ current_binary'[c] = b \o SubSeq(q, 1, n)
        /\ inbound'[c] = SubSeq(q, n + 1, Len(q))
  BY DEF ReadBinary, NetTypeOK
<1>2. b \in Seq(Nat) /\ q \in Seq(Nat) /\ Len(b) \in Nat /\ Len(q) \in Nat /\ n \in Nat
      /\ Len(delivered[c]) \in Nat /\ Len(sent[c]) \in Nat
  BY SMTT(30) DEF NetTypeOK
<1>3. /\ UNCHANGED <<sent[c], delivered[c], peer[c]>>
      /\ processed[c] = 0 /\ processed'[c] = 0 /\ worker'[c] = "parse"
  BY DEF ReadBinary, Goto, peerVars, Framed, NetTypeOK
<1>4. /\ SubSeq(q, 1, n) \in Seq(Nat)
      /\ Len(SubSeq(q, 1, n)) = n
      /\ \A i \in 1..n : SubSeq(q, 1, n)[i] = q[i]
  BY <1>2, Stretch, SMTT(30)
<1>5. /\ Len(inbound'[c]) = Len(q) - n
      /\ \A i \in 1..(Len(q) - n) : inbound'[c][i] = q[n + i]
  BY <1>1, <1>2, Stretch
<1>6. /\ Len(current_binary'[c]) = Len(b) + n
      /\ \A i \in 1..(Len(b) + n) :
           current_binary'[c][i] = IF i <= Len(b) THEN b[i] ELSE q[i - Len(b)]
  <2>1. /\ Len(b \o SubSeq(q, 1, n)) = Len(b) + n
        /\ \A i \in 1..(Len(b) + n) : (b \o SubSeq(q, 1, n))[i] =
             IF i <= Len(b) THEN b[i] ELSE SubSeq(q, 1, n)[i - Len(b)]
    BY <1>2, <1>4, ConcatProperties, SMTT(30)
  <2>2. \A i \in 1..(Len(b) + n) : ~(i <= Len(b)) => i - Len(b) \in 1..n
    BY <1>2
  <2> QED
    BY <1>1, <1>4, <2>1, <2>2
<1>7. CASE LostSync(c)
  <2>1. LostSync(c)'
    BY <1>2, <1>3, <1>7 DEF LostSync
  <2> QED
    BY <1>2, <1>3, <1>6, <2>1 DEF Framed
<1>8. CASE InSync(c)
  <2>1. Base(c)' = Base(c) /\ Base(c) = MsgEnd[Len(delivered[c])]
    <3>1. MsgEnd[Len(delivered[c])] \in Nat
      BY <1>2, <1>8, MessageEnds, NetAssumption DEF Framed, InSync
    <3> QED
      BY <1>3, <3>1 DEF Base
  <2>2. Base(c) \in Nat /\ MsgEnd[Len(sent[c])] \in Nat
    BY <1>2, <1>8, <2>1, MessageEnds, NetAssumption DEF Framed, InSync
  <2>3. /\ \A i \in 1..Len(b) : b[i] = Base(c) + i
        /\ \A i \in 1..Len(q) : q[i] = Base(c) + Len(b) + i
    BY <1>8 DEF InSync
  <2>4. \A i \in 1..Len(current_binary'[c]) : current_binary'[c][i] = Base(c) + i
    <3> SUFFICES ASSUME NEW i \in 1..(Len(b) + n)
                 PROVE  current_binary'[c][i] = Base(c) + i
      BY <1>6
    <3>1. CASE i <= Len(b)
      BY <1>2, <1>6, <2>3, <3>1
    <3>2. CASE ~(i <= Len(b))
      <4>1. i - Len(b) \in 1..Len(q)
        BY <1>2, <3>2
      <4>2. q[i - Len(b)] = Base(c) + Len(b) + (i - Len(b))
        BY <2>3, <4>1
      <4>3. Base(c) + Len(b) + (i - Len(b)) = Base(c) + i
        BY <1>2, <2>2
      <4>4. current_binary'[c][i] = q[i - Len(b)]
        BY <1>6, <3>2
      <4> QED
        BY <4>2, <4>3, <4>4
    <3> QED
      BY <3>1, <3>2
  <2>5. \A i \in 1..Len(inbound'[c]) :
          inbound'[c][i] = Base(c) + Len(current_binary'[c]) + i
    <3> SUFFICES ASSUME NEW i \in 1..(Len(q) - n)
                 PROVE  inbound'[c][i] = Base(c) + (Len(b) + n) + i
      BY <1>5, <1>6
    <3>1. n + i \in 1..Len(q)
      BY <1>2
    <3> QED
      BY <1>2, <1>5, <2>2, <2>3, <3>1, SMTT(30)
  <2>6. InSync(c)'
    <3>1. Base(c) + (Len(b) + n) + (Len(q) - n) = Base(c) + Len(b) + Len(q)
      BY <1>2, <2>2
    <3>2. Base(c) + Len(current_binary'[c]) + Len(inbound'[c]) = Base(c) + Len(b) + Len(q)
      BY <1>5, <1>6, <3>1
    <3> QED
      BY <1>3, <1>8, <2>1, <2>4, <2>5, <3>2 DEF InSync
  <2> QED
    BY <1>2, <1>3, <1>6, <2>6 DEF Framed
<1> QED
  BY <1>7, <1>8 DEF Framed

\* The message parsed in sync is the next one.
LEMMA FramedParseMessage ==
  ASSUME NetTypeOK, NetTypeOK', NEW c \in Client, Framed(c), ParseMessage(c)
  PROVE  Framed(c)'
<1> DEFINE d == Len(delivered[c])
           p == processed[c]
           b == current_binary[c]
<1>1. PICK k \in 1..MaxMsgs : Complete(Remaining(c), k) /\ Deliver(c, k, Size(k))
  BY DEF ParseMessage
<1>2. d \in Nat /\ p \in Nat /\ b \in Seq(Nat) /\ Len(b) \in Nat
      /\ delivered[c] \in Seq(Nat) /\ Len(sent[c]) \in Nat
      /\ k \in Nat /\ Size(k) \in Nat
  <2>1. k \in Nat /\ Size(k) \in Nat
    BY MessageEnds, NetAssumption
  <2> QED
    BY <2>1, SMTT(30) DEF NetTypeOK
<1>3. /\ UNCHANGED <<sent[c], inbound[c], current_binary[c], peer[c], worker[c]>>
      /\ processed'[c] = p + Size(k)
      /\ delivered'[c] = Append(delivered[c], k)
      /\ worker[c] = "parse"
  BY <1>1 DEF Deliver, NetTypeOK, workVars, peerVars
<1>4. /\ Len(delivered'[c]) = d + 1
      /\ \A i \in 1..d : delivered'[c][i] = delivered[c][i]
      /\ delivered'[c][d + 1] = k
  BY <1>2, <1>3
<1>5. Size(k) <= Len(b) - p
  BY <1>1, <1>2, RemainingBytes DEF Complete, Framed
<1>6. processed'[c] <= Len(current_binary'[c])
  BY <1>2, <1>3, <1>5
<1>7. CASE LostSync(c)
  <2>1. LostSync(c)'
    <3>1. /\ Len(sent[c]) <= Len(sent'[c])
          /\ Len(delivered[c]) <= Len(delivered'[c])
      BY <1>2, <1>3, <1>4
    <3> QED
      BY <1>4, <1>7, <3>1, LostKept
  <2> QED
    BY <1>3, <1>6, <2>1 DEF Framed
<1>8. CASE InSync(c)
  <2>1. k = d + 1 /\ d + 1 <= Len(sent[c])
    BY <1>1, <1>8, AtNextMessage DEF Complete, StartsWith
  <2>2. Base(c)' = Base(c)
    <3>1. d \in 0..MaxMsgs /\ MsgEnd[d] \in Nat /\ MsgEnd[k] \in Nat
      BY <1>2, <2>1, MessageEnds, NetAssumption
    <3>2. Size(k) = MsgEnd[k] - MsgEnd[d]
      BY <1>2, <2>1 DEF Size
    <3>3. Base(c)' = MsgEnd[k] - (p + Size(k))
      BY <1>3, <1>4, <2>1 DEF Base
    <3> QED
      BY <1>2, <3>1, <3>2, <3>3, SMTT(30) DEF Base
  <2>3. \A i \in 1..(d + 1) : delivered'[c][i] = i
    <3> SUFFICES ASSUME NEW i \in 1..(d + 1) PROVE delivered'[c][i] = i
      OBVIOUS
    <3>1. i \in 1..d \/ i = d + 1
      BY <1>2
    <3> QED
      BY <1>4, <1>8, <2>1, <3>1 DEF InSync
  <2>4. InSync(c)'
    BY <1>3, <1>4, <1>8, <2>1, <2>2, <2>3 DEF InSync
  <2> QED
    BY <1>3, <1>6, <2>4 DEF Framed
<1> QED
  BY <1>7, <1>8 DEF Framed

\* Garbage is parsed only when sync was lost.
LEMMA FramedParseGarbage ==
  ASSUME NetTypeOK, NetTypeOK', NEW c \in Client, Framed(c), ParseGarbage(c)
  PROVE  Framed(c)'
<1>1. PICK n \in 1..Len(Remaining(c)) : Deliver(c, 0, n)
  BY DEF ParseGarbage
<1>2. /\ UNCHANGED <<sent[c], inbound[c], current_binary[c], peer[c], worker[c]>>
      /\ processed'[c] = processed[c] + n
      /\ delivered'[c] = Append(delivered[c], 0)
      /\ worker[c] = "parse"
  BY <1>1 DEF Deliver, NetTypeOK, workVars, peerVars
<1>3. delivered[c] \in Seq(Nat) /\ Len(sent[c]) \in Nat
      /\ processed[c] \in Nat /\ Len(current_binary[c]) \in Nat
  BY SMTT(30) DEF NetTypeOK
<1>4. n <= Len(current_binary[c]) - processed[c]
  BY <1>3, RemainingBytes DEF Framed
<1>5. ~InSync(c)
  <2>1. Remaining(c) # <<>> /\ \A k \in 1..MaxMsgs : ~StartsWith(Remaining(c), k)
    BY DEF ParseGarbage, Garbage
  <2> QED
    BY <2>1, AtNextMessage
<1>6. LostSync(c)
  BY <1>5 DEF Framed
<1>7. LostSync(c)'
  <2>1. /\ Len(delivered[c]) <= Len(delivered'[c])
        /\ \A i \in 1..Len(delivered[c]) : delivered'[c][i] = delivered[c][i]
    BY <1>2, <1>3
  <2>2. Len(sent[c]) <= Len(sent'[c])
    BY <1>2, <1>3
  <2> QED
    BY <1>6, <2>1, <2>2, LostKept
<1> QED
  BY <1>2, <1>3, <1>4, <1>7 DEF Framed

\* Taking the processed bytes off the buffer keeps the framing.
LEMMA FramedDrainBuffer ==
  ASSUME NetTypeOK, NEW c \in Client, Framed(c), DrainBuffer(c, processed[c])
  PROVE  Framed(c)'
<1> DEFINE p == processed[c]
           b == current_binary[c]
<1>1. p \in Nat /\ b \in Seq(Nat) /\ Len(b) \in Nat /\ p <= Len(b)
      /\ Len(delivered[c]) \in Nat /\ Len(sent[c]) \in Nat /\ Len(inbound[c]) \in Nat
  BY DEF NetTypeOK, Framed
<1>2. /\ UNCHANGED <<sent[c], delivered[c], inbound[c], peer[c]>>
      /\ current_binary'[c] = SubSeq(b, p + 1, Len(b))
      /\ processed'[c] = 0 /\ worker'[c] = "loop"
  BY DEF DrainBuffer, Goto, NetTypeOK, peerVars
<1>3. /\ Len(current_binary'[c]) = Len(b) - p
      /\ \A i \in 1..(Len(b) - p) : current_binary'[c][i] = b[p + i]
  BY <1>1, <1>2, RemainingBytes DEF Remaining
<1>4. ASSUME InSync(c) PROVE InSync(c)'
  <2> DEFINE e == MsgEnd[Len(delivered[c])]
  <2>1. e \in Nat
    BY <1>1, <1>4, MessageEnds, NetAssumption DEF Framed, InSync
  <2>2. Base(c) = e - p /\ Base(c)' = e
    BY <1>1, <1>2, <2>1 DEF Base
  <2>3. \A i \in 1..(Len(b) - p) : current_binary'[c][i] = e + i
    <3> SUFFICES ASSUME NEW i \in 1..(Len(b) - p) PROVE current_binary'[c][i] = e + i
      OBVIOUS
    <3>1. p + i \in 1..Len(b)
      BY <1>1
    <3>2. b[p + i] = (e - p) + (p + i)
      BY <1>4, <2>2, <3>1 DEF InSync
    <3>3. (e - p) + (p + i) = e + i
      BY <1>1, <2>1
    <3> QED
      BY <1>3, <3>2, <3>3
  <2>4. e + (Len(b) - p) = (e - p) + Len(b)
    BY <1>1, <2>1
  <2> HIDE DEF e
  <2>5. \A i \in 1..Len(inbound[c]) : inbound[c][i] = e + (Len(b) - p) + i
    BY <1>4, <2>2, <2>4 DEF InSync
  <2>6. /\ e + (Len(b) - p) + Len(inbound[c]) <= MsgEnd[Len(sent[c])]
        /\ peer[c] = "open" => e + (Len(b) - p) + Len(inbound[c]) = MsgEnd[Len(sent[c])]
    BY <1>4, <2>2, <2>4 DEF InSync
  <2> QED
    BY <1>2, <1>3, <1>4, <2>2, <2>3, <2>5, <2>6 DEF InSync
<1>5. ASSUME LostSync(c) PROVE LostSync(c)'
  BY <1>2, <1>5 DEF LostSync
<1>6. processed'[c] <= Len(current_binary'[c])
  BY <1>1, <1>2, <1>3
<1> QED
  BY <1>2, <1>4, <1>5, <1>6 DEF Framed

\* An error other than a want of bytes is met only out of sync, or at a
\* malformed message, which is where sync is lost.
LEMMA FramedParseError ==
  ASSUME NetTypeOK, NetTypeOK', NEW c \in Client, Framed(c), ParseError(c)
  PROVE  Framed(c)'
<1>1. /\ UNCHANGED <<sent[c], delivered[c], inbound[c], peer[c]>>
      /\ processed'[c] = 0 /\ worker'[c] = "loop"
  BY DEF ParseError, DrainBuffer, Goto, NetTypeOK, peerVars
<1>2. Len(current_binary'[c]) \in Nat
  <2>1. current_binary'[c] \in Seq(Nat)
    BY DEF NetTypeOK
  <2> QED
    BY <2>1
<1>3. LostSync(c)
  <2> SUFFICES ASSUME InSync(c) PROVE LostSync(c)
    BY DEF Framed
  <2>1. PICK k \in 1..MaxMsgs : NotUtf8(Remaining(c), k)
    <3>1. ASSUME Garbage(Remaining(c)) PROVE FALSE
      <4>1. Remaining(c) # <<>> /\ \A k \in 1..MaxMsgs : ~StartsWith(Remaining(c), k)
        BY <3>1 DEF Garbage
      <4> QED
        BY <4>1, AtNextMessage
    <3> QED
      BY <3>1 DEF ParseError
  <2>2. k = Len(delivered[c]) + 1 /\ k <= Len(sent[c]) /\ k \in Malformed
    BY <2>1, AtNextMessage DEF NotUtf8, StartsWith
  <2>3. k - 1 = Len(delivered[c])
    <3>1. Len(delivered[c]) \in Nat
      BY DEF NetTypeOK
    <3> QED
      BY <2>2, <3>1
  <2> QED
    BY <2>2, <2>3 DEF InSync, LostSync
<1>4. LostSync(c)'
  BY <1>1, <1>3 DEF LostSync
<1> QED
  BY <1>1, <1>2, <1>4 DEF Framed

\* What the peer sends follows what is on the wire.
LEMMA FramedServerSend ==
  ASSUME NetTypeOK, NetTypeOK', NEW c \in Client, Framed(c), NEW m \in Msg,
         ServerSend(c, m)
  PROVE  Framed(c)'
<1> DEFINE n == Len(sent[c])
           q == inbound[c]
           bytes == [i \in 1..Size(n + 1) |-> MsgEnd[n] + i]
<1>1. n \in Nat /\ sent[c] \in Seq(Msg) /\ q \in Seq(Nat) /\ Len(q) \in Nat
      /\ Len(current_binary[c]) \in Nat /\ Len(delivered[c]) \in Nat
      /\ processed[c] \in Nat
  BY SMTT(30) DEF NetTypeOK
<1>2. n < MaxMsgs /\ n + 1 \in 1..MaxMsgs /\ n \in 0..MaxMsgs /\ peer[c] = "open"
  BY <1>1, NetAssumption, SMTT(30) DEF ServerSend
<1>3. MsgEnd[n] \in Nat /\ MsgEnd[n + 1] \in Nat /\ Size(n + 1) \in Nat
      /\ Size(n + 1) = MsgEnd[n + 1] - MsgEnd[n]
  <2>1. (n + 1) - 1 = n /\ n + 1 \in 0..MaxMsgs
    BY <1>1, <1>2, NetAssumption
  <2>2. Size(n + 1) = MsgEnd[n + 1] - MsgEnd[n]
    BY <2>1 DEF Size
  <2> QED
    BY <1>2, <2>1, <2>2, MessageEnds
<1>4. /\ UNCHANGED <<delivered[c], current_binary[c], processed[c], peer[c], worker[c]>>
      /\ sent'[c] = Append(sent[c], m)
      /\ inbound'[c] = q \o bytes
  BY DEF ServerSend, NetTypeOK, workVars
<1>5. Len(sent'[c]) = n + 1
  BY <1>1, <1>4
<1>6. /\ Len(q \o bytes) = Len(q) + Size(n + 1)
      /\ \A i \in 1..(Len(q) + Size(n + 1)) :
           (q \o bytes)[i] = IF i <= Len(q) THEN q[i] ELSE MsgEnd[n] + (i - Len(q))
  <2>1. bytes \in Seq(Nat)
    <3>1. \A i \in 1..Size(n + 1) : MsgEnd[n] + i \in Nat
      BY <1>3
    <3> QED
      BY <1>3, <3>1, IsASeq
  <2>2. Len(bytes) = Size(n + 1) /\ \A i \in 1..Size(n + 1) : bytes[i] = MsgEnd[n] + i
    BY <1>3
  <2> HIDE DEF bytes
  <2>3. /\ Len(q \o bytes) = Len(q) + Len(bytes)
        /\ \A i \in 1..(Len(q) + Len(bytes)) :
             (q \o bytes)[i] = IF i <= Len(q) THEN q[i] ELSE bytes[i - Len(q)]
    BY <1>1, <2>1, ConcatProperties
  <2>4. \A i \in 1..(Len(q) + Size(n + 1)) : ~(i <= Len(q)) => i - Len(q) \in 1..Size(n + 1)
    BY <1>1, <1>3
  <2> QED
    BY <2>2, <2>3, <2>4
<1>7. ASSUME LostSync(c) PROVE LostSync(c)'
  <2>1. Len(sent[c]) <= Len(sent'[c]) /\ Len(delivered[c]) <= Len(delivered'[c])
    BY <1>1, <1>4, <1>5
  <2> QED
    BY <1>4, <1>7, <2>1, LostKept
<1>8. ASSUME InSync(c) PROVE InSync(c)'
  <2> DEFINE e == Base(c) + Len(current_binary[c])
  <2>1. MsgEnd[Len(delivered[c])] \in Nat
    BY <1>1, <1>2, <1>8, MessageEnds, NetAssumption DEF InSync
  <2>2. Base(c)' = Base(c) /\ Base(c) \in Int /\ e \in Int
    BY <1>1, <1>4, <2>1 DEF Base
  <2> HIDE DEF e
  <2>3. e + Len(q) = MsgEnd[n] /\ \A i \in 1..Len(q) : q[i] = e + i
    BY <1>2, <1>8 DEF InSync, e
  <2>4. \A i \in 1..(Len(q) + Size(n + 1)) : (q \o bytes)[i] = e + i
    <3> SUFFICES ASSUME NEW i \in 1..(Len(q) + Size(n + 1)) PROVE (q \o bytes)[i] = e + i
      OBVIOUS
    <3> HIDE DEF bytes
    <3>1. CASE i <= Len(q)
      BY <1>1, <1>6, <2>3, <3>1
    <3>2. CASE ~(i <= Len(q))
      <4>1. MsgEnd[n] + (i - Len(q)) = e + i
        BY <1>1, <1>3, <2>2, <2>3
      <4> QED
        BY <1>6, <3>2, <4>1
    <3> QED
      BY <3>1, <3>2
  <2>5. e + (Len(q) + Size(n + 1)) = MsgEnd[n + 1]
    BY <1>1, <1>3, <2>2, <2>3, SMTT(30)
  <2>6. e + Len(inbound'[c]) = MsgEnd[Len(sent'[c])]
    BY <1>4, <1>5, <1>6, <2>5
  <2>7. \A i \in 1..Len(inbound'[c]) : inbound'[c][i] = e + i
    BY <1>4, <1>6, <2>4
  <2>8. MsgEnd[Len(sent'[c])] \in Nat
    BY <1>3, <1>5
  <2>9. Len(delivered'[c]) <= Len(sent'[c])
    BY <1>1, <1>4, <1>5, <1>8 DEF InSync
  <2>10. e = Base(c)' + Len(current_binary'[c])
    BY <1>4, <2>2 DEF e
  <2>11. e + Len(inbound'[c]) <= MsgEnd[Len(sent'[c])]
    BY <2>6, <2>8
  <2> QED
    BY <1>4, <1>8, <2>2, <2>6, <2>7, <2>9, <2>10, <2>11 DEF InSync
<1>9. Len(sent'[c]) <= MaxMsgs
  BY <1>2, <1>5
<1> QED
  BY <1>4, <1>7, <1>8, <1>9 DEF Framed

\* A reset loses the end of what is on the wire.
LEMMA FramedPeerFault ==
  ASSUME NetTypeOK, NEW c \in Client, Framed(c), PeerFault(c)
  PROVE  Framed(c)'
<1> DEFINE q == inbound[c]
<1>1. PICK n \in 0..Len(q) : inbound'[c] = SubSeq(q, 1, n)
  BY DEF PeerFault, NetTypeOK
<1>2. q \in Seq(Nat) /\ Len(q) \in Nat /\ n \in Nat /\ n <= Len(q)
      /\ Len(delivered[c]) \in Nat /\ processed[c] \in Nat
      /\ Len(current_binary[c]) \in Nat /\ Len(sent[c]) \in Nat
  BY DEF NetTypeOK
<1>3. /\ UNCHANGED <<sent[c], delivered[c], current_binary[c], processed[c], worker[c]>>
      /\ peer'[c] # "open"
  BY DEF PeerFault, NetTypeOK, PeerState, workVars
<1>4. Len(inbound'[c]) = n /\ \A i \in 1..n : inbound'[c][i] = q[i]
  BY <1>1, <1>2, Stretch
<1>5. ASSUME LostSync(c) PROVE LostSync(c)'
  BY <1>3, <1>5 DEF LostSync
<1>6. ASSUME InSync(c) PROVE InSync(c)'
  <2> DEFINE e == Base(c) + Len(current_binary[c])
             f == MsgEnd[Len(sent[c])]
  <2>1. MsgEnd[Len(delivered[c])] \in Nat /\ f \in Nat
    BY <1>2, <1>6, MessageEnds, NetAssumption DEF InSync, Framed
  <2>2. Base(c)' = Base(c) /\ e \in Int
    BY <1>2, <1>3, <2>1 DEF Base
  <2>3. e + Len(q) <= f /\ \A i \in 1..Len(q) : q[i] = e + i
    BY <1>6 DEF InSync
  <2>4. e = Base(c)' + Len(current_binary'[c]) /\ f = MsgEnd[Len(sent'[c])]
    BY <1>3, <2>2
  <2> HIDE DEF e, f
  <2>5. e + n <= f /\ \A i \in 1..n : q[i] = e + i
    BY <1>2, <2>1, <2>2, <2>3
  <2>6. e + Len(inbound'[c]) <= f /\ \A i \in 1..Len(inbound'[c]) : inbound'[c][i] = e + i
    BY <1>4, <2>5
  <2> QED
    BY <1>3, <1>6, <2>2, <2>4, <2>6 DEF InSync
<1> QED
  BY <1>3, <1>5, <1>6 DEF Framed

\* The worker keeps a connection's framing.
LEMMA FramedWork ==
  ASSUME NetTypeOK, NetTypeOK', NEW c \in Client, Framed(c), Work(c)
  PROVE  Framed(c)'
<1>1. CASE Loop(c)
  BY <1>1, FramedKept DEF Loop, Goto, Framed, NetTypeOK, readVars, peerVars
<1>2. CASE WriteOk(c)
  BY <1>2, FramedKept DEF WriteOk, Framed, readVars, peerVars
<1>3. CASE WriteErr(c)
  BY <1>3, FramedKept DEF WriteErr, Goto, Framed, NetTypeOK, readVars, peerVars
<1>4. CASE TakeDisconnect(c)
  BY <1>4, FramedKept DEF TakeDisconnect, Goto, Framed, NetTypeOK, readVars, peerVars
<1>5. CASE Drained(c)
  BY <1>5, FramedKept DEF Drained, Goto, Framed, NetTypeOK, readVars, peerVars
<1>6. CASE ReadBinary(c)
  BY <1>6, FramedReadBinary
<1>7. CASE ReadNothing(c)
  BY <1>7, FramedKept DEF ReadNothing, Goto, Framed, NetTypeOK, readVars, peerVars
<1>8. CASE ReadClosed(c)
  BY <1>8, FramedKept DEF ReadClosed, Goto, Framed, NetTypeOK, readVars, peerVars
<1>9. CASE Close(c)
  BY <1>9, FramedKept DEF Close, Goto, Framed, NetTypeOK, readVars, peerVars
<1>10. CASE ParseMessage(c)
  BY <1>10, FramedParseMessage
<1>11. CASE ParseGarbage(c)
  BY <1>11, FramedParseGarbage
<1>12. CASE ParsePause(c)
  BY <1>12, FramedDrainBuffer DEF ParsePause
<1>13. CASE ParseError(c)
  BY <1>13, FramedParseError
<1> QED
  BY <1>1, <1>2, <1>3, <1>4, <1>5, <1>6, <1>7, <1>8, <1>9, <1>10, <1>11, <1>12, <1>13
  DEF Work

\* A client's reading is disturbed by no step of another client.
LEMMA FramedOthers ==
  ASSUME NetTypeOK, NEW c \in Client, NEW x \in Client, x # c, Framed(x)
  PROVE  /\ Connect(c) => Framed(x)'
         /\ Work(c) => Framed(x)'
         /\ PeerFault(c) => Framed(x)'
         /\ \A m \in Msg : ServerSend(c, m) => Framed(x)'
<1> DEFINE Same == UNCHANGED <<sent[x], delivered[x], inbound[x], current_binary[x],
                               processed[x], peer[x], worker[x]>>
<1>1. Same => Framed(x)'
  BY FramedKept DEF Framed
<1>2. Connect(c) => Same
  BY DEF Connect, NetTypeOK, readVars, peerVars
<1>3. PeerFault(c) => Same
  BY DEF PeerFault, NetTypeOK, readVars, workVars
<1>4. \A m \in Msg : ServerSend(c, m) => Same
  BY DEF ServerSend, NetTypeOK, workVars
<1>5. Loop(c) \/ WriteOk(c) \/ WriteErr(c) \/ TakeDisconnect(c) \/ Drained(c) => Same
  BY DEF Loop, WriteOk, WriteErr, TakeDisconnect, Drained, Goto, NetTypeOK, readVars, peerVars
<1>6. ReadNothing(c) \/ ReadClosed(c) \/ Close(c) => Same
  BY DEF ReadNothing, ReadClosed, Close, Goto, NetTypeOK, readVars, peerVars
<1>7. ReadBinary(c) => Same
  BY DEF ReadBinary, Goto, NetTypeOK, peerVars
<1>8. ParseMessage(c) \/ ParseGarbage(c) => Same
  <2>1. ASSUME NEW k, NEW n, Deliver(c, k, n) PROVE Same
    BY <2>1 DEF Deliver, NetTypeOK, workVars, peerVars
  <2> QED
    BY <2>1 DEF ParseMessage, ParseGarbage
<1>9. ParsePause(c) \/ ParseError(c) => Same
  <2>1. ASSUME NEW n, DrainBuffer(c, n) PROVE Same
    BY <2>1 DEF DrainBuffer, Goto, NetTypeOK, peerVars
  <2> QED
    BY <2>1 DEF ParsePause, ParseError
<1>10. Work(c) => Same
  BY <1>5, <1>6, <1>7, <1>8, <1>9 DEF Work
<1> QED
  BY <1>1, <1>2, <1>3, <1>4, <1>10

\* Every step keeps the framing of every connection.
LEMMA FramingStep == NetTypeOK /\ NetTypeOK' /\ FramingInv /\ [NetNext]_netVars => FramingInv'
<1> SUFFICES ASSUME NetTypeOK, NetTypeOK', FramingInv, [NetNext]_netVars,
                    NEW x \in Client
             PROVE  Framed(x)'
  BY DEF FramingInv
<1>0. Framed(x)
  BY DEF FramingInv
<1>1. CASE UNCHANGED netVars
  BY <1>0, <1>1, FramedKept DEF netVars, sendVars, workVars, readVars, peerVars, Framed
<1>2. ASSUME NEW c \in Client, Connect(c) \/ Work(c) \/ PeerFault(c) PROVE Framed(x)'
  <2>1. CASE x # c
    BY <1>0, <1>2, <2>1, FramedOthers
  <2>2. CASE x = c /\ Connect(c)
    BY <1>0, <2>2, FramedKept DEF Connect, Framed, NetTypeOK, readVars, peerVars
  <2>3. CASE x = c /\ Work(c)
    BY <1>0, <2>3, FramedWork
  <2>4. CASE x = c /\ PeerFault(c)
    BY <1>0, <2>4, FramedPeerFault
  <2> QED
    BY <1>2, <2>1, <2>2, <2>3, <2>4
<1>3. ASSUME NEW c \in Client, NEW m \in Msg, ServerSend(c, m) PROVE Framed(x)'
  <2>1. CASE x # c
    BY <1>0, <1>3, <2>1, FramedOthers
  <2>2. CASE x = c
    BY <1>0, <1>3, <2>2, FramedServerSend
  <2> QED
    BY <2>1, <2>2
<1>4. ASSUME NEW t \in Caller, NEW c \in Client, NEW cmd \in Cmd \cup {Disconnect},
             SendCheck(t, c, cmd)
      PROVE  Framed(x)'
  BY <1>0, <1>4, FramedKept DEF SendCheck, Framed, workVars, readVars, peerVars
<1>5. ASSUME NEW t \in Caller, SendOk(t) \/ SendErr(t) PROVE Framed(x)'
  BY <1>0, <1>5, FramedKept DEF SendOk, SendErr, Framed, workVars, readVars, peerVars
<1> QED
  BY <1>1, <1>2, <1>3, <1>4, <1>5 DEF NetNext

\* Framing holds at first.
LEMMA FramingInit == NetInit => FramingInv
<1> SUFFICES ASSUME NetInit, NEW c \in Client PROVE Framed(c)
  BY DEF FramingInv
<1>1. /\ sent[c] = <<>> /\ inbound[c] = <<>> /\ current_binary[c] = <<>>
      /\ delivered[c] = <<>> /\ processed[c] = 0
  BY DEF NetInit
<1>2. MsgEnd[0] = 0 /\ 0 <= MaxMsgs
  BY NetAssumption
<1> QED
  BY <1>1, <1>2 DEF Framed, InSync, Base

-----------------------------------------------------------------------------
(* The writing half. *)

Increasing(c) ==
  \A i, j \in 1..Len(written[c]) : i < j => written[c][i] < written[c][j]

Accounted(c) ==
  \A i \in 1..taken[c] :
    \/ cmds[c][i] = Disconnect
    \/ \E j \in 1..Len(written[c]) : written[c][j] = i
    \/ i = taken[c] /\ ~connected[c]

Flagged(c) ==
  /\ worker[c] = "drain" => connected[c]
  /\ worker[c] = "none" => ~connected[c] /\ taken[c] = 0
  /\ worker[c] \in {"close", "done"} => ~connected[c]

Writes(c) ==
  /\ taken[c] <= Len(cmds[c])
  /\ \A i \in 1..Len(written[c]) : written[c][i] \in 1..taken[c]
  /\ Increasing(c)
  /\ Accounted(c)
  /\ Flagged(c)

\* The parts of NetInv that speak of writing, one client at a time.
LEMMA WritesParts ==
  (\A c \in Client : Writes(c)) <=> WritingInv /\ WrittenFaithfully /\ FlagFollowsWorker
<1>1. ASSUME \A c \in Client : Writes(c)
      PROVE  WritingInv /\ WrittenFaithfully /\ FlagFollowsWorker
  BY <1>1 DEF Writes, Increasing, Accounted, Flagged, WritingInv, WrittenFaithfully,
              FlagFollowsWorker
<1>2. ASSUME WritingInv, WrittenFaithfully, FlagFollowsWorker, NEW c \in Client
      PROVE  Writes(c)
  BY <1>2 DEF Writes, Increasing, Accounted, Flagged, WritingInv, WrittenFaithfully,
              FlagFollowsWorker
<1> QED
  BY <1>1, <1>2

\* A step that takes and writes nothing, and does not raise the flag.
LEMMA WritesKept ==
  ASSUME NEW c \in Client, NetTypeOK, Writes(c),
         UNCHANGED <<cmds[c], taken[c], written[c]>>,
         Flagged(c)', connected'[c] => connected[c] \/ taken[c] = 0
  PROVE  Writes(c)'
<1>1. taken[c] \in Nat
  BY DEF NetTypeOK
<1>2. Increasing(c)'
  BY DEF Writes, Increasing
<1>3. Accounted(c)'
  BY <1>1 DEF Writes, Accounted
<1> QED
  BY <1>2, <1>3 DEF Writes

\* A command written is the last one taken.
LEMMA WritesWriteOk ==
  ASSUME NetTypeOK, NEW c \in Client, Writes(c), WriteOk(c)
  PROVE  Writes(c)'
<1> DEFINE n == taken[c]
           w == written[c]
<1>1. n \in Nat /\ w \in Seq(Nat) /\ Len(w) \in Nat /\ Len(cmds[c]) \in Nat
  BY DEF NetTypeOK
<1>2. /\ UNCHANGED <<cmds[c], connected[c], worker[c]>>
      /\ taken'[c] = n + 1 /\ written'[c] = Append(w, n + 1)
      /\ n < Len(cmds[c]) /\ worker[c] = "drain"
  BY DEF WriteOk, TryRecv, HasCommand, NetTypeOK, sendVars
<1>3. /\ Len(written'[c]) = Len(w) + 1
      /\ \A i \in 1..Len(w) : written'[c][i] = w[i]
      /\ written'[c][Len(w) + 1] = n + 1
  BY <1>1, <1>2
<1>4. \A i \in 1..Len(w) : w[i] \in 1..n
  BY DEF Writes
<1>5. \A i \in 1..(Len(w) + 1) : i \in 1..Len(w) \/ i = Len(w) + 1
  BY <1>1
<1>6. \A i \in 1..Len(written'[c]) : written'[c][i] \in 1..taken'[c]
  BY <1>1, <1>2, <1>3, <1>4, <1>5
<1>7. Increasing(c)'
  <2> SUFFICES ASSUME NEW i \in 1..(Len(w) + 1), NEW j \in 1..(Len(w) + 1), i < j
               PROVE  written'[c][i] < written'[c][j]
    BY <1>3 DEF Increasing
  <2>1. i \in 1..Len(w)
    BY <1>1
  <2>2. CASE j \in 1..Len(w)
    BY <1>3, <2>1, <2>2 DEF Writes, Increasing
  <2>3. CASE j = Len(w) + 1
    <3>1. written'[c][i] \in 1..n /\ written'[c][j] = n + 1
      BY <1>3, <1>4, <2>1, <2>3
    <3> QED
      BY <1>1, <3>1
  <2> QED
    BY <1>5, <2>2, <2>3
<1>8. Accounted(c)'
  <2> SUFFICES ASSUME NEW i \in 1..(n + 1)
               PROVE  \/ cmds[c][i] = Disconnect
                      \/ \E j \in 1..Len(written'[c]) : written'[c][j] = i
    BY <1>2 DEF Accounted
  <2>1. CASE i = n + 1
    BY <1>1, <1>3, <2>1
  <2>2. CASE i \in 1..n
    <3>1. cmds[c][i] = Disconnect \/ \E j \in 1..Len(w) : w[j] = i
      <4>1. connected[c]
        BY DEF WriteOk, Writes, Flagged
      <4> QED
        BY <2>2, <4>1 DEF Writes, Accounted
    <3>2. ASSUME NEW j \in 1..Len(w), w[j] = i
          PROVE  \E k \in 1..Len(written'[c]) : written'[c][k] = i
      <4>1. j \in 1..Len(written'[c]) /\ written'[c][j] = i
        BY <1>1, <1>3, <3>2
      <4> QED
        BY <4>1
    <3> QED
      BY <3>1, <3>2
  <2> QED
    BY <1>1, <2>1, <2>2
<1>9. taken'[c] <= Len(cmds'[c]) /\ Flagged(c)'
  BY <1>1, <1>2 DEF Writes, Flagged
<1> QED
  BY <1>6, <1>7, <1>8, <1>9 DEF Writes

\* A command is taken and not written: a Disconnect, or the write failed.
LEMMA WritesTaken ==
  ASSUME NetTypeOK, NEW c \in Client, Writes(c),
         WriteErr(c) \/ TakeDisconnect(c)
  PROVE  Writes(c)'
<1> DEFINE n == taken[c]
<1>1. n \in Nat /\ Len(cmds[c]) \in Nat /\ Len(written[c]) \in Nat
  BY DEF NetTypeOK
<1>2. /\ UNCHANGED <<cmds[c], written[c]>>
      /\ taken'[c] = n + 1 /\ n < Len(cmds[c])
      /\ worker[c] = "drain" /\ worker'[c] = "read"
      /\ cmds[c][n + 1] = Disconnect \/ ~connected'[c]
  BY DEF WriteErr, TakeDisconnect, TryRecv, HasCommand, NextCommand, Goto, NetTypeOK, sendVars
<1>3. connected[c]
  BY <1>2 DEF Writes, Flagged
<1>4. Increasing(c)' /\ Flagged(c)'
  BY <1>2 DEF Writes, Increasing, Flagged
<1>5. \A i \in 1..Len(written'[c]) : written'[c][i] \in 1..taken'[c]
  BY <1>1, <1>2 DEF Writes
<1>6. Accounted(c)'
  <2> SUFFICES ASSUME NEW i \in 1..(n + 1)
               PROVE  \/ cmds'[c][i] = Disconnect
                      \/ \E j \in 1..Len(written'[c]) : written'[c][j] = i
                      \/ i = taken'[c] /\ ~connected'[c]
    BY <1>2 DEF Accounted
  <2>1. CASE i = n + 1
    BY <1>2, <2>1
  <2>2. CASE i \in 1..n
    BY <1>2, <1>3, <2>2 DEF Writes, Accounted
  <2> QED
    BY <1>1, <2>1, <2>2
<1> QED
  BY <1>1, <1>2, <1>4, <1>5, <1>6 DEF Writes

\* The worker keeps the account of commands.
LEMMA WritesWork ==
  ASSUME NetTypeOK, NEW c \in Client, Writes(c), Work(c)
  PROVE  Writes(c)'
<1>1. CASE Loop(c)
  BY <1>1, WritesKept DEF Loop, Goto, Writes, Flagged, NetTypeOK, sendVars
<1>2. CASE WriteOk(c)
  BY <1>2, WritesWriteOk
<1>3. CASE WriteErr(c) \/ TakeDisconnect(c)
  BY <1>3, WritesTaken
<1>4. CASE Drained(c) \/ ReadBinary(c) \/ ReadNothing(c)
  BY <1>4, WritesKept DEF Drained, ReadBinary, ReadNothing, Goto, Writes, Flagged,
                          NetTypeOK, sendVars
<1>5. CASE ReadClosed(c)
  BY <1>5, WritesKept DEF ReadClosed, Goto, Writes, Flagged, NetTypeOK, sendVars
<1>6. CASE Close(c)
  BY <1>6, WritesKept DEF Close, Goto, Writes, Flagged, NetTypeOK, sendVars
<1>7. CASE ParseMessage(c) \/ ParseGarbage(c)
  <2>1. UNCHANGED <<connected, worker, taken, written, cmds>>
    BY <1>7 DEF ParseMessage, ParseGarbage, Deliver, workVars, sendVars
  <2> QED
    BY <2>1, WritesKept DEF Writes, Flagged
<1>8. CASE ParsePause(c) \/ ParseError(c)
  <2>1. UNCHANGED <<connected, taken, written, cmds>> /\ worker'[c] = "loop"
    BY <1>8 DEF ParsePause, ParseError, DrainBuffer, Goto, NetTypeOK, sendVars
  <2> QED
    BY <2>1, WritesKept DEF Writes, Flagged
<1> QED
  BY <1>1, <1>2, <1>3, <1>4, <1>5, <1>6, <1>7, <1>8 DEF Work

\* Every step keeps it.
LEMMA WritingStep ==
  NetTypeOK /\ (\A c \in Client : Writes(c)) /\ [NetNext]_netVars =>
    (\A c \in Client : Writes(c))'
<1> SUFFICES ASSUME NetTypeOK, \A c \in Client : Writes(c), [NetNext]_netVars,
                    NEW x \in Client
             PROVE  Writes(x)'
  OBVIOUS
<1> DEFINE Same == UNCHANGED <<cmds[x], taken[x], written[x], connected[x], worker[x]>>
<1>0. Same => Writes(x)'
  BY DEF Writes, Increasing, Accounted, Flagged
<1>1. CASE UNCHANGED netVars
  BY <1>0, <1>1 DEF netVars, sendVars, workVars, readVars, peerVars
<1>2. ASSUME NEW c \in Client, Connect(c) PROVE Writes(x)'
  <2>1. CASE x # c
    BY <1>0, <1>2, <2>1 DEF Connect, NetTypeOK, sendVars
  <2>2. CASE x = c
    BY <1>2, <2>2, WritesKept DEF Connect, Writes, Flagged, NetTypeOK, sendVars
  <2> QED
    BY <2>1, <2>2
<1>3. ASSUME NEW c \in Client, Work(c) PROVE Writes(x)'
  <2>1. CASE x = c
    BY <1>3, <2>1, WritesWork
  <2>2. CASE x # c
    <3>1. CASE Loop(c) \/ WriteOk(c) \/ WriteErr(c) \/ TakeDisconnect(c) \/ Drained(c)
      BY <1>0, <2>2, <3>1 DEF Loop, WriteOk, WriteErr, TakeDisconnect, Drained, Goto,
                              TryRecv, NetTypeOK, sendVars
    <3>2. CASE ReadBinary(c) \/ ReadNothing(c) \/ ReadClosed(c) \/ Close(c)
      BY <1>0, <2>2, <3>2 DEF ReadBinary, ReadNothing, ReadClosed, Close, Goto,
                              NetTypeOK, sendVars
    <3>3. CASE ParseMessage(c) \/ ParseGarbage(c)
      BY <1>0, <2>2, <3>3 DEF ParseMessage, ParseGarbage, Deliver, workVars, sendVars
    <3>4. CASE ParsePause(c) \/ ParseError(c)
      BY <1>0, <2>2, <3>4 DEF ParsePause, ParseError, DrainBuffer, Goto, NetTypeOK, sendVars
    <3> QED
      BY <1>3, <3>1, <3>2, <3>3, <3>4 DEF Work
  <2> QED
    BY <2>1, <2>2
<1>4. ASSUME NEW c \in Client, PeerFault(c) PROVE Writes(x)'
  BY <1>0, <1>4 DEF PeerFault, workVars, sendVars
<1>5. ASSUME NEW c \in Client, NEW m \in Msg, ServerSend(c, m) PROVE Writes(x)'
  BY <1>0, <1>5 DEF ServerSend, workVars, sendVars
<1>6. ASSUME NEW t \in Caller, NEW c \in Client, NEW cmd \in Cmd \cup {Disconnect},
             SendCheck(t, c, cmd)
      PROVE  Writes(x)'
  BY <1>0, <1>6 DEF SendCheck, workVars
<1>7. ASSUME NEW t \in Caller, SendErr(t) PROVE Writes(x)'
  BY <1>0, <1>7 DEF SendErr, workVars
<1>8. ASSUME NEW t \in Caller, SendOk(t) PROVE Writes(x)'
  <2> DEFINE d == pending[t].client
             n == Len(cmds[x])
  <2>1. d \in Client /\ cmds' = [cmds EXCEPT ![d] = Append(cmds[d], pending[t].cmd)]
    BY <1>8 DEF SendOk, NetTypeOK
  <2>2. UNCHANGED <<taken, written, connected, worker>>
    BY <1>8 DEF SendOk, workVars
  <2>3. CASE x # d
    BY <1>0, <2>1, <2>2, <2>3 DEF NetTypeOK
  <2>4. CASE x = d
    <3>1. cmds[x] \in Seq(Cmd \cup {Disconnect}) /\ n \in Nat /\ taken[x] \in Nat
      BY DEF NetTypeOK
    <3>2. cmds'[x] = Append(cmds[x], pending[t].cmd)
      BY <2>1, <2>4 DEF NetTypeOK
    <3>3. Len(cmds'[x]) = n + 1 /\ \A i \in 1..n : cmds'[x][i] = cmds[x][i]
      BY <3>1, <3>2
    <3>4. taken[x] <= n
      BY DEF Writes
    <3>5. Accounted(x)'
      <4> SUFFICES ASSUME NEW i \in 1..taken[x]
                   PROVE  \/ cmds'[x][i] = Disconnect
                          \/ \E j \in 1..Len(written[x]) : written[x][j] = i
                          \/ i = taken[x] /\ ~connected[x]
        BY <2>2 DEF Accounted
      <4>1. i \in 1..n
        BY <3>1, <3>4
      <4> QED
        BY <3>3, <4>1 DEF Writes, Accounted
    <3>6. Increasing(x)' /\ Flagged(x)'
      BY <2>2 DEF Writes, Increasing, Flagged
    <3>7. taken'[x] <= Len(cmds'[x])
      BY <2>2, <3>1, <3>3, <3>4
    <3> QED
      BY <2>2, <3>5, <3>6, <3>7 DEF Writes
  <2> QED
    BY <2>3, <2>4
<1> QED
  BY <1>1, <1>2, <1>3, <1>4, <1>5, <1>6, <1>7, <1>8 DEF NetNext

\* It holds at first.
LEMMA WritingInit == NetInit => \A c \in Client : Writes(c)
BY DEF NetInit, Writes, Increasing, Accounted, Flagged

-----------------------------------------------------------------------------
(* The theorems. *)

\* NetInv is inductive: it holds at first and every step of every thread, of
\* the peer and of the network keeps it.
THEOREM Inductive == NetSpec => []NetInv
<1>1. NetInit => NetInv
  BY TypeInit, FramingInit, WritingInit, WritesParts DEF NetInv
<1>2. NetInv /\ [NetNext]_netVars => NetInv'
  <2> SUFFICES ASSUME NetInv, [NetNext]_netVars PROVE NetInv'
    OBVIOUS
  <2>1. NetTypeOK /\ FramingInv /\ \A c \in Client : Writes(c)
    BY WritesParts DEF NetInv
  <2>2. NetTypeOK'
    BY <2>1, TypeStep
  <2>3. FramingInv'
    BY <2>1, <2>2, FramingStep
  <2>4. (\A c \in Client : Writes(c))'
    BY <2>1, WritingStep
  <2>5. (WritingInv /\ WrittenFaithfully /\ FlagFollowsWorker)'
    BY <2>4, WritesParts, PTL
  <2> QED
    BY <2>2, <2>3, <2>5 DEF NetInv
<1> QED
  BY <1>1, <1>2, PTL DEF NetSpec

\* The variables keep their types, whatever the peer sends.
THEOREM TypeCorrect == NetSpec => []NetTypeOK
<1>1. NetInv => NetTypeOK
  BY DEF NetInv
<1> QED
  BY <1>1, Inductive, PTL

\* Messages reach the callback in order, each once and none skipped, up to the
\* first that unmarshal rejects, whatever frames carry them.
THEOREM DeliveredInOrder == NetSpec => []InOrderDelivery
<1>1. NetInv => InOrderDelivery
  <2> SUFFICES ASSUME NetInv, NEW c \in Client, NEW i \in 1..Len(delivered[c]),
                      \A j \in 1..i : j \notin Malformed
               PROVE  delivered[c][i] = i /\ i <= Len(sent[c])
    BY DEF InOrderDelivery
  <2>1. i \in Nat /\ i >= 1 /\ Len(sent[c]) \in Nat /\ Len(delivered[c]) \in Nat
    BY DEF NetInv, NetTypeOK
  <2>2. CASE InSync(c)
    BY <2>1, <2>2 DEF InSync
  <2>3. CASE LostSync(c)
    <3>1. PICK m \in Malformed :
            m <= Len(sent[c]) /\ \A j \in 1..(m - 1) : delivered[c][j] = j
      BY <2>3 DEF LostSync
    <3>2. m \in Nat /\ m >= 1
      BY NetAssumption
    <3>3. i < m
      BY <2>1, <3>2
    <3> QED
      BY <2>1, <3>1, <3>2, <3>3
  <2> QED
    BY <2>2, <2>3 DEF NetInv, FramingInv, Framed
<1> QED
  BY <1>1, Inductive, PTL

\* Commands reach the socket in order and none is dropped silently.
THEOREM WrittenInOrder == NetSpec => []WrittenFaithfully
<1>1. NetInv => WrittenFaithfully
  BY DEF NetInv
<1> QED
  BY <1>1, Inductive, PTL

\* A worker that is ending has lowered the flag.
THEOREM FlagTruthful == NetSpec => []FlagFollowsWorker
<1>1. NetInv => FlagFollowsWorker
  BY DEF NetInv
<1> QED
  BY <1>1, Inductive, PTL
=============================================================================
