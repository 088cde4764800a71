--------------------------- MODULE RemoteAudioProofs ---------------------------
(***************************************************************************)
(* Proofs about RemoteAudio, for any ways to use it: any calls in any       *)
(* number, any replies, a looper whose wake pipe blocks or does not.        *)
(***************************************************************************)
EXTENDS RemoteAudio, TLAPS

(***************************************************************************)
(* Which messages a sequence holds.  The looper's messages are asked for   *)
(* by what, commands and replies on the socket by cmd.                     *)
(***************************************************************************)
Asked(s, c) == \E i \in DOMAIN s : s[i].what = c
Said(s, c)  == \E i \in DOMAIN s : s[i].cmd = c

OnceAsked(s, c) == \A i, j \in DOMAIN s : s[i].what = c /\ s[j].what = c => i = j
OnceSaid(s, c)  == \A i, j \in DOMAIN s : s[i].cmd = c /\ s[j].cmd = c => i = j

\* c, and no d behind it.
AskedAfter(s, c, d) ==
  \E i \in DOMAIN s : s[i].what = c /\ \A j \in DOMAIN s : j > i => s[j].what # d
SaidAfter(s, c, d) ==
  \E i \in DOMAIN s : s[i].cmd = c /\ \A j \in DOMAIN s : j > i => s[j].cmd # d

LEMMA EmptyAsked ==
  ASSUME NEW c
  PROVE  ~Asked(<<>>, c) /\ OnceAsked(<<>>, c)
BY DEF Asked, OnceAsked

LEMMA EmptySaid ==
  ASSUME NEW c
  PROVE  ~Said(<<>>, c) /\ OnceSaid(<<>>, c)
BY DEF Said, OnceSaid

LEMMA AppendAt ==
  ASSUME NEW S, NEW s \in Seq(S), NEW m \in S
  PROVE  /\ Append(s, m) \in Seq(S)
         /\ DOMAIN s \subseteq DOMAIN Append(s, m)
         /\ \A i \in DOMAIN s : Append(s, m)[i] = s[i]
         /\ Len(s) + 1 \in DOMAIN Append(s, m) /\ Append(s, m)[Len(s) + 1] = m
         /\ \A i \in DOMAIN Append(s, m) : i \in DOMAIN s \/ i = Len(s) + 1
         /\ DOMAIN s = 1 .. Len(s) /\ Len(s) \in Nat
OBVIOUS

LEMMA TailAt ==
  ASSUME NEW S, NEW s \in Seq(S), s # <<>>
  PROVE  /\ Tail(s) \in Seq(S) /\ Head(s) \in S
         /\ 1 \in DOMAIN s /\ Head(s) = s[1]
         /\ \A i \in DOMAIN Tail(s) : i \in Nat /\ i >= 1 /\ i + 1 \in DOMAIN s /\ Tail(s)[i] = s[i + 1]
         /\ \A i \in DOMAIN s : i \in Nat /\ i >= 1
                                /\ (i # 1 => i - 1 \in DOMAIN Tail(s) /\ Tail(s)[i - 1] = s[i])
OBVIOUS

LEMMA AppendAskedAll ==
  ASSUME NEW S, NEW s \in Seq(S), NEW m \in S, NEW c, NEW d
  PROVE  /\ Asked(Append(s, m), c) <=> Asked(s, c) \/ m.what = c
         /\ OnceAsked(s, c) /\ (m.what = c => ~Asked(s, c)) => OnceAsked(Append(s, m), c)
         /\ m.what = c => AskedAfter(Append(s, m), c, d)
         /\ AskedAfter(s, c, d) /\ m.what # d => AskedAfter(Append(s, m), c, d)
<1> DEFINE a == Append(s, m)
<1>1. /\ DOMAIN s \subseteq DOMAIN a /\ \A i \in DOMAIN s : a[i] = s[i]
      /\ Len(s) + 1 \in DOMAIN a /\ a[Len(s) + 1] = m
      /\ \A i \in DOMAIN a : i \in DOMAIN s \/ i = Len(s) + 1
      /\ DOMAIN s = 1 .. Len(s) /\ Len(s) \in Nat
  BY AppendAt
<1> HIDE DEF a
<1>2. Asked(a, c) <=> Asked(s, c) \/ m.what = c
  BY <1>1 DEF Asked
<1>3. OnceAsked(s, c) /\ (m.what = c => ~Asked(s, c)) => OnceAsked(a, c)
  BY <1>1 DEF OnceAsked, Asked
<1>4. m.what = c => AskedAfter(a, c, d)
  BY <1>1 DEF AskedAfter
<1>5. AskedAfter(s, c, d) /\ m.what # d => AskedAfter(a, c, d)
  BY <1>1 DEF AskedAfter
<1>6. QED
  BY <1>2, <1>3, <1>4, <1>5 DEF a

LEMMA AppendSaidAll ==
  ASSUME NEW S, NEW s \in Seq(S), NEW m \in S, NEW c, NEW d
  PROVE  /\ Said(Append(s, m), c) <=> Said(s, c) \/ m.cmd = c
         /\ OnceSaid(s, c) /\ (m.cmd = c => ~Said(s, c)) => OnceSaid(Append(s, m), c)
         /\ m.cmd = c => SaidAfter(Append(s, m), c, d)
         /\ SaidAfter(s, c, d) /\ m.cmd # d => SaidAfter(Append(s, m), c, d)
<1> DEFINE a == Append(s, m)
<1>1. /\ DOMAIN s \subseteq DOMAIN a /\ \A i \in DOMAIN s : a[i] = s[i]
      /\ Len(s) + 1 \in DOMAIN a /\ a[Len(s) + 1] = m
      /\ \A i \in DOMAIN a : i \in DOMAIN s \/ i = Len(s) + 1
      /\ DOMAIN s = 1 .. Len(s) /\ Len(s) \in Nat
  BY AppendAt
<1> HIDE DEF a
<1>2. Said(a, c) <=> Said(s, c) \/ m.cmd = c
  BY <1>1 DEF Said
<1>3. OnceSaid(s, c) /\ (m.cmd = c => ~Said(s, c)) => OnceSaid(a, c)
  BY <1>1 DEF OnceSaid, Said
<1>4. m.cmd = c => SaidAfter(a, c, d)
  BY <1>1 DEF SaidAfter
<1>5. SaidAfter(s, c, d) /\ m.cmd # d => SaidAfter(a, c, d)
  BY <1>1 DEF SaidAfter
<1>6. QED
  BY <1>2, <1>3, <1>4, <1>5 DEF a

LEMMA TailAskedAll ==
  ASSUME NEW S, NEW s \in Seq(S), s # <<>>, NEW c, NEW d
  PROVE  /\ Asked(s, c) <=> Head(s).what = c \/ Asked(Tail(s), c)
         /\ OnceAsked(s, c) => OnceAsked(Tail(s), c)
         /\ OnceAsked(s, c) /\ Head(s).what = c => ~Asked(Tail(s), c)
         /\ AskedAfter(s, c, d) =>
              AskedAfter(Tail(s), c, d) \/ (Head(s).what = c /\ ~Asked(Tail(s), d))
<1> DEFINE t == Tail(s)
<1>1. /\ 1 \in DOMAIN s /\ Head(s) = s[1]
      /\ \A i \in DOMAIN t : i \in Nat /\ i >= 1 /\ i + 1 \in DOMAIN s /\ t[i] = s[i + 1]
      /\ \A i \in DOMAIN s : i \in Nat /\ i >= 1 /\ (i # 1 => i - 1 \in DOMAIN t /\ t[i - 1] = s[i])
  BY TailAt
<1> HIDE DEF t
<1>2. Asked(s, c) <=> Head(s).what = c \/ Asked(t, c)
  <2>1. ASSUME NEW i \in DOMAIN s, s[i].what = c
        PROVE  Head(s).what = c \/ Asked(t, c)
    <3>1. i # 1 => i - 1 \in DOMAIN t /\ t[i - 1].what = c
      BY <1>1, <2>1
    <3>2. QED
      BY <1>1, <2>1, <3>1 DEF Asked
  <2>2. ASSUME NEW i \in DOMAIN t, t[i].what = c
        PROVE  Asked(s, c)
    <3>1. i + 1 \in DOMAIN s /\ s[i + 1].what = c
      BY <1>1, <2>2
    <3>2. QED
      BY <3>1 DEF Asked
  <2>3. QED
    BY <1>1, <2>1, <2>2 DEF Asked
<1>3. OnceAsked(s, c) => OnceAsked(t, c)
  <2>1. ASSUME OnceAsked(s, c), NEW i \in DOMAIN t, NEW j \in DOMAIN t, t[i].what = c, t[j].what = c
        PROVE  i = j
    <3>1. /\ i \in Nat /\ j \in Nat /\ i + 1 \in DOMAIN s /\ j + 1 \in DOMAIN s
          /\ s[i + 1].what = c /\ s[j + 1].what = c
      BY <1>1, <2>1
    <3>2. i + 1 = j + 1
      BY <2>1, <3>1 DEF OnceAsked
    <3>3. QED
      BY <3>1, <3>2
  <2>2. QED
    BY <2>1 DEF OnceAsked
<1>4. OnceAsked(s, c) /\ Head(s).what = c => ~Asked(t, c)
  <2>1. ASSUME OnceAsked(s, c), Head(s).what = c, NEW i \in DOMAIN t, t[i].what = c
        PROVE  FALSE
    <3>1. i \in Nat /\ i >= 1 /\ i + 1 \in DOMAIN s /\ s[i + 1].what = c /\ s[1].what = c
      BY <1>1, <2>1
    <3>2. i + 1 = 1
      BY <1>1, <2>1, <3>1 DEF OnceAsked
    <3>3. QED
      BY <3>1, <3>2
  <2>2. QED
    BY <2>1 DEF Asked
<1>5. ASSUME AskedAfter(s, c, d)
      PROVE  AskedAfter(t, c, d) \/ (Head(s).what = c /\ ~Asked(t, d))
  <2>1. PICK i \in DOMAIN s : s[i].what = c /\ \A j \in DOMAIN s : j > i => s[j].what # d
    BY <1>5 DEF AskedAfter
  <2>2. CASE i = 1
    BY <1>1, <2>1, <2>2 DEF Asked
  <2>3. CASE i # 1
    <3>1. i \in Nat /\ i - 1 \in DOMAIN t /\ t[i - 1].what = c
      BY <1>1, <2>1, <2>3
    <3>2. ASSUME NEW j \in DOMAIN t, j > i - 1
          PROVE  t[j].what # d
      <4>1. j + 1 \in DOMAIN s /\ t[j] = s[j + 1] /\ j \in Nat
        BY <1>1
      <4>2. j + 1 > i
        BY <3>1, <3>2, <4>1
      <4>3. QED
        BY <2>1, <4>1, <4>2
    <3>3. QED
      BY <3>1, <3>2 DEF AskedAfter
  <2>4. QED
    BY <2>2, <2>3
<1>6. QED
  BY <1>2, <1>3, <1>4, <1>5 DEF t

LEMMA TailSaidAll ==
  ASSUME NEW S, NEW s \in Seq(S), s # <<>>, NEW c, NEW d
  PROVE  /\ Said(s, c) <=> Head(s).cmd = c \/ Said(Tail(s), c)
         /\ OnceSaid(s, c) => OnceSaid(Tail(s), c)
         /\ OnceSaid(s, c) /\ Head(s).cmd = c => ~Said(Tail(s), c)
         /\ SaidAfter(s, c, d) =>
              SaidAfter(Tail(s), c, d) \/ (Head(s).cmd = c /\ ~Said(Tail(s), d))
<1> DEFINE t == Tail(s)
<1>1. /\ 1 \in DOMAIN s /\ Head(s) = s[1]
      /\ \A i \in DOMAIN t : i \in Nat /\ i >= 1 /\ i + 1 \in DOMAIN s /\ t[i] = s[i + 1]
      /\ \A i \in DOMAIN s : i \in Nat /\ i >= 1 /\ (i # 1 => i - 1 \in DOMAIN t /\ t[i - 1] = s[i])
  BY TailAt
<1> HIDE DEF t
<1>2. Said(s, c) <=> Head(s).cmd = c \/ Said(t, c)
  <2>1. ASSUME NEW i \in DOMAIN s, s[i].cmd = c
        PROVE  Head(s).cmd = c \/ Said(t, c)
    <3>1. i # 1 => i - 1 \in DOMAIN t /\ t[i - 1].cmd = c
      BY <1>1, <2>1
    <3>2. QED
      BY <1>1, <2>1, <3>1 DEF Said
  <2>2. ASSUME NEW i \in DOMAIN t, t[i].cmd = c
        PROVE  Said(s, c)
    <3>1. i + 1 \in DOMAIN s /\ s[i + 1].cmd = c
      BY <1>1, <2>2
    <3>2. QED
      BY <3>1 DEF Said
  <2>3. QED
    BY <1>1, <2>1, <2>2 DEF Said
<1>3. OnceSaid(s, c) => OnceSaid(t, c)
  <2>1. ASSUME OnceSaid(s, c), NEW i \in DOMAIN t, NEW j \in DOMAIN t, t[i].cmd = c, t[j].cmd = c
        PROVE  i = j
    <3>1. /\ i \in Nat /\ j \in Nat /\ i + 1 \in DOMAIN s /\ j + 1 \in DOMAIN s
          /\ s[i + 1].cmd = c /\ s[j + 1].cmd = c
      BY <1>1, <2>1
    <3>2. i + 1 = j + 1
      BY <2>1, <3>1 DEF OnceSaid
    <3>3. QED
      BY <3>1, <3>2
  <2>2. QED
    BY <2>1 DEF OnceSaid
<1>4. OnceSaid(s, c) /\ Head(s).cmd = c => ~Said(t, c)
  <2>1. ASSUME OnceSaid(s, c), Head(s).cmd = c, NEW i \in DOMAIN t, t[i].cmd = c
        PROVE  FALSE
    <3>1. i \in Nat /\ i >= 1 /\ i + 1 \in DOMAIN s /\ s[i + 1].cmd = c /\ s[1].cmd = c
      BY <1>1, <2>1
    <3>2. i + 1 = 1
      BY <1>1, <2>1, <3>1 DEF OnceSaid
    <3>3. QED
      BY <3>1, <3>2
  <2>2. QED
    BY <2>1 DEF Said
<1>5. ASSUME SaidAfter(s, c, d)
      PROVE  SaidAfter(t, c, d) \/ (Head(s).cmd = c /\ ~Said(t, d))
  <2>1. PICK i \in DOMAIN s : s[i].cmd = c /\ \A j \in DOMAIN s : j > i => s[j].cmd # d
    BY <1>5 DEF SaidAfter
  <2>2. CASE i = 1
    BY <1>1, <2>1, <2>2 DEF Said
  <2>3. CASE i # 1
    <3>1. i \in Nat /\ i - 1 \in DOMAIN t /\ t[i - 1].cmd = c
      BY <1>1, <2>1, <2>3
    <3>2. ASSUME NEW j \in DOMAIN t, j > i - 1
          PROVE  t[j].cmd # d
      <4>1. j + 1 \in DOMAIN s /\ t[j] = s[j + 1] /\ j \in Nat
        BY <1>1
      <4>2. j + 1 > i
        BY <3>1, <3>2, <4>1
      <4>3. QED
        BY <2>1, <4>1, <4>2
    <3>3. QED
      BY <3>1, <3>2 DEF SaidAfter
  <2>4. QED
    BY <2>2, <2>3
<1>6. QED
  BY <1>2, <1>3, <1>4, <1>5 DEF t

LEMMA AppendAsked ==
  ASSUME NEW S, NEW s \in Seq(S), NEW m \in S, NEW c
  PROVE  /\ Asked(Append(s, m), c) <=> Asked(s, c) \/ m.what = c
         /\ OnceAsked(s, c) /\ (m.what = c => ~Asked(s, c)) => OnceAsked(Append(s, m), c)
BY AppendAskedAll

LEMMA AppendAskedAfter ==
  ASSUME NEW S, NEW s \in Seq(S), NEW m \in S, NEW c, NEW d
  PROVE  /\ m.what = c => AskedAfter(Append(s, m), c, d)
         /\ AskedAfter(s, c, d) /\ m.what # d => AskedAfter(Append(s, m), c, d)
BY AppendAskedAll

LEMMA TailAsked ==
  ASSUME NEW S, NEW s \in Seq(S), s # <<>>, NEW c
  PROVE  /\ Asked(s, c) <=> Head(s).what = c \/ Asked(Tail(s), c)
         /\ OnceAsked(s, c) => OnceAsked(Tail(s), c)
         /\ OnceAsked(s, c) /\ Head(s).what = c => ~Asked(Tail(s), c)
BY TailAskedAll

LEMMA TailAskedAfter ==
  ASSUME NEW S, NEW s \in Seq(S), s # <<>>, NEW c, NEW d, AskedAfter(s, c, d)
  PROVE  AskedAfter(Tail(s), c, d) \/ (Head(s).what = c /\ ~Asked(Tail(s), d))
BY TailAskedAll

LEMMA AppendSaid ==
  ASSUME NEW S, NEW s \in Seq(S), NEW m \in S, NEW c
  PROVE  /\ Said(Append(s, m), c) <=> Said(s, c) \/ m.cmd = c
         /\ OnceSaid(s, c) /\ (m.cmd = c => ~Said(s, c)) => OnceSaid(Append(s, m), c)
BY AppendSaidAll

LEMMA AppendSaidAfter ==
  ASSUME NEW S, NEW s \in Seq(S), NEW m \in S, NEW c, NEW d
  PROVE  /\ m.cmd = c => SaidAfter(Append(s, m), c, d)
         /\ SaidAfter(s, c, d) /\ m.cmd # d => SaidAfter(Append(s, m), c, d)
BY AppendSaidAll

LEMMA TailSaid ==
  ASSUME NEW S, NEW s \in Seq(S), s # <<>>, NEW c
  PROVE  /\ Said(s, c) <=> Head(s).cmd = c \/ Said(Tail(s), c)
         /\ OnceSaid(s, c) => OnceSaid(Tail(s), c)
         /\ OnceSaid(s, c) /\ Head(s).cmd = c => ~Said(Tail(s), c)
BY TailSaidAll

LEMMA TailSaidAfter ==
  ASSUME NEW S, NEW s \in Seq(S), s # <<>>, NEW c, NEW d, SaidAfter(s, c, d)
  PROVE  SaidAfter(Tail(s), c, d) \/ (Head(s).cmd = c /\ ~Said(Tail(s), d))
BY TailSaidAll

(***************************************************************************)
(* Types.                                                                  *)
(***************************************************************************)
Commands == Handler \cup {"stopPlayback", "stopRecording"}
Message  == { m \in [what : Commands \cup {"exit"}, to : Handler \cup {"temp", "gone"}] :
                IF m.what \in Handler THEN m.to = m.what ELSE m.to \in {"temp", "gone"} }
Command  == [cmd : Commands, id : Nat]
AReply   == [cmd : Commands, ok : BOOLEAN]
CallsMade == {"download", "info", "start", "wait", "stop"}

\* Abandoning a handler changes nobody's command.
LEMMA AbandonKeeps ==
  ASSUME NEW s \in Seq(Message)
  PROVE  /\ Abandon(s) \in Seq(Message)
         /\ Abandon(s) = <<>> <=> s = <<>>
         /\ \A c : /\ Asked(Abandon(s), c) <=> Asked(s, c)
                   /\ OnceAsked(s, c) => OnceAsked(Abandon(s), c)
                   /\ \A d : AskedAfter(s, c, d) => AskedAfter(Abandon(s), c, d)
<1> DEFINE a == Abandon(s)
<1>1. /\ DOMAIN a = DOMAIN s /\ DOMAIN s = 1 .. Len(s) /\ Len(s) \in Nat
      /\ \A i \in DOMAIN s : s[i] \in Message
      /\ \A i \in DOMAIN s : a[i] = IF s[i].to = "temp" THEN [s[i] EXCEPT !.to = "gone"] ELSE s[i]
  BY DEF Abandon
<1>2. \A m \in Message : m.to = "temp" => /\ [m EXCEPT !.to = "gone"] \in Message
                                          /\ [m EXCEPT !.to = "gone"].what = m.what
  BY DEF Message, Handler
<1>3. \A i \in DOMAIN s : a[i] \in Message /\ a[i].what = s[i].what
  BY <1>1, <1>2
<1>4. a = [i \in 1 .. Len(s) |-> a[i]]
  BY <1>1 DEF Abandon
<1> HIDE DEF a
<1>5. a \in Seq(Message) /\ Len(a) = Len(s)
  BY <1>1, <1>3, <1>4
<1>6. a = <<>> <=> s = <<>>
  BY <1>1, <1>5
<1>7. ASSUME NEW c
      PROVE  /\ Asked(a, c) <=> Asked(s, c)
             /\ OnceAsked(s, c) => OnceAsked(a, c)
             /\ \A d : AskedAfter(s, c, d) => AskedAfter(a, c, d)
  BY <1>1, <1>3 DEF Asked, OnceAsked, AskedAfter
<1>8. QED
  BY <1>5, <1>6, <1>7 DEF a

(***************************************************************************)
(* What the client may be doing.                                           *)
(***************************************************************************)
InWhichCall ==
  /\ cpc \in {"ready", "init", "lock", "send", "wake", "await", "answered", "join"}
  /\ call \in CallsMade \cup {"none", "init", "release"}
  /\ handler \in Handler \cup {"temp"}
  /\ cpc = "init" => call = "init"
  /\ cpc = "lock" => call \in CallsMade
  /\ cpc \in {"send", "wake"} => call \in {"download", "info", "start", "stop", "release"}
  /\ cpc \in {"await", "answered"} => call \in CallsMade
  /\ cpc = "join" => call = "release"
  /\ call \in {"download", "info"} => handler = call
  /\ call \in {"start", "wait", "stop"} => handler \in Media
  /\ call = "stop" => <<"stop", handler>> \in Does

\* The state of the handlers.  A lock that is kept is that of a handler for
\* playback or recording that nothing was started with.
Handlers ==
  /\ mNotifyOnReply \in [Handler -> BOOLEAN] /\ mActive \in [Handler -> BOOLEAN]
  /\ mStateLock \in [Handler -> BOOLEAN] /\ mParamId \in [Handler -> Nat]
  /\ mDownloadId \in Nat
  /\ \A h \in Handler : mStateLock[h] => h \in Media /\ ~mActive[h]
  /\ cpc = "send" /\ call = "stop" => ~mActive[handler]
  /\ call = "download" /\ cpc \notin {"ready", "lock"} =>
       mDownloadId > 0 /\ mParamId["download"] = mDownloadId - 1

ClientInv == InWhichCall /\ Handlers

\* What is sent, and by which way.
Ways ==
  /\ mMsgQueue \in Seq(Message) /\ q \in Seq(Message)
  /\ toDevice \in Seq(Command) /\ toHost \in Seq(AReply)
  /\ q # <<>> => lpc = "handle"
  /\ lpc = "notify" => packet.cmd \in Handler
  /\ lpc \in {"none", "connect", "poll", "drain", "handle", "callback", "notify", "exited"}
  /\ mClientWait \in [Handler \cup {"temp"} -> Nat] /\ mInitWait \in Nat /\ unreplied \in Nat

LEMMA LooperKeeps ==
  ASSUME Connect \/ Poll \/ Drain \/ HandleMessage \/ HandleExit \/ HandlePacket
  PROVE  UNCHANGED <<use, state, client, device>>
BY DEF Connect, Poll, Drain, HandleMessage, HandleExit, HandlePacket, LooperStep

LEMMA ClientKeeps ==
  ASSUME Call \/ InCall
  PROVE  UNCHANGED <<use, socket, device>>
<1>1. CASE Call
  BY <1>1 DEF Call, InitCall, Enter, Release
<1>2. CASE InCall
  BY <1>2 DEF InCall, InitAwait, LockDownload, LockGetDeviceInfo, LockStart, LockWait, LockStop,
       Locked, SendMessage, Wake, Await, Answered, Join
<1>3. QED
  BY <1>1, <1>2

LEMMA UseKept ==
  ASSUME [Next]_vars
  PROVE  use' = use
<1>1. CASE ThreadLoop
  BY <1>1, LooperKeeps DEF ThreadLoop, Notify
<1>2. CASE Host
  BY <1>2 DEF Host
<1>3. QED
  BY <1>1, <1>2, ClientKeeps DEF Next, vars

(***************************************************************************)
(* The client's part of the invariant.                                     *)
(***************************************************************************)
LEMMA ClientStep ==
  ASSUME ClientInv, Ways, [Next]_vars
  PROVE  ClientInv'
<1> USE RemoteAssumption DEF ClientInv, InWhichCall, Handlers, CallsMade, Handler, Media, Does
<1>0. use' = use
  BY UseKept
<1>1. CASE InitCall
  BY <1>0, <1>1 DEF InitCall, GoTo, state, answers
<1>2. CASE InitAwait
  BY <1>0, <1>2 DEF InitAwait, Return, state, answers
<1>3. ASSUME NEW c \in CallsMade, NEW h \in Handler, Enter(c, h),
             c \in {"download", "info"} => h = c,
             c \in {"start", "wait", "stop"} => h \in Media
      PROVE  ClientInv'
  BY <1>0, <1>3 DEF Enter, GoTo, state, answers
<1>4. CASE Release
  BY <1>0, <1>4 DEF Release, GoTo, state, answers
<1>5. CASE LockDownload
  <2>1. /\ mDownloadId' = mDownloadId + 1 /\ mParamId' = [mParamId EXCEPT ![handler] = mDownloadId]
        /\ mNotifyOnReply' = [mNotifyOnReply EXCEPT ![handler] = TRUE]
        /\ call = "download" /\ handler = "download" /\ cpc' = "send"
        /\ UNCHANGED <<mActive, mStateLock, handler, call>>
    BY <1>5 DEF LockDownload, Locked, GoTo
  <2>2. QED
    BY <1>0, <2>1
<1>6. CASE LockGetDeviceInfo
  BY <1>0, <1>6 DEF LockGetDeviceInfo, Locked, GoTo
<1>7. ASSUME NEW id \in Id, LockStart(id)
      PROVE  ClientInv'
  <2>1. /\ call = "start" /\ handler \in Media /\ ~mStateLock[handler] /\ cpc' \in {"ready", "send"}
        /\ UNCHANGED <<mNotifyOnReply, mDownloadId, handler, call>> /\ id \in Nat
        /\ \/ UNCHANGED <<mActive, mStateLock, mParamId>>
           \/ /\ ~mActive[handler] /\ mStateLock' = [mStateLock EXCEPT ![handler] = TRUE]
              /\ UNCHANGED <<mActive, mParamId>>
           \/ /\ mActive' = [mActive EXCEPT ![handler] = TRUE]
              /\ mParamId' = [mParamId EXCEPT ![handler] = id] /\ UNCHANGED mStateLock
    BY <1>7 DEF LockStart, Locked, GoTo, Return
  <2>2. CASE UNCHANGED <<mActive, mStateLock, mParamId>>
    BY <1>0, <2>1, <2>2
  <2>3. CASE ~mActive[handler] /\ mStateLock' = [mStateLock EXCEPT ![handler] = TRUE]
             /\ UNCHANGED <<mActive, mParamId>>
    BY <1>0, <2>1, <2>3
  <2>4. CASE mActive' = [mActive EXCEPT ![handler] = TRUE]
             /\ mParamId' = [mParamId EXCEPT ![handler] = id] /\ UNCHANGED mStateLock
    BY <1>0, <2>1, <2>4
  <2>5. QED
    BY <2>1, <2>2, <2>3, <2>4
<1>8. CASE LockWait
  BY <1>0, <1>8 DEF LockWait, Locked, GoTo, Return
<1>9. CASE LockStop
  <2>1. /\ call = "stop" /\ handler \in Media /\ cpc' \in {"ready", "send"}
        /\ UNCHANGED <<mStateLock, mParamId, mDownloadId, handler, call>>
        /\ \/ ~mActive[handler] /\ UNCHANGED <<mActive, mNotifyOnReply>>
           \/ /\ mActive' = [mActive EXCEPT ![handler] = FALSE]
              /\ mNotifyOnReply' = [mNotifyOnReply EXCEPT ![handler] = FALSE]
    BY <1>9 DEF LockStop, Locked, GoTo, Return
  <2>2. CASE ~mActive[handler] /\ UNCHANGED <<mActive, mNotifyOnReply>>
    BY <1>0, <2>1, <2>2
  <2>3. CASE mActive' = [mActive EXCEPT ![handler] = FALSE]
             /\ mNotifyOnReply' = [mNotifyOnReply EXCEPT ![handler] = FALSE]
    BY <1>0, <2>1, <2>3
  <2>4. QED
    BY <2>1, <2>2, <2>3
<1>10. CASE SendMessage
  BY <1>0, <1>10 DEF SendMessage, GoTo, state, answers
<1>11. CASE Wake
  BY <1>0, <1>11 DEF Wake, GoTo, state, answers
<1>12. CASE Await
  BY <1>0, <1>12 DEF Await, GoTo, Return, state
<1>13. CASE Answered
  BY <1>0, <1>13 DEF Answered, Return, state, answers
<1>14. CASE Join
  BY <1>0, <1>14 DEF Join, Return, state, answers
<1>15. ASSUME UNCHANGED <<state, client>>
       PROVE  ClientInv'
  BY <1>0, <1>15 DEF state, client
<1>16. CASE Notify
  <2>1. packet.cmd \in Handler
    BY <1>16 DEF Notify, Ways
  <2>2. QED
    BY <1>0, <1>16, <2>1 DEF Notify, client
<1>17. CASE UNCHANGED vars
  BY <1>15, <1>17 DEF vars
<1>18. CASE ThreadLoop
  BY <1>15, <1>16, <1>18, LooperKeeps DEF ThreadLoop
<1>19. CASE Host
  BY <1>15, <1>19 DEF Host
<1>20. QED
  BY <1>1, <1>2, <1>3, <1>4, <1>5, <1>6, <1>7, <1>8, <1>9, <1>10, <1>11, <1>12, <1>13, <1>14,
     <1>17, <1>18, <1>19 DEF Next, Call, InCall

(***************************************************************************)
(* The ways of a message.                                                  *)
(***************************************************************************)
LEMMA ReceiveTypes ==
  ASSUME NEW c, Receive(c), toDevice \in Seq(Command)
  PROVE  toDevice' \in Seq(Command) /\ Head(toDevice).cmd = c /\ Head(toDevice) \in Command
BY TailAt DEF Receive

LEMMA ReplyTypes ==
  ASSUME NEW c \in Commands, NEW ok \in BOOLEAN, Reply(c, ok), toHost \in Seq(AReply)
  PROVE  toHost' \in Seq(AReply)
BY DEF Reply, AReply

LEMMA DeviceTypes ==
  ASSUME Device \/ Disconnect, toDevice \in Seq(Command), toHost \in Seq(AReply), unreplied \in Nat
  PROVE  toDevice' \in Seq(Command) /\ toHost' \in Seq(AReply) /\ unreplied' \in Nat
<1> USE DEF Commands, Handler
<1>1. CASE HandleDownload \/ HandleGetDeviceInfo
  BY <1>1, ReceiveTypes, ReplyTypes DEF HandleDownload, HandleGetDeviceInfo, device, playback
<1>2. CASE HandleStartPlayback
  <2>1. toDevice' \in Seq(Command)
    BY <1>2, ReceiveTypes DEF HandleStartPlayback
  <2>2. /\ UNCHANGED toHost \/ Reply("playback", FALSE)
        /\ unreplied' = unreplied \/ unreplied' = unreplied + Late(player, "reply")
    BY <1>2 DEF HandleStartPlayback
  <2>3. Late(player, "reply") \in Nat
    BY DEF Late
  <2>4. unreplied' \in Nat
    BY <2>2, <2>3
  <2>5. QED
    BY <2>1, <2>2, <2>4, ReplyTypes
<1>3. CASE HandleStartRecording
  BY <1>3, ReceiveTypes DEF HandleStartRecording, playback
<1>4. CASE HandleStopPlayback
  BY <1>4, ReceiveTypes DEF HandleStopPlayback, Crash, playback
<1>5. CASE QuitPlayer \/ JoinPlayer
  BY <1>5, ReplyTypes DEF QuitPlayer, JoinPlayer, Crash, playback
<1>6. CASE HandleStopRecording
  BY <1>6, ReceiveTypes DEF HandleStopRecording, playback
<1>7. CASE QuitRecorder \/ JoinRecorder
  BY <1>7, ReplyTypes DEF QuitRecorder, JoinRecorder, Crash, playback
<1>8. CASE \/ PlayerPrepares \/ PlayerRuns \/ PlayerWrites \/ PlayerQuits
           \/ OnMarkerReached \/ MarkerReleases \/ MarkerQuits
  BY <1>8 DEF PlayerPrepares, PlayerRuns, PlayerWrites, PlayerQuits, OnMarkerReached,
       MarkerReleases, MarkerQuits, PlayerStep, Crash, playback
<1>9. CASE MarkerReplies
  BY <1>9, ReplyTypes DEF MarkerReplies, PlayerStep
<1>10. CASE OldPlayerReplies
  <2>1. unreplied > 0 /\ unreplied' = unreplied - 1
    BY <1>10 DEF OldPlayerReplies
  <2>2. unreplied' \in Nat
    BY <2>1
  <2>3. QED
    BY <1>10, <2>2, ReplyTypes DEF OldPlayerReplies
<1>11. CASE OldRecorderEnds \/ RecorderPrepares \/ RecorderRuns \/ RecorderEnds \/ RecorderQuits
  BY <1>11 DEF OldRecorderEnds, RecorderPrepares, RecorderRuns, RecorderEnds, RecorderQuits,
       RecorderStep, Crash, playback
<1>12. ASSUME NEW ok \in BOOLEAN, RecorderReplies(ok)
       PROVE  toDevice' \in Seq(Command) /\ toHost' \in Seq(AReply) /\ unreplied' \in Nat
  BY <1>12, ReplyTypes DEF RecorderReplies, RecorderStep, playback
<1>13. CASE Disconnect
  BY <1>13 DEF Disconnect, Crash, playback
<1>14. QED
  BY <1>1, <1>2, <1>3, <1>4, <1>5, <1>6, <1>7, <1>8, <1>9, <1>10, <1>11, <1>12, <1>13
  DEF Device, Server, Player, Recorder

\* The message that a call sends.
LEMMA SentIsMessage ==
  ASSUME InWhichCall, cpc = "send"
  PROVE  /\ [what |-> What, to |-> Waiter] \in Message
         /\ \A h \in Handler : What = h => handler = h /\ call \in {"download", "info", "start"}
         /\ What = "exit" => call = "release"
         /\ What \in {"stopPlayback", "stopRecording"} => call = "stop"
         /\ call = "start" => What = handler
BY DEF InWhichCall, What, Waiter, Message, Commands, Handler, Media

LEMMA PostedTypes ==
  ASSUME Ways, NEW to \in Handler \cup {"temp", "gone"}
  PROVE  Posted(to) \in [Handler \cup {"temp"} -> Nat]
BY DEF Ways, Posted

\* Before init there is no looper thread.
NotYet == call = "none" => lpc = "none"

LEMMA NotYetStep ==
  ASSUME NotYet, [Next]_vars
  PROVE  NotYet'
<1> USE DEF NotYet
<1>1. CASE Call
  BY <1>1 DEF Call, InitCall, Enter, Release
<1>2. CASE InCall
  BY <1>2 DEF InCall, InitAwait, LockDownload, LockGetDeviceInfo, LockStart, LockWait, LockStop,
       Locked, SendMessage, Wake, Await, Answered, Join, looper
<1>3. CASE ThreadLoop
  BY <1>3 DEF ThreadLoop, Connect, Poll, Drain, HandleMessage, HandleExit, HandlePacket, Notify,
       LooperStep, client
<1>4. CASE Host \/ UNCHANGED vars
  BY <1>4 DEF Host, vars, client, looper
<1>5. QED
  BY <1>1, <1>2, <1>3, <1>4 DEF Next

LEMMA WaysStep ==
  ASSUME ClientInv, Ways, NotYet, [Next]_vars
  PROVE  Ways'
<1> USE DEF Ways
<1>1. CASE SendMessage
  <2>1. [what |-> What, to |-> Waiter] \in Message
    BY <1>1, SentIsMessage DEF SendMessage, ClientInv
  <2>2. mMsgQueue' \in Seq(Message)
    BY <1>1, <2>1 DEF SendMessage
  <2>3. QED
    BY <1>1, <2>2 DEF SendMessage, looper, init, answers, socket, device, playback
<1>2. CASE Await
  <2>1. /\ UNCHANGED <<use, lpc, packet, init, socket, device>>
        /\ mMsgQueue' \in {mMsgQueue, Abandon(mMsgQueue)} /\ q' \in {q, Abandon(q)}
        /\ \/ mClientWait[Waiter] > 0 /\ mClientWait' = [mClientWait EXCEPT ![Waiter] = @ - 1]
           \/ UNCHANGED mClientWait
    BY <1>2 DEF Await
  <2>2. mMsgQueue' \in Seq(Message) /\ q' \in Seq(Message) /\ (q' # <<>> => q # <<>>)
    BY <2>1, AbandonKeeps
  <2>3. Waiter \in Handler \cup {"temp"}
    BY DEF Waiter, ClientInv, InWhichCall
  <2>4. mClientWait' \in [Handler \cup {"temp"} -> Nat]
    <3>1. mClientWait[Waiter] \in Nat
      BY <2>3
    <3>2. mClientWait[Waiter] > 0 => mClientWait[Waiter] - 1 \in Nat
      BY <3>1
    <3>3. QED
      BY <2>1, <2>3, <3>2
  <2>5. QED
    BY <2>1, <2>2, <2>4 DEF init, socket, device, playback
<1>3. CASE InitAwait
  <2>1. mInitWait' = mInitWait \/ (mInitWait > 0 /\ mInitWait' = mInitWait - 1)
    BY <1>3 DEF InitAwait
  <2>2. mInitWait' \in Nat
    BY <2>1
  <2>3. QED
    BY <1>3, <2>2 DEF InitAwait, looper, queue, answers, socket, device, playback
<1>4. CASE LockStop
  <2>1. mClientWait' \in {mClientWait, [mClientWait EXCEPT !["temp"] = 0]}
    BY <1>4 DEF LockStop
  <2>2. mClientWait' \in [Handler \cup {"temp"} -> Nat]
    BY <2>1
  <2>3. QED
    BY <1>4, <2>2 DEF LockStop, Locked, looper, queue, init, socket, device, playback
<1>5. CASE Call
  <2>1. UNCHANGED <<q, packet, queue, init, answers, socket, device>>
    BY <1>5 DEF Call, InitCall, Enter, Release, looper
  <2>2. lpc' = lpc \/ (lpc = "none" /\ lpc' = "connect")
    BY <1>5 DEF Call, InitCall, Enter, Release, looper, NotYet
  <2>3. QED
    BY <2>1, <2>2 DEF queue, init, answers, socket, device, playback
<1>6. CASE LockDownload \/ LockGetDeviceInfo \/ (\E id \in Id : LockStart(id)) \/ LockWait
  BY <1>6 DEF LockDownload, LockGetDeviceInfo, LockStart, LockWait, Locked, looper, queue, init,
       socket, device, playback
<1>7. CASE Wake \/ Answered \/ Join
  BY <1>7 DEF Wake, Answered, Join, looper, queue, init, answers, socket, device, playback
<1>8. CASE Connect
  BY <1>8 DEF Connect, LooperStep, queue, answers, socket, device, playback
<1>9. CASE Poll
  BY <1>9 DEF Poll, LooperStep, queue, init, answers, socket, device, playback
<1>10. CASE Drain
  <2>1. lpc = "drain" /\ UNCHANGED <<packet, init, answers, socket, device>>
        /\ \/ lpc' = "drain" /\ UNCHANGED <<q, mMsgQueue>>
           \/ /\ q' = mMsgQueue /\ mMsgQueue' = <<>>
              /\ lpc' = IF mMsgQueue = <<>> THEN After(mExitRequested) ELSE "handle"
    BY <1>10 DEF Drain, LooperStep
  <2>2. After(mExitRequested) \in {"callback", "exited", "poll"}
    BY DEF After, NextRound
  <2>3. mMsgQueue' \in Seq(Message) /\ q' \in Seq(Message)
    BY <2>1
  <2>4. QED
    BY <2>1, <2>2, <2>3 DEF init, answers, socket, device, playback
<1>11. CASE HandleMessage
  <2>1. /\ q # <<>> /\ Head(q).what # "exit" /\ q' = Tail(q)
        /\ lpc' = IF q' = <<>> THEN After(mExitRequested) ELSE "handle"
        /\ toDevice' \in {toDevice, Append(toDevice, [cmd |-> Head(q).what,
                            id |-> IF Head(q).to \in Handler THEN mParamId[Head(q).to] ELSE 0])}
        /\ mClientWait' \in {mClientWait, Posted(Head(q).to)}
        /\ UNCHANGED <<packet, queue, init, toHost, device>>
    BY <1>11 DEF HandleMessage, LooperStep
  <2>2. After(mExitRequested) \in {"callback", "exited", "poll"}
    BY DEF After, NextRound
  <2>3. Head(q) \in Message /\ q' \in Seq(Message)
    BY <2>1, TailAt
  <2>4. /\ Head(q).what \in Commands /\ Head(q).to \in Handler \cup {"temp", "gone"}
    BY <2>1, <2>3 DEF Message
  <2>5. mClientWait' \in [Handler \cup {"temp"} -> Nat]
    BY <2>1, <2>4, PostedTypes
  <2>6. toDevice' \in Seq(Command)
    <3>1. mParamId \in [Handler -> Nat]
      BY DEF ClientInv, Handlers
    <3>2. (IF Head(q).to \in Handler THEN mParamId[Head(q).to] ELSE 0) \in Nat
      BY <3>1
    <3>3. [cmd |-> Head(q).what,
           id |-> IF Head(q).to \in Handler THEN mParamId[Head(q).to] ELSE 0] \in Command
      BY <2>4, <3>2 DEF Command
    <3> DEFINE m == [cmd |-> Head(q).what,
                     id |-> IF Head(q).to \in Handler THEN mParamId[Head(q).to] ELSE 0]
    <3>4. Append(toDevice, m) \in Seq(Command)
      BY <3>3
    <3>5. QED
      BY <2>1, <3>4
  <2>7. QED
    BY <2>1, <2>2, <2>3, <2>5, <2>6 DEF queue, init, device, playback
<1>12. CASE HandleExit
  <2>1. /\ q # <<>> /\ q' = Tail(q)
        /\ lpc' = IF q' = <<>> THEN After(TRUE) ELSE "handle"
        /\ mClientWait' = Posted("temp")
        /\ UNCHANGED <<packet, queue, init, socket, device>>
    BY <1>12 DEF HandleExit, LooperStep
  <2>2. After(TRUE) \in {"callback", "exited", "poll"}
    BY DEF After, NextRound
  <2>3. q' \in Seq(Message)
    BY <2>1, TailAt
  <2>4. mClientWait' \in [Handler \cup {"temp"} -> Nat]
    BY <2>1, PostedTypes
  <2>5. QED
    BY <2>1, <2>2, <2>3, <2>4 DEF queue, init, socket, device, playback
<1>13. CASE HandlePacket
  <2>1. /\ lpc = "callback" /\ UNCHANGED <<q, queue, init, answers, toDevice, device>>
        /\ \/ UNCHANGED toHost /\ lpc' = NextRound(mExitRequested)
           \/ /\ toHost # <<>> /\ toHost' = Tail(toHost)
              /\ lpc' = IF packet'.cmd \in Handler THEN "notify" ELSE NextRound(mExitRequested)
    BY <1>13 DEF HandlePacket, LooperStep
  <2>2. NextRound(mExitRequested) \in {"exited", "poll"}
    BY DEF NextRound
  <2>3. toHost' \in Seq(AReply)
    BY <2>1, TailAt
  <2>4. QED
    BY <2>1, <2>2, <2>3 DEF queue, init, answers, device, playback
<1>14. CASE Notify
  <2>1. /\ lpc = "notify" /\ lpc' = NextRound(mExitRequested)
        /\ mClientWait' \in {mClientWait, Posted(packet.cmd)}
        /\ UNCHANGED <<q, queue, init, socket, device>>
    BY <1>14 DEF Notify, answers
  <2>2. NextRound(mExitRequested) \in {"exited", "poll"}
    BY DEF NextRound
  <2>3. mClientWait' \in [Handler \cup {"temp"} -> Nat]
    BY <2>1, PostedTypes
  <2>4. QED
    BY <2>1, <2>2, <2>3 DEF queue, init, socket, device, playback
<1>15. CASE Host /\ (Device \/ Disconnect)
  BY <1>15, DeviceTypes DEF Host, queue, init, answers
<1>16. CASE UNCHANGED vars
  BY <1>16 DEF vars, looper, queue, init, answers, socket, device, playback
<1>17. QED
  BY <1>1, <1>2, <1>3, <1>4, <1>5, <1>6, <1>7, <1>8, <1>9, <1>10, <1>11, <1>12, <1>13, <1>14,
     <1>15, <1>16 DEF Next, InCall, ThreadLoop

(***************************************************************************)
(* A call is made only after init has connected the looper thread, which   *)
(* then leaves its loop for release and nothing else.                      *)
(***************************************************************************)
Up == lpc \notin {"none", "connect"} /\ mInitResult

Connected ==
  /\ call \in CallsMade => Up
  /\ call = "init" /\ result /\ cpc = "ready" => Up
  /\ lpc \in {"none", "connect"} => mInitWait = 0
  /\ mExitRequested \/ Asked(mMsgQueue, "exit") \/ Asked(q, "exit") => call = "release"
  /\ lpc = "exited" => mExitRequested \/ ~mInitResult
  /\ mInitResult \in BOOLEAN /\ mExitRequested \in BOOLEAN

LEMMA ConnectedStep ==
  ASSUME ClientInv, Ways, NotYet, Connected, [Next]_vars
  PROVE  Connected'
<1> USE DEF Connected, Up
<1>1. CASE InitCall
  BY <1>1 DEF InitCall, GoTo, NotYet, queue, init, CallsMade
<1>2. CASE InitAwait
  <2>1. /\ call = "init" /\ cpc' = "ready" /\ UNCHANGED <<call, lpc, mInitResult, mExitRequested, mMsgQueue, q>>
        /\ \/ mInitWait > 0 /\ mInitWait' = mInitWait - 1 /\ result' = mInitResult
           \/ result' = FALSE /\ UNCHANGED mInitWait
    BY <1>2 DEF InitAwait, Return, looper, queue, ClientInv, InWhichCall
  <2>2. CASE mInitWait > 0 /\ mInitWait' = mInitWait - 1 /\ result' = mInitResult
    <3>1. lpc \notin {"none", "connect"}
      BY <2>2
    <3>2. QED
      BY <2>1, <2>2, <3>1 DEF CallsMade
  <2>3. CASE result' = FALSE /\ UNCHANGED mInitWait
    BY <2>1, <2>3 DEF CallsMade
  <2>4. QED
    BY <2>1, <2>2, <2>3
<1>3. CASE Call /\ ~InitCall
  <2>1. \/ /\ call \notin {"none", "release"} /\ (call = "init" => result) /\ cpc = "ready"
           /\ call' \in CallsMade /\ UNCHANGED <<looper, queue, init>>
        \/ call' = "release" /\ UNCHANGED <<looper, queue, init>>
    BY <1>3 DEF Call, Enter, Release, CallsMade
  <2>2. CASE call' = "release" /\ UNCHANGED <<looper, queue, init>>
    BY <2>2 DEF looper, queue, init, CallsMade
  <2>3. CASE /\ call \notin {"none", "release"} /\ (call = "init" => result) /\ cpc = "ready"
             /\ call' \in CallsMade /\ UNCHANGED <<looper, queue, init>>
    <3>1. call \in CallsMade \/ call = "init"
      BY <2>3 DEF ClientInv, InWhichCall
    <3>2. Up
      BY <2>3, <3>1
    <3>3. QED
      BY <2>3, <3>2 DEF looper, queue, init, CallsMade
  <2>4. QED
    BY <2>1, <2>2, <2>3
<1>4. CASE LockDownload \/ LockGetDeviceInfo \/ (\E id \in Id : LockStart(id)) \/ LockWait \/ LockStop
  <2>1. call \in CallsMade /\ UNCHANGED <<looper, queue, init, call>>
    BY <1>4 DEF LockDownload, LockGetDeviceInfo, LockStart, LockWait, LockStop, Locked, ClientInv,
         InWhichCall, CallsMade
  <2>2. QED
    BY <2>1 DEF looper, queue, init, CallsMade
<1>5. CASE SendMessage
  <2>1. /\ cpc = "send" /\ cpc' = "wake" /\ UNCHANGED <<looper, init, call>>
        /\ mMsgQueue' = Append(mMsgQueue, [what |-> What, to |-> Waiter])
    BY <1>5 DEF SendMessage, GoTo
  <2>2. [what |-> What, to |-> Waiter] \in Message /\ (What = "exit" => call = "release")
    BY <2>1, SentIsMessage DEF ClientInv
  <2>3. Asked(mMsgQueue', "exit") => Asked(mMsgQueue, "exit") \/ What = "exit"
    BY <2>1, <2>2, AppendAsked DEF Ways
  <2>4. QED
    BY <2>1, <2>2, <2>3 DEF looper, init
<1>6. CASE Await
  <2>1. /\ UNCHANGED <<lpc, mExitRequested, init, call>> /\ call \in CallsMade
        /\ mMsgQueue' \in {mMsgQueue, Abandon(mMsgQueue)} /\ q' \in {q, Abandon(q)}
    BY <1>6 DEF Await, ClientInv, InWhichCall
  <2>2. /\ Asked(mMsgQueue', "exit") => Asked(mMsgQueue, "exit")
        /\ Asked(q', "exit") => Asked(q, "exit")
    BY <2>1, AbandonKeeps DEF Ways
  <2>3. QED
    BY <2>1, <2>2 DEF init, CallsMade
<1>7. CASE Wake \/ Answered \/ Join
  <2>1. UNCHANGED <<looper, mMsgQueue, init, call>> /\ call # "init"
    BY <1>7 DEF Wake, Answered, Join, queue, ClientInv, InWhichCall, CallsMade
  <2>2. QED
    BY <2>1 DEF looper, init, CallsMade
<1>8. CASE Connect
  <2>1. /\ lpc = "connect" /\ UNCHANGED <<q, mMsgQueue, mExitRequested, call, result, cpc>>
        /\ \/ lpc' = "poll" /\ mInitResult' = TRUE
           \/ lpc' = "exited" /\ mInitResult' = FALSE
    BY <1>8 DEF Connect, LooperStep, queue, client
  <2>2. QED
    BY <2>1
<1>9. CASE Poll
  BY <1>9 DEF Poll, LooperStep, queue, init, client
<1>10. CASE Drain
  <2>1. /\ lpc = "drain" /\ UNCHANGED <<mExitRequested, init, client>>
        /\ \/ lpc' = "drain" /\ UNCHANGED <<q, mMsgQueue>>
           \/ /\ q' = mMsgQueue /\ mMsgQueue' = <<>>
              /\ lpc' = IF mMsgQueue = <<>> THEN After(mExitRequested) ELSE "handle"
    BY <1>10 DEF Drain, LooperStep
  <2>2. After(mExitRequested) \in {"callback", "poll"} \/ (mExitRequested /\ After(mExitRequested) = "exited")
    BY DEF After, NextRound
  <2>3. QED
    BY <2>1, <2>2, EmptyAsked DEF init, client
<1>11. CASE HandleMessage
  <2>1. /\ lpc = "handle" /\ q # <<>> /\ q' = Tail(q) /\ UNCHANGED <<mExitRequested, queue, init, client>>
        /\ lpc' = IF q' = <<>> THEN After(mExitRequested) ELSE "handle"
    BY <1>11 DEF HandleMessage, LooperStep
  <2>2. After(mExitRequested) \in {"callback", "poll"} \/ (mExitRequested /\ After(mExitRequested) = "exited")
    BY DEF After, NextRound
  <2>3. Asked(q', "exit") => Asked(q, "exit")
    BY <2>1, TailAsked DEF Ways
  <2>4. QED
    BY <2>1, <2>2, <2>3 DEF queue, init, client
<1>12. CASE HandleExit
  <2>1. /\ lpc = "handle" /\ q # <<>> /\ q' = Tail(q) /\ Head(q).what = "exit"
        /\ mExitRequested' = TRUE /\ UNCHANGED <<queue, init, client>>
        /\ lpc' = IF q' = <<>> THEN After(TRUE) ELSE "handle"
    BY <1>12 DEF HandleExit, LooperStep
  <2>2. After(TRUE) \in {"callback", "exited"}
    BY DEF After, NextRound
  <2>3. Asked(q, "exit")
    BY <2>1, TailAsked DEF Ways
  <2>4. call' = "release"
    BY <2>1, <2>3 DEF client
  <2>5. QED
    BY <2>1, <2>2, <2>4 DEF queue, init, CallsMade
<1>13. CASE HandlePacket
  <2>1. /\ lpc = "callback" /\ UNCHANGED <<q, mExitRequested, queue, init, client>>
        /\ lpc' \in {"notify", NextRound(mExitRequested)}
    BY <1>13 DEF HandlePacket, LooperStep
  <2>2. NextRound(mExitRequested) = "poll" \/ (mExitRequested /\ NextRound(mExitRequested) = "exited")
    BY DEF NextRound
  <2>3. QED
    BY <2>1, <2>2 DEF queue, init, client
<1>14. CASE Notify
  <2>1. /\ lpc = "notify" /\ UNCHANGED <<q, mExitRequested, queue, init, client>>
        /\ lpc' = NextRound(mExitRequested)
    BY <1>14 DEF Notify
  <2>2. NextRound(mExitRequested) = "poll" \/ (mExitRequested /\ NextRound(mExitRequested) = "exited")
    BY DEF NextRound
  <2>3. QED
    BY <2>1, <2>2 DEF queue, init, client
<1>15. CASE Host \/ UNCHANGED vars
  BY <1>15 DEF Host, vars, looper, queue, init, client
<1>16. QED
  BY <1>1, <1>2, <1>3, <1>4, <1>5, <1>6, <1>7, <1>8, <1>9, <1>10, <1>11, <1>12, <1>13, <1>14, <1>15
  DEF Next, InCall, ThreadLoop

Base == ClientInv /\ Ways /\ NotYet /\ Connected

(***************************************************************************)
(* Where a command is: from the call that is about to send it to the       *)
(* notification of its reply.  The device only counts while it is there.   *)
(***************************************************************************)
Tracked == {"download"} \cup Media

Busy(h) ==
  \/ h = "playback" /\ player # "none"
  \/ h = "recording" /\ recorder \in {"fresh", "run", "reading"}

Stage == {"call", "queue", "hand", "sent", "device", "reply", "notify"}

At(s, h) ==
  \/ s = "call" /\ cpc = "send" /\ call \in {"start", "download"} /\ handler = h
  \/ s = "queue" /\ Asked(mMsgQueue, h)
  \/ s = "hand" /\ Asked(q, h)
  \/ s = "sent" /\ alive /\ Said(toDevice, h)
  \/ s = "device" /\ alive /\ Busy(h)
  \/ s = "reply" /\ Said(toHost, h)
  \/ s = "notify" /\ lpc = "notify" /\ packet.cmd = h

Onces(h) ==
  /\ OnceAsked(mMsgQueue, h) /\ OnceAsked(q, h)
  /\ OnceSaid(toDevice, h) /\ OnceSaid(toHost, h)

\* It is in one place at most.
Alone(h) == Onces(h) /\ \E p \in Stage : \A s \in Stage : At(s, h) => s = p

\* How it may change its place.
Ahead == {<<"call", "queue">>, <<"queue", "hand">>, <<"hand", "sent">>, <<"sent", "device">>,
          <<"sent", "reply">>, <<"device", "reply">>, <<"reply", "notify">>}
Stays(h) == \A s \in Stage : At(s, h)' => At(s, h)
Hops(h, from, to) ==
  At(from, h) /\ ~At(from, h)' /\ \A s \in Stage : At(s, h)' => At(s, h) \/ s = to
Opens(h) ==
  /\ cpc = "lock" /\ call \in {"start", "download"} /\ handler = h /\ cpc' = "send"
  /\ UNCHANGED <<call, handler>>
  /\ \A s \in Stage : At(s, h)' => At(s, h) \/ s = "call"
Moves(h) ==
  /\ Onces(h)'
  /\ \/ Stays(h) \/ Opens(h)
     \/ \E from, to \in Stage : <<from, to>> \in Ahead /\ Hops(h, from, to)

LEMMA AtEach ==
  ASSUME NEW h
  PROVE  /\ At("call", h) <=> cpc = "send" /\ call \in {"start", "download"} /\ handler = h
         /\ At("queue", h) <=> Asked(mMsgQueue, h)
         /\ At("hand", h) <=> Asked(q, h)
         /\ At("sent", h) <=> alive /\ Said(toDevice, h)
         /\ At("device", h) <=> alive /\ Busy(h)
         /\ At("reply", h) <=> Said(toHost, h)
         /\ At("notify", h) <=> lpc = "notify" /\ packet.cmd = h
BY DEF At

(* Nothing that says where a command is has changed, but perhaps the call. *)
LEMMA PlacesUnchanged ==
  ASSUME NEW h, Onces(h), UNCHANGED <<mMsgQueue, q, packet, socket, device>>,
         lpc' = "notify" => lpc = "notify",
         cpc' = "send" /\ call' \in {"start", "download"} =>
           /\ cpc = "send" /\ UNCHANGED <<call, handler>>
  PROVE  Moves(h)
<1>1. Onces(h)'
  BY DEF Onces, socket
<1>2. Stays(h)
  BY DEF Stays, At, Busy, socket, device, playback, recording
<1>3. QED
  BY <1>1, <1>2 DEF Moves

LEMMA ClientMoves ==
  ASSUME Base, NEW h \in Tracked, Alone(h), Call \/ InCall
  PROVE  Moves(h)
<1> USE DEF Alone
<1>1. CASE Call
  BY <1>1, PlacesUnchanged DEF Call, InitCall, Enter, Release, GoTo, looper, queue
<1>2. CASE InitAwait \/ Wake \/ Answered \/ Join
  BY <1>2, PlacesUnchanged DEF InitAwait, Wake, Answered, Join, GoTo, Return, looper, queue
<1>3. CASE LockGetDeviceInfo \/ LockWait \/ LockStop
  BY <1>3, PlacesUnchanged DEF LockGetDeviceInfo, LockWait, LockStop, Locked, GoTo, Return, looper, queue
<1>4. CASE LockDownload \/ \E id \in Id : LockStart(id)
  <2>1. /\ UNCHANGED <<looper, queue, socket, device, call, handler>>
        /\ cpc = "lock" /\ call \in {"start", "download"} /\ cpc' \in {"send", "ready"}
    BY <1>4 DEF LockDownload, LockStart, Locked, GoTo, Return
  <2>2. Onces(h)'
    BY <2>1 DEF Onces, looper, queue, socket
  <2>3. \A s \in Stage : At(s, h)' => At(s, h) \/ (s = "call" /\ cpc' = "send" /\ handler = h)
    BY <2>1 DEF At, Busy, looper, queue, socket, device, playback, recording
  <2>4. Stays(h) \/ Opens(h)
    BY <2>1, <2>3 DEF Stays, Opens
  <2>5. QED
    BY <2>2, <2>4 DEF Moves
<1>5. CASE SendMessage
  <2> DEFINE m == [what |-> What, to |-> Waiter]
  <2>1. /\ cpc = "send" /\ cpc' = "wake" /\ mMsgQueue' = Append(mMsgQueue, m)
        /\ UNCHANGED <<looper, socket, device, call, handler>>
    BY <1>5 DEF SendMessage, GoTo
  <2>2. m \in Message /\ (What = h => handler = h /\ call \in {"start", "download"})
    BY <2>1, SentIsMessage DEF Base, ClientInv, InWhichCall, Tracked, Media, Handler
  <2>3. What = h => At("call", h)
    BY <2>1, <2>2, AtEach
  <2>4. Asked(mMsgQueue', h) <=> Asked(mMsgQueue, h) \/ What = h
    BY <2>1, <2>2, AppendAsked DEF Base, Ways
  <2>5. What = h => ~Asked(mMsgQueue, h)
    BY <2>3, AtEach DEF Stage
  <2>6. OnceAsked(mMsgQueue', h)
    BY <2>1, <2>2, <2>5, AppendAsked DEF Base, Ways, Onces
  <2>7. Onces(h)'
    BY <2>1, <2>6 DEF Onces, looper, socket
  <2>8. \A s \in Stage : At(s, h)' => At(s, h) \/ (s = "queue" /\ What = h)
    BY <2>1, <2>4 DEF At, Busy, looper, socket, device, playback, recording
  <2>9. ~At("call", h)'
    BY <2>1 DEF At
  <2>10. CASE What = h
    BY <2>3, <2>7, <2>8, <2>9, <2>10 DEF Moves, Hops, Ahead, Stage
  <2>11. CASE What # h
    BY <2>7, <2>8, <2>11 DEF Moves, Stays
  <2>12. QED
    BY <2>10, <2>11
<1>6. CASE Await
  <2>1. /\ UNCHANGED <<lpc, packet, socket, device>> /\ cpc' # "send"
        /\ mMsgQueue' \in {mMsgQueue, Abandon(mMsgQueue)} /\ q' \in {q, Abandon(q)}
    BY <1>6 DEF Await, GoTo, Return
  <2>2. /\ Asked(mMsgQueue', h) => Asked(mMsgQueue, h)
        /\ Asked(q', h) => Asked(q, h)
        /\ OnceAsked(mMsgQueue', h) /\ OnceAsked(q', h)
    BY <2>1, AbandonKeeps DEF Base, Ways, Onces
  <2>3. Onces(h)'
    BY <2>1, <2>2 DEF Onces, socket
  <2>4. Stays(h)
    BY <2>1, <2>2 DEF Stays, At, Busy, socket, device, playback, recording
  <2>5. QED
    BY <2>3, <2>4 DEF Moves
<1>7. QED
  BY <1>1, <1>2, <1>3, <1>4, <1>5, <1>6 DEF InCall

LEMMA LooperMoves ==
  ASSUME Base, NEW h \in Tracked, Alone(h), ThreadLoop
  PROVE  Moves(h)
<1> USE DEF Alone
<1>0. h \in Handler /\ h # "exit"
  BY DEF Tracked, Media, Handler
<1>1. CASE Connect \/ Poll
  BY <1>1, PlacesUnchanged DEF Connect, Poll, LooperStep, queue, client
<1>2. CASE Drain
  <2>1. /\ lpc = "drain" /\ UNCHANGED <<packet, socket, device, client>>
        /\ \/ lpc' = "drain" /\ UNCHANGED <<q, mMsgQueue>>
           \/ /\ q' = mMsgQueue /\ mMsgQueue' = <<>>
              /\ lpc' = IF mMsgQueue = <<>> THEN After(mExitRequested) ELSE "handle"
    BY <1>2 DEF Drain, LooperStep
  <2>2. After(mExitRequested) # "notify"
    BY DEF After, NextRound
  <2>3. CASE lpc' = "drain" /\ UNCHANGED <<q, mMsgQueue>>
    BY <2>1, <2>3, PlacesUnchanged DEF client
  <2>4. CASE q' = mMsgQueue /\ mMsgQueue' = <<>> /\ lpc' # "notify"
    <3>1. Onces(h)'
      BY <2>1, <2>4, EmptyAsked DEF Onces, socket
    <3>2. \A s \in Stage : At(s, h)' => At(s, h) \/ (s = "hand" /\ At("queue", h))
      BY <2>1, <2>4, EmptyAsked DEF At, Busy, socket, device, playback, recording, client
    <3>3. ~At("queue", h)'
      BY <2>4, EmptyAsked DEF At
    <3>4. CASE At("queue", h)
      BY <3>1, <3>2, <3>3, <3>4 DEF Moves, Hops, Ahead, Stage
    <3>5. CASE ~At("queue", h)
      BY <3>1, <3>2, <3>5 DEF Moves, Stays
    <3>6. QED
      BY <3>4, <3>5
  <2>5. QED
    BY <2>1, <2>2, <2>3, <2>4
<1>3. CASE HandleMessage
  <2> DEFINE m == [cmd |-> Head(q).what,
                   id |-> IF Head(q).to \in Handler THEN mParamId[Head(q).to] ELSE 0]
  <2>1. /\ q # <<>> /\ Head(q).what # "exit" /\ q' = Tail(q) /\ lpc = "handle"
        /\ lpc' = IF q' = <<>> THEN After(mExitRequested) ELSE "handle"
        /\ UNCHANGED <<packet, mMsgQueue, toHost, device, client>>
        /\ \/ alive /\ toDevice' = Append(toDevice, m)
           \/ ~alive /\ UNCHANGED toDevice
    BY <1>3 DEF HandleMessage, LooperStep, queue
  <2>2. lpc' # "notify"
    BY <2>1 DEF After, NextRound
  <2>3. Head(q) \in Message /\ Head(q).what \in Commands /\ Head(q).to \in Handler \cup {"temp", "gone"}
    BY <2>1, TailAt DEF Base, Ways, Message
  <2>4. m \in Command
    <3>1. mParamId \in [Handler -> Nat]
      BY DEF Base, ClientInv, Handlers
    <3>2. (IF Head(q).to \in Handler THEN mParamId[Head(q).to] ELSE 0) \in Nat
      BY <3>1
    <3>3. QED
      BY <2>3, <3>2 DEF Command
  <2>5. /\ Asked(q, h) <=> Head(q).what = h \/ Asked(q', h)
        /\ OnceAsked(q', h) /\ (Head(q).what = h => ~Asked(q', h))
    BY <2>1, TailAsked DEF Base, Ways, Onces
  <2>6. CASE alive /\ toDevice' = Append(toDevice, m)
    <3>1. m.cmd = Head(q).what
      OBVIOUS
    <3> HIDE DEF m
    <3>2. Said(toDevice', h) <=> Said(toDevice, h) \/ Head(q).what = h
      BY <2>4, <2>6, <3>1, AppendSaid DEF Base, Ways
    <3>3. Head(q).what = h => At("hand", h) /\ ~At("sent", h)
      BY <2>5, AtEach DEF Stage
    <3>4. OnceSaid(toDevice', h)
      <4>1. Head(q).what = h => ~Said(toDevice, h)
        BY <2>6, <3>3, AtEach
      <4>2. QED
        BY <2>4, <2>6, <3>1, <4>1, AppendSaid DEF Base, Ways, Onces
    <3>5. Onces(h)'
      BY <2>1, <2>5, <3>4 DEF Onces
    <3>6. \A s \in Stage : At(s, h)' => At(s, h) \/ (s = "sent" /\ Head(q).what = h)
      BY <2>1, <2>2, <2>5, <3>2 DEF At, Busy, device, playback, recording, client
    <3>7. Head(q).what = h => ~At("hand", h)'
      BY <2>5 DEF At
    <3>8. CASE Head(q).what = h
      BY <3>3, <3>5, <3>6, <3>7, <3>8 DEF Moves, Hops, Ahead, Stage
    <3>9. CASE Head(q).what # h
      BY <3>5, <3>6, <3>9 DEF Moves, Stays
    <3>10. QED
      BY <3>8, <3>9
  <2>7. CASE ~alive /\ UNCHANGED toDevice
    <3>1. Onces(h)'
      BY <2>1, <2>5, <2>7 DEF Onces
    <3>2. Stays(h)
      BY <2>1, <2>2, <2>5, <2>7 DEF Stays, At, Busy, device, playback, recording, client
    <3>3. QED
      BY <3>1, <3>2 DEF Moves
  <2>8. QED
    BY <2>1, <2>6, <2>7
<1>4. CASE HandleExit
  <2>1. /\ q # <<>> /\ q' = Tail(q)
        /\ lpc' = IF q' = <<>> THEN After(TRUE) ELSE "handle"
        /\ UNCHANGED <<packet, mMsgQueue, socket, device, client>>
    BY <1>4 DEF HandleExit, LooperStep, queue
  <2>2. lpc' # "notify"
    BY <2>1 DEF After, NextRound
  <2>3. (Asked(q', h) => Asked(q, h)) /\ OnceAsked(q', h)
    BY <2>1, TailAsked DEF Base, Ways, Onces
  <2>4. Onces(h)'
    BY <2>1, <2>3 DEF Onces, socket
  <2>5. Stays(h)
    BY <2>1, <2>2, <2>3 DEF Stays, At, Busy, socket, device, playback, recording, client
  <2>6. QED
    BY <2>4, <2>5 DEF Moves
<1>5. CASE HandlePacket
  <2>1. /\ lpc = "callback" /\ UNCHANGED <<q, mMsgQueue, toDevice, device, client>>
        /\ \/ UNCHANGED <<toHost, packet>> /\ lpc' = NextRound(mExitRequested)
           \/ /\ toHost # <<>> /\ toHost' = Tail(toHost) /\ packet' = Head(toHost)
              /\ lpc' = IF packet'.cmd \in Handler THEN "notify" ELSE NextRound(mExitRequested)
    BY <1>5 DEF HandlePacket, LooperStep, queue
  <2>2. NextRound(mExitRequested) # "notify"
    BY DEF NextRound
  <2>3. CASE UNCHANGED <<toHost, packet>> /\ lpc' = NextRound(mExitRequested)
    BY <2>1, <2>2, <2>3, PlacesUnchanged DEF socket, client
  <2>4. CASE toHost # <<>> /\ toHost' = Tail(toHost) /\ packet' = Head(toHost)
    <3>1. /\ Said(toHost, h) <=> Head(toHost).cmd = h \/ Said(toHost', h)
          /\ OnceSaid(toHost', h) /\ (Head(toHost).cmd = h => ~Said(toHost', h))
      BY <2>4, TailSaid DEF Base, Ways, Onces
    <3>2. Onces(h)'
      BY <2>1, <3>1 DEF Onces
    <3>3. \A s \in Stage : At(s, h)' => At(s, h) \/ (s = "notify" /\ Head(toHost).cmd = h)
      BY <2>1, <2>4, <3>1 DEF At, Busy, device, playback, recording, client
    <3>4. Head(toHost).cmd = h => At("reply", h) /\ ~At("reply", h)'
      BY <3>1 DEF At
    <3>5. CASE Head(toHost).cmd = h
      BY <3>2, <3>3, <3>4, <3>5 DEF Moves, Hops, Ahead, Stage
    <3>6. CASE Head(toHost).cmd # h
      BY <3>2, <3>3, <3>6 DEF Moves, Stays
    <3>7. QED
      BY <3>5, <3>6
  <2>5. QED
    BY <2>1, <2>3, <2>4
<1>6. CASE Notify
  <2>1. lpc' # "notify" /\ UNCHANGED <<mMsgQueue, q, packet, socket, device, client>>
    BY <1>6 DEF Notify, NextRound, queue
  <2>2. QED
    BY <2>1, PlacesUnchanged DEF client
<1>7. QED
  BY <1>1, <1>2, <1>3, <1>4, <1>5, <1>6 DEF ThreadLoop

\* What a received command and a reply do to where h is.
LEMMA ReceiveTakes ==
  ASSUME NEW c, Receive(c), toDevice \in Seq(Command), NEW h, OnceSaid(toDevice, h)
  PROVE  /\ alive /\ OnceSaid(toDevice', h)
         /\ Said(toDevice', h) => Said(toDevice, h)
         /\ c = h => Said(toDevice, h) /\ ~Said(toDevice', h)
BY TailSaid DEF Receive

LEMMA ReplyAdds ==
  ASSUME NEW c \in Commands, NEW ok \in BOOLEAN, Reply(c, ok), toHost \in Seq(AReply),
         NEW h, OnceSaid(toHost, h), c = h => ~Said(toHost, h)
  PROVE  /\ OnceSaid(toHost', h)
         /\ Said(toHost', h) => Said(toHost, h) \/ c = h
<1>1. [cmd |-> c, ok |-> ok] \in AReply
  BY DEF AReply
<1>2. QED
  BY <1>1, AppendSaid DEF Reply

\* A step of the device that neither takes nor answers h, nor ends it.
LEMMA DeviceStays ==
  ASSUME NEW h, Onces(h), Host, OnceSaid(toDevice', h), OnceSaid(toHost', h),
         Said(toDevice', h) => Said(toDevice, h), Said(toHost', h) => Said(toHost, h),
         alive' => alive /\ (Busy(h)' => Busy(h))
  PROVE  Moves(h)
<1>1. Onces(h)'
  BY DEF Onces, Host, queue
<1>2. Stays(h)
  BY DEF Stays, At, Host, queue, client
<1>3. QED
  BY <1>1, <1>2 DEF Moves

LEMMA DeviceHops ==
  ASSUME NEW h, Onces(h), Host, OnceSaid(toDevice', h), OnceSaid(toHost', h),
         NEW from, NEW to, <<from, to>> \in {<<"sent", "device">>, <<"sent", "reply">>, <<"device", "reply">>},
         At(from, h), ~At(from, h)',
         Said(toDevice', h) => Said(toDevice, h), alive' => alive,
         Said(toHost', h) => Said(toHost, h) \/ to = "reply",
         Busy(h)' => Busy(h) \/ to = "device"
  PROVE  Moves(h)
<1>1. Onces(h)'
  BY DEF Onces, Host, queue
<1>2. \A s \in Stage : At(s, h)' => At(s, h) \/ s = to
  BY DEF At, Host, queue, client
<1>3. from \in Stage /\ to \in Stage /\ <<from, to>> \in Ahead
  BY DEF Stage, Ahead
<1>4. QED
  BY <1>1, <1>2, <1>3 DEF Moves, Hops

LEMMA DeviceMoves ==
  ASSUME Base, NEW h \in Tracked, Alone(h), h = "playback" => unreplied = 0,
         Host, Device \/ Disconnect
  PROVE  Moves(h)
<1> USE DEF Alone
<1>0. /\ toDevice \in Seq(Command) /\ toHost \in Seq(AReply)
      /\ Onces(h) /\ OnceSaid(toDevice, h) /\ OnceSaid(toHost, h)
      /\ h \in {"download", "playback", "recording"}
  BY DEF Base, Ways, Onces, Tracked, Media
<1>c. {"download", "info", "playback", "recording", "stopPlayback", "stopRecording"} \subseteq Commands
  BY DEF Commands, Handler
<1>1. CASE HandleDownload
  <2>1. Receive("download") /\ Reply("download", TRUE) /\ UNCHANGED <<alive, playback, recording>>
    BY <1>1 DEF HandleDownload
  <2>2. /\ alive /\ OnceSaid(toDevice', h) /\ (Said(toDevice', h) => Said(toDevice, h))
        /\ "download" = h => Said(toDevice, h) /\ ~Said(toDevice', h)
    BY <1>0, <2>1, ReceiveTakes
  <2>3. h = "download" => At("sent", h) /\ ~Said(toHost, h)
    BY <2>2, AtEach DEF Stage
  <2>4. OnceSaid(toHost', h) /\ (Said(toHost', h) => Said(toHost, h) \/ "download" = h)
    BY <1>0, <1>c, <2>1, <2>3, ReplyAdds
  <2>5. Busy(h)' => Busy(h)
    BY <2>1 DEF Busy, playback, recording
  <2>6. CASE h = "download"
    <3>1. ~At("sent", h)'
      BY <2>2, <2>6 DEF At
    <3>2. QED
      BY <1>0, <2>1, <2>2, <2>3, <2>4, <2>5, <2>6, <3>1, DeviceHops
  <2>7. CASE h # "download"
    BY <1>0, <2>1, <2>2, <2>4, <2>5, <2>7, DeviceStays
  <2>8. QED
    BY <2>6, <2>7
<1>2. CASE HandleGetDeviceInfo
  <2>1. Receive("info") /\ Reply("info", TRUE) /\ UNCHANGED device
    BY <1>2 DEF HandleGetDeviceInfo
  <2>2. /\ alive /\ OnceSaid(toDevice', h) /\ (Said(toDevice', h) => Said(toDevice, h))
    BY <1>0, <2>1, ReceiveTakes
  <2>3. OnceSaid(toHost', h) /\ (Said(toHost', h) => Said(toHost, h))
    BY <1>0, <1>c, <2>1, ReplyAdds
  <2>4. Busy(h)' => Busy(h)
    BY <2>1 DEF Busy, device, playback, recording
  <2>5. QED
    BY <1>0, <2>2, <2>3, <2>4, DeviceStays
<1>3. CASE HandleStartPlayback
  <2>1. /\ Receive("playback") /\ UNCHANGED <<alive, recording>>
        /\ \/ player' = "fresh" /\ UNCHANGED toHost
           \/ Reply("playback", FALSE) /\ UNCHANGED player
    BY <1>3 DEF HandleStartPlayback
  <2>2. /\ alive /\ OnceSaid(toDevice', h) /\ (Said(toDevice', h) => Said(toDevice, h))
        /\ "playback" = h => Said(toDevice, h) /\ ~Said(toDevice', h)
    BY <1>0, <2>1, ReceiveTakes
  <2>3. h = "playback" => At("sent", h) /\ ~Said(toHost, h) /\ ~At("sent", h)'
    BY <2>2, AtEach DEF Stage, At
  <2>4. OnceSaid(toHost', h)
        /\ (Said(toHost', h) => Said(toHost, h) \/ (h = "playback" /\ UNCHANGED player))
    BY <1>0, <1>c, <2>1, <2>3, ReplyAdds
  <2>5. Busy(h)' => Busy(h) \/ (h = "playback" /\ UNCHANGED toHost)
    BY <2>1 DEF Busy, recording
  <2>6. CASE h = "playback" /\ player' = "fresh" /\ UNCHANGED toHost
    BY <1>0, <2>1, <2>2, <2>3, <2>5, <2>6, DeviceHops
  <2>7. CASE h = "playback" /\ Reply("playback", FALSE) /\ UNCHANGED player
    <3>1. Busy(h)' => Busy(h)
      BY <2>7 DEF Busy
    <3>2. QED
      BY <1>0, <2>1, <2>2, <2>3, <2>4, <2>7, <3>1, DeviceHops
  <2>8. CASE h # "playback"
    BY <1>0, <2>1, <2>2, <2>4, <2>5, <2>8, DeviceStays
  <2>9. QED
    BY <2>1, <2>6, <2>7, <2>8
<1>4. CASE HandleStartRecording
  <2>1. Receive("recording") /\ recorder' = "fresh" /\ UNCHANGED <<toHost, alive, playback>>
    BY <1>4 DEF HandleStartRecording
  <2>2. /\ alive /\ OnceSaid(toDevice', h) /\ (Said(toDevice', h) => Said(toDevice, h))
        /\ "recording" = h => Said(toDevice, h) /\ ~Said(toDevice', h)
    BY <1>0, <2>1, ReceiveTakes
  <2>3. Busy(h)' => Busy(h) \/ h = "recording"
    BY <2>1 DEF Busy, playback
  <2>4. CASE h = "recording"
    <3>1. At("sent", h) /\ ~At("sent", h)'
      BY <2>2, <2>4 DEF At
    <3>2. QED
      BY <1>0, <2>1, <2>2, <3>1, DeviceHops
  <2>5. CASE h # "recording"
    BY <1>0, <2>1, <2>2, <2>3, <2>5, DeviceStays
  <2>6. QED
    BY <2>4, <2>5
<1>5. CASE HandleStopPlayback \/ HandleStopRecording
  <2>1. /\ Receive("stopPlayback") \/ Receive("stopRecording")
        /\ UNCHANGED <<toHost, player, recorder>> /\ (alive' => alive)
    BY <1>5 DEF HandleStopPlayback, HandleStopRecording, Crash, playback, recording, Receive
  <2>2. /\ alive /\ OnceSaid(toDevice', h) /\ (Said(toDevice', h) => Said(toDevice, h))
    BY <1>0, <2>1, ReceiveTakes
  <2>3. Busy(h)' => Busy(h)
    BY <2>1 DEF Busy
  <2>4. QED
    BY <1>0, <2>1, <2>2, <2>3, DeviceStays
<1>6. CASE QuitPlayer \/ JoinPlayer \/ QuitRecorder \/ JoinRecorder
  <2>1. /\ \/ Reply("stopPlayback", TRUE) \/ Reply("stopRecording", TRUE) \/ UNCHANGED toHost
        /\ UNCHANGED <<toDevice, player, recorder>> /\ (alive' => alive)
    BY <1>6 DEF QuitPlayer, JoinPlayer, QuitRecorder, JoinRecorder, Crash, playback, recording
  <2>2. OnceSaid(toHost', h) /\ (Said(toHost', h) => Said(toHost, h))
    BY <1>0, <1>c, <2>1, ReplyAdds
  <2>3. Busy(h)' => Busy(h)
    BY <2>1 DEF Busy
  <2>4. QED
    BY <1>0, <2>1, <2>2, <2>3, DeviceStays
<1>7. CASE \/ PlayerPrepares \/ PlayerRuns \/ PlayerWrites \/ PlayerQuits
           \/ OnMarkerReached \/ MarkerReleases \/ MarkerQuits
  <2>1. /\ UNCHANGED <<toDevice, toHost, recorder>> /\ (alive' => alive)
        /\ player' # "none" => player # "none"
    BY <1>7 DEF PlayerPrepares, PlayerRuns, PlayerWrites, PlayerQuits, OnMarkerReached,
       MarkerReleases, MarkerQuits, PlayerStep, Crash, playback, recording
  <2>2. Busy(h)' => Busy(h)
    BY <2>1 DEF Busy
  <2>3. QED
    BY <1>0, <2>1, <2>2, DeviceStays
<1>8. CASE MarkerReplies
  <2>1. /\ Reply("playback", TRUE) /\ UNCHANGED <<toDevice, alive, recorder>>
        /\ alive /\ player = "reply" /\ player' = "none"
    BY <1>8 DEF MarkerReplies, PlayerStep, recording
  <2>2. h = "playback" => At("device", h) /\ ~Said(toHost, h) /\ ~At("device", h)'
    BY <2>1, AtEach DEF Stage, At, Busy
  <2>3. OnceSaid(toHost', h) /\ (Said(toHost', h) => Said(toHost, h) \/ "playback" = h)
    BY <1>0, <1>c, <2>1, <2>2, ReplyAdds
  <2>4. Busy(h)' => Busy(h)
    BY <2>1 DEF Busy
  <2>5. CASE h = "playback"
    BY <1>0, <2>1, <2>2, <2>3, <2>4, <2>5, DeviceHops
  <2>6. CASE h # "playback"
    BY <1>0, <2>1, <2>3, <2>4, <2>6, DeviceStays
  <2>7. QED
    BY <2>5, <2>6
<1>9. CASE OldPlayerReplies
  <2>1. /\ Reply("playback", TRUE) /\ UNCHANGED <<toDevice, alive, player, recorder>>
        /\ unreplied > 0
    BY <1>9 DEF OldPlayerReplies, recording
  <2>2. h # "playback"
    BY <2>1
  <2>3. OnceSaid(toHost', h) /\ (Said(toHost', h) => Said(toHost, h))
    BY <1>0, <1>c, <2>1, <2>2, ReplyAdds
  <2>4. Busy(h)' => Busy(h)
    BY <2>1 DEF Busy
  <2>5. QED
    BY <1>0, <2>1, <2>3, <2>4, DeviceStays
<1>10. CASE OldRecorderEnds \/ RecorderPrepares \/ RecorderRuns \/ RecorderEnds \/ RecorderQuits
  <2>1. /\ UNCHANGED <<toDevice, toHost, player>> /\ (alive' => alive)
        /\ recorder' = recorder \/ (recorder = "fresh" /\ recorder' = "run")
           \/ (recorder = "run" /\ recorder' = "reading") \/ recorder' \in {"loop", "none"}
    BY <1>10 DEF OldRecorderEnds, RecorderPrepares, RecorderRuns, RecorderEnds, RecorderQuits,
       RecorderStep, Crash, playback, recording
  <2>2. Busy(h)' => Busy(h)
    BY <2>1 DEF Busy
  <2>3. QED
    BY <1>0, <2>1, <2>2, DeviceStays
<1>11. ASSUME NEW ok \in BOOLEAN, RecorderReplies(ok)
       PROVE  Moves(h)
  <2>1. /\ Reply("recording", ok) /\ UNCHANGED <<toDevice, alive, player>>
        /\ alive /\ recorder = "reading" /\ recorder' = "finally"
    BY <1>11 DEF RecorderReplies, RecorderStep, playback
  <2>2. h = "recording" => At("device", h) /\ ~Said(toHost, h) /\ ~At("device", h)'
    BY <2>1, AtEach DEF Stage, At, Busy
  <2>3. OnceSaid(toHost', h) /\ (Said(toHost', h) => Said(toHost, h) \/ "recording" = h)
    BY <1>0, <1>c, <2>1, <2>2, ReplyAdds
  <2>4. Busy(h)' => Busy(h)
    BY <2>1 DEF Busy
  <2>5. CASE h = "recording"
    BY <1>0, <2>1, <2>2, <2>3, <2>4, <2>5, DeviceHops
  <2>6. CASE h # "recording"
    BY <1>0, <2>1, <2>3, <2>4, <2>6, DeviceStays
  <2>7. QED
    BY <2>5, <2>6
<1>12. CASE Disconnect
  BY <1>0, <1>12, DeviceStays DEF Disconnect, Crash
<1>13. QED
  BY <1>1, <1>2, <1>3, <1>4, <1>5, <1>6, <1>7, <1>8, <1>9, <1>10, <1>11, <1>12
  DEF Device, Server, Player, Recorder

\* So it stays in one place.
LEMMA MovesAlone ==
  ASSUME NEW h, Alone(h), Moves(h), Opens(h) => \A s \in Stage : ~At(s, h)
  PROVE  Alone(h)'
<1>1. PICK p \in Stage : \A s \in Stage : At(s, h) => s = p
  BY DEF Alone
<1>2. Onces(h)'
  BY DEF Moves
<1>3. CASE Stays(h)
  BY <1>1, <1>2, <1>3 DEF Stays, Alone
<1>4. CASE Opens(h)
  BY <1>2, <1>4 DEF Opens, Alone, Stage
<1>5. ASSUME NEW from \in Stage, NEW to \in Stage, Hops(h, from, to)
      PROVE  Alone(h)'
  <2>1. from = p
    BY <1>1, <1>5 DEF Hops
  <2>2. \A s \in Stage : At(s, h)' => s = to
    BY <1>1, <1>5, <2>1 DEF Hops
  <2>3. QED
    BY <1>2, <2>2 DEF Alone
<1>6. QED
  BY <1>3, <1>4, <1>5 DEF Moves

\* Nothing of it is left once the client has been told.
LEMMA NotifyEnds ==
  ASSUME NEW h, Alone(h), Moves(h), ~Opens(h), At("notify", h), lpc' # "notify"
  PROVE  \A s \in Stage : ~At(s, h)'
<1>1. \A t \in Stage : At(t, h) => t = "notify"
  BY DEF Alone, Stage
<1>2. Stays(h)
  BY <1>1 DEF Moves, Hops, Ahead
<1>3. QED
  BY <1>1, <1>2, AtEach DEF Stays, At

LEMMA AllMove ==
  ASSUME Base, NEW h \in Tracked, Alone(h), h = "playback" => unreplied = 0, [Next]_vars
  PROVE  Moves(h)
<1>1. CASE UNCHANGED vars
  BY <1>1, PlacesUnchanged DEF vars, looper, queue, client, Alone
<1>2. QED
  BY <1>1, ClientMoves, LooperMoves, DeviceMoves DEF Next

LEMMA InitTypes ==
  ASSUME Init
  PROVE  Base
<1> USE DEF Init, DeviceInit
<1>1. ClientInv
  BY DEF ClientInv, InWhichCall, Handlers, Handler, CallsMade, Media
<1>2. Ways
  BY DEF Ways, Handler
<1>3. NotYet /\ Connected
  BY EmptyAsked DEF NotYet, Connected, CallsMade
<1>4. QED
  BY <1>1, <1>2, <1>3 DEF Base

LEMMA InitNowhere ==
  ASSUME Init
  PROVE  \A h \in Tracked : Alone(h) /\ \A s \in Stage : ~At(s, h)
<1>1. ASSUME NEW h \in Tracked
      PROVE  Onces(h) /\ \A s \in Stage : ~At(s, h)
  BY EmptyAsked, EmptySaid DEF Init, DeviceInit, Onces, At, Busy
<1>2. QED
  BY <1>1 DEF Alone, Stage

LEMMA BaseStep ==
  ASSUME Base, [Next]_vars
  PROVE  Base'
BY ClientStep, WaysStep, NotYetStep, ConnectedStep DEF Base

(***************************************************************************)
(* One playback or recording at a time, if none of the kind is stopped.    *)
(***************************************************************************)
RecorderSteps == recorder \in {"none", "fresh", "run", "reading", "finally", "loop"}

\* A command that is anywhere has its handler active; no thread is left behind.
Tasks ==
  /\ \A h \in Media : NeverStopped(h) => Alone(h) /\ \A s \in Stage : At(s, h) => mActive[h]
  /\ NeverStopped("playback") => unreplied = 0

\* A call to stop is for a kind that is stopped.
LEMMA OtherStopped ==
  ASSUME Base, NEW h, NeverStopped(h)
  PROVE  call = "stop" => handler # h
BY DEF Base, ClientInv, InWhichCall, NeverStopped

LEMMA RecorderStepsStep ==
  ASSUME RecorderSteps, [Next]_vars
  PROVE  RecorderSteps'
<1> USE DEF RecorderSteps
<1>1. CASE Server
  BY <1>1 DEF Server, HandleDownload, HandleGetDeviceInfo, HandleStartPlayback,
       HandleStartRecording, HandleStopPlayback, QuitPlayer, JoinPlayer, HandleStopRecording,
       QuitRecorder, JoinRecorder, Crash, device, recording
<1>2. CASE Player
  BY <1>2 DEF Player, PlayerPrepares, PlayerRuns, PlayerWrites, PlayerQuits, OnMarkerReached,
       MarkerReleases, MarkerQuits, MarkerReplies, OldPlayerReplies, PlayerStep, Crash, recording
<1>3. CASE Recorder
  BY <1>3 DEF Recorder, OldRecorderEnds, RecorderPrepares, RecorderRuns, RecorderReplies,
       RecorderEnds, RecorderQuits, RecorderStep, Crash, recording
<1>4. CASE Disconnect
  BY <1>4 DEF Disconnect, Crash, recording
<1>5. CASE ThreadLoop
  BY <1>5, LooperKeeps DEF ThreadLoop, Notify, device, recording
<1>6. QED
  BY <1>1, <1>2, <1>3, <1>4, <1>5, ClientKeeps DEF Next, Device, vars, device, recording

\* A step that gives up a handler, and is no stop of it, has just told of its reply.
LEMMA ActiveKept ==
  ASSUME Base, [Next]_vars, NEW h \in Media, mActive[h], ~mActive'[h],
         call = "stop" => handler # h
  PROVE  lpc = "notify" /\ packet.cmd = h /\ Notify
<1>0. /\ h \in Handler /\ mActive \in [Handler -> BOOLEAN]
  BY DEF Media, Handler, Base, ClientInv, Handlers
<1>1. CASE Call
  BY <1>1 DEF Call, InitCall, Enter, Release, state
<1>2. CASE InitAwait \/ SendMessage \/ Wake \/ Await \/ Answered \/ Join
  BY <1>2 DEF InitAwait, SendMessage, Wake, Await, Answered, Join, state
<1>3. CASE LockDownload \/ LockGetDeviceInfo \/ LockWait \/ LockStop
  BY <1>0, <1>3 DEF LockDownload, LockGetDeviceInfo, LockWait, LockStop, Locked
<1>4. ASSUME NEW id \in Id, LockStart(id)
      PROVE  FALSE
  BY <1>0, <1>4 DEF LockStart
<1>5. CASE Notify
  BY <1>0, <1>5 DEF Notify
<1>6. CASE Host \/ UNCHANGED vars
  BY <1>6 DEF Host, vars, state
<1>7. QED
  BY <1>1, <1>2, <1>3, <1>4, <1>5, <1>6, LooperKeeps DEF Next, InCall, ThreadLoop, state

\* A start that goes on found its handler inactive.
LEMMA OpensActive ==
  ASSUME Base, Next, NEW h \in Media, Opens(h)
  PROVE  ~mActive[h] /\ mActive'[h]
<1>0. /\ h \in Handler /\ mActive \in [Handler -> BOOLEAN]
      /\ cpc = "lock" /\ cpc' = "send" /\ handler = h /\ call = "start"
  BY DEF Media, Handler, Base, ClientInv, Handlers, InWhichCall, Opens
<1>1. CASE Call
  BY <1>0, <1>1 DEF Call, InitCall, Enter, Release
<1>2. CASE InitAwait \/ SendMessage \/ Wake \/ Await \/ Answered \/ Join
  BY <1>0, <1>2 DEF InitAwait, SendMessage, Wake, Await, Answered, Join
<1>3. CASE LockDownload \/ LockGetDeviceInfo \/ LockWait \/ LockStop
  BY <1>0, <1>3 DEF LockDownload, LockGetDeviceInfo, LockWait, LockStop, Locked
<1>4. ASSUME NEW id \in Id, LockStart(id)
      PROVE  ~mActive[h] /\ mActive'[h]
  BY <1>0, <1>4 DEF LockStart, Return
<1>5. CASE ThreadLoop
  BY <1>0, <1>5, LooperKeeps DEF ThreadLoop, Notify, client
<1>6. CASE Host
  BY <1>0, <1>6 DEF Host, client
<1>7. QED
  BY <1>1, <1>2, <1>3, <1>4, <1>5, <1>6 DEF Next, InCall

LEMMA NoneLeft ==
  ASSUME Base, [Next]_vars, unreplied = 0, Alone("playback")
  PROVE  unreplied' = 0
<1>1. CASE HandleStartPlayback
  <2>1. /\ Receive("playback")
        /\ unreplied' = unreplied \/ unreplied' = unreplied + Late(player, "reply")
    BY <1>1 DEF HandleStartPlayback
  <2>2. alive /\ Said(toDevice, "playback")
    BY <2>1, ReceiveTakes DEF Base, Ways, Alone, Onces
  <2>3. ~Busy("playback")
    BY <2>2, AtEach DEF Alone, Stage
  <2>4. Late(player, "reply") = 0
    BY <2>3 DEF Busy, Late
  <2>5. QED
    BY <2>1, <2>4
<1>2. CASE Server /\ ~HandleStartPlayback
  BY <1>2 DEF Server, HandleDownload, HandleGetDeviceInfo,
       HandleStartRecording, HandleStopPlayback, QuitPlayer, JoinPlayer, HandleStopRecording,
       QuitRecorder, JoinRecorder, Crash, device, playback
<1>3. CASE Player
  <2>1. unreplied' = unreplied \/ OldPlayerReplies
    BY <1>3 DEF Player, PlayerPrepares, PlayerRuns, PlayerWrites, PlayerQuits, OnMarkerReached,
         MarkerReleases, MarkerQuits, MarkerReplies, PlayerStep, Crash, playback
  <2>2. OldPlayerReplies => unreplied > 0
    BY DEF OldPlayerReplies
  <2>3. QED
    BY <2>1, <2>2
<1>4. CASE Recorder
  BY <1>4 DEF Recorder, OldRecorderEnds, RecorderPrepares, RecorderRuns, RecorderReplies,
       RecorderEnds, RecorderQuits, RecorderStep, Crash, playback
<1>5. CASE Disconnect
  BY <1>5 DEF Disconnect, Crash, playback
<1>6. CASE ThreadLoop
  BY <1>6, LooperKeeps DEF ThreadLoop, Notify, device, playback
<1>7. QED
  BY <1>1, <1>2, <1>3, <1>4, <1>5, <1>6, ClientKeeps DEF Next, Device, vars, device, playback

LEMMA TasksStep ==
  ASSUME Base, Tasks, [Next]_vars
  PROVE  Tasks'
<1>1. \A h : NeverStopped(h)' => NeverStopped(h)
  BY UseKept DEF NeverStopped, Does
<1>2. NeverStopped("playback")' => unreplied' = 0
  BY <1>1, NoneLeft DEF Media, Tasks
<1>3. ASSUME NEW h \in Media, NeverStopped(h)'
      PROVE  Alone(h)' /\ \A s \in Stage : At(s, h)' => mActive'[h]
  <2>1. /\ h \in Tracked /\ Alone(h) /\ (\A s \in Stage : At(s, h) => mActive[h])
        /\ h = "playback" => unreplied = 0
    BY <1>1, <1>3 DEF Tracked, Tasks
  <2>2. Moves(h)
    BY <2>1, AllMove
  <2>3. ~UNCHANGED vars \/ ~Opens(h)
    BY DEF vars, client, Opens
  <2>4. Opens(h) => ~mActive[h] /\ mActive'[h]
    BY <2>3, OpensActive
  <2>5. Alone(h)'
    BY <2>1, <2>2, <2>4, MovesAlone
  <2>6. ASSUME NEW s \in Stage, At(s, h)', ~mActive'[h]
        PROVE  FALSE
    <3>1. ~Opens(h)
      BY <2>4, <2>6
    <3>2. mActive[h]
      BY <2>1, <2>2, <2>6, <3>1 DEF Moves, Stays, Hops
    <3>3. Notify /\ At("notify", h)
      BY <1>1, <1>3, <2>6, <3>2, OtherStopped, ActiveKept, AtEach
    <3>4. QED
      BY <2>1, <2>2, <2>6, <3>1, <3>3, NotifyEnds DEF Notify, NextRound
  <2>7. QED
    BY <2>5, <2>6
<1>4. QED
  BY <1>2, <1>3 DEF Tasks

TasksInv == Base /\ RecorderSteps /\ Tasks

\* The device is told to start a playback or recording only when the one
\* before is over, in a session that never stops one of the kind: the command and
\* all that comes of it is in one place at most between startPlayback or startRecording
\* and the notification in handlePacket, and mActive is set all the while.
THEOREM StartsDoNotOverlap == Spec => []OneAtATime
<1>1. Init => TasksInv
  <2>1. ASSUME Init
        PROVE  Tasks /\ RecorderSteps
    BY <2>1, InitNowhere DEF Tasks, Tracked, RecorderSteps, Init, DeviceInit
  <2>2. QED
    BY <2>1, InitTypes DEF TasksInv
<1>2. TasksInv /\ [Next]_vars => TasksInv'
  BY BaseStep, RecorderStepsStep, TasksStep DEF TasksInv
<1>3. TasksInv => OneAtATime
  <2>1. ASSUME TasksInv, NEW h \in Media, NeverStopped(h),
               alive, toDevice # <<>>, Head(toDevice).cmd = h
        PROVE  Over(h)
    <3>1. Said(toDevice, h)
      BY <2>1, TailSaid DEF TasksInv, Base, Ways
    <3>2. At("sent", h) /\ Alone(h)
      BY <2>1, <3>1 DEF At, TasksInv, Tasks
    <3>3. ~Busy(h)
      BY <2>1, <3>2, AtEach DEF Alone, Stage
    <3>4. QED
      BY <2>1, <3>3 DEF Busy, Over, Media, TasksInv, RecorderSteps
  <2>2. QED
    BY <2>1 DEF OneAtATime
<1>4. QED
  BY <1>1, <1>2, <1>3, PTL DEF Spec

(***************************************************************************)
(* Downloads.                                                              *)
(***************************************************************************)

\* The looper thread has come to its end, or to a step that it never makes.
Stuck ==
  \/ lpc = "exited"
  \/ lpc = "drain" /\ pipeBlocks
  \/ lpc = "notify" /\ mStateLock[packet.cmd]

\* The data that the download made last is for.
Arrived == alive => mDownloadId - 1 \in mDataMap

\* While a download is anywhere its call goes on, not notified yet ...
Underway ==
  ~slow /\ ~Stuck =>
    /\ Alone("download")
    /\ \A s \in Stage : At(s, "download") =>
         /\ call = "download" /\ cpc \in {"send", "wake", "await"}
         /\ mClientWait["download"] = 0
    /\ alive => \A i \in DOMAIN toDevice :
         toDevice[i].cmd = "download" => toDevice[i].id = mDownloadId - 1
    /\ At("reply", "download") \/ At("notify", "download") => Arrived

\* ... and it is notified of its own reply only.
Registered ==
  ~slow =>
    /\ mClientWait["download"] \in {0, 1}
    /\ mClientWait["download"] = 1 => call = "download" /\ cpc \in {"wake", "await"} /\ Arrived
    /\ call = "download" /\ cpc = "answered" => Arrived
    /\ alive => mBufferList \subseteq mDataMap

LEMMA StuckStays ==
  ASSUME Base, [Next]_vars, Stuck
  PROVE  Stuck'
<1> USE DEF Stuck, pipeBlocks
<1>0. use' = use
  BY UseKept
<1>1. CASE Call
  BY <1>0, <1>1 DEF Call, InitCall, Enter, Release, looper, state, Base, NotYet
<1>2. CASE InCall
  <2>1. ASSUME NEW id \in Id, LockStart(id)
        PROVE  UNCHANGED <<lpc, packet>> /\ \A h \in Handler : mStateLock[h] => mStateLock'[h]
    BY <2>1 DEF LockStart, Locked, Base, ClientInv, Handlers, looper
  <2>2. CASE \E id \in Id : LockStart(id)
    BY <1>0, <2>1, <2>2 DEF Base, Ways
  <2>3. CASE ~\E id \in Id : LockStart(id)
    BY <1>0, <1>2, <2>3 DEF InCall, InitAwait, LockDownload, LockGetDeviceInfo, LockWait, LockStop,
         Locked, SendMessage, Wake, Await, Answered, Join, looper, state
  <2>4. QED
    BY <2>2, <2>3
<1>3. CASE ThreadLoop
  BY <1>0, <1>3 DEF ThreadLoop, Connect, Poll, Drain, HandleMessage, HandleExit, HandlePacket, Notify,
       LooperStep
<1>4. CASE Host \/ UNCHANGED vars
  BY <1>0, <1>4 DEF Host, vars, looper, state
<1>5. QED
  BY <1>1, <1>2, <1>3, <1>4 DEF Next

\* What the client does while it downloads.
LEMMA DownloadClient ==
  ASSUME Base, [Next]_vars
  PROVE  /\ call = "download" /\ cpc \in {"send", "wake", "await"} =>
              \/ call' = "download" /\ cpc' \in {"send", "wake", "await"} /\ (cpc' = "send" => cpc = "send")
              \/ Await
         /\ mDownloadId' = mDownloadId \/ LockDownload
         /\ \/ mBufferList' = mBufferList
            \/ /\ call = "download" /\ cpc = "answered" /\ mDownloadId' = mDownloadId
               /\ mBufferList' = mBufferList \cup {mDownloadId - 1}
         /\ call' = "download" /\ cpc' = "answered" =>
              \/ call = "download" /\ cpc = "answered" /\ mDownloadId' = mDownloadId
              \/ Await
<1>1. CASE Call
  BY <1>1 DEF Call, InitCall, Enter, Release, GoTo
<1>2. CASE InitAwait \/ LockGetDeviceInfo \/ LockWait \/ LockStop \/ \E id \in Id : LockStart(id)
  BY <1>2 DEF InitAwait, LockGetDeviceInfo, LockWait, LockStop, LockStart, Locked, GoTo, Return
<1>3. CASE LockDownload
  BY <1>3 DEF LockDownload, Locked, GoTo
<1>4. CASE SendMessage \/ Wake \/ Join
  BY <1>4 DEF SendMessage, Wake, Join, GoTo, Return
<1>5. CASE Answered
  BY <1>5 DEF Answered, Return
<1>6. CASE Await
  BY <1>6 DEF Await
<1>7. CASE UNCHANGED client
  BY <1>7 DEF client
<1>8. CASE ThreadLoop
  BY <1>7, <1>8, LooperKeeps DEF ThreadLoop, Notify
<1>9. CASE Host \/ UNCHANGED vars
  BY <1>7, <1>9 DEF Host, vars
<1>10. QED
  BY <1>1, <1>2, <1>3, <1>4, <1>5, <1>6, <1>8, <1>9 DEF Next, InCall

\* When the semaphore of the downloads changes.
LEMMA DownloadPosts ==
  ASSUME Base, [Next]_vars
  PROVE  \/ mClientWait'["download"] = mClientWait["download"]
         \/ /\ Await /\ call = "download" /\ mClientWait["download"] > 0
            /\ mClientWait'["download"] = mClientWait["download"] - 1
         \/ /\ Notify /\ packet.cmd = "download"
            /\ mClientWait'["download"] = mClientWait["download"] + 1
<1>0. /\ mClientWait \in [Handler \cup {"temp"} -> Nat] /\ "download" \in Handler
      /\ Waiter = "download" => call = "download" \/ cpc # "await"
  BY DEF Base, Ways, Handler, ClientInv, InWhichCall, Waiter, CallsMade, Media
<1>1. CASE Call
  BY <1>1 DEF Call, InitCall, Enter, Release, answers
<1>2. CASE InCall /\ ~Await
  BY <1>0, <1>2 DEF InCall, InitAwait, LockDownload, LockGetDeviceInfo, LockStart, LockWait, LockStop,
       SendMessage, Wake, Answered, Join, answers
<1>3. CASE Await
  <2>1. Waiter \in Handler \cup {"temp"}
    BY DEF Base, ClientInv, InWhichCall, Waiter
  <2>2. /\ cpc = "await"
        /\ \/ mClientWait[Waiter] > 0 /\ mClientWait' = [mClientWait EXCEPT ![Waiter] = @ - 1]
           \/ UNCHANGED mClientWait
    BY <1>3 DEF Await
  <2>3. QED
    BY <1>0, <1>3, <2>1, <2>2
<1>4. CASE Connect \/ Poll \/ Drain \/ HandlePacket
  BY <1>4 DEF Connect, Poll, Drain, HandlePacket, answers
<1>5. CASE HandleMessage
  <2>1. /\ q # <<>>
        /\ mClientWait' = IF Head(q).what \in {"download", "info"} THEN mClientWait ELSE Posted(Head(q).to)
    BY <1>5 DEF HandleMessage
  <2>2. Head(q) \in Message
    BY <2>1, TailAt DEF Base, Ways
  <2>3. Head(q).what \notin {"download", "info"} => Head(q).to # "download"
    BY <2>2 DEF Message
  <2>4. QED
    BY <1>0, <2>1, <2>3 DEF Posted
<1>6. CASE HandleExit
  BY <1>0, <1>6 DEF HandleExit, Posted
<1>7. CASE Notify
  <2>1. \/ UNCHANGED mClientWait
        \/ mClientWait' = Posted(packet.cmd)
    BY <1>7 DEF Notify, answers
  <2>2. packet.cmd \in Handler
    BY <1>7 DEF Notify, Base, Ways
  <2>3. packet.cmd # "gone"
    BY <2>2 DEF Handler
  <2>4. QED
    BY <1>0, <1>7, <2>1, <2>2, <2>3 DEF Posted
<1>8. CASE Host \/ UNCHANGED vars
  BY <1>8 DEF Host, vars, answers
<1>9. QED
  BY <1>1, <1>2, <1>3, <1>4, <1>5, <1>6, <1>7, <1>8 DEF Next, ThreadLoop, InCall

LEMMA AliveBefore ==
  ASSUME [Next]_vars, alive'
  PROVE  alive
<1>1. CASE Server
  BY <1>1 DEF Server, HandleDownload, HandleGetDeviceInfo, HandleStartPlayback,
       HandleStartRecording, HandleStopPlayback, QuitPlayer, JoinPlayer, HandleStopRecording,
       QuitRecorder, JoinRecorder, Receive
<1>2. CASE Player
  BY <1>2 DEF Player, PlayerPrepares, PlayerRuns, PlayerWrites, PlayerQuits, OnMarkerReached,
       MarkerReleases, MarkerQuits, MarkerReplies, OldPlayerReplies, PlayerStep
<1>3. CASE Recorder
  BY <1>3 DEF Recorder, OldRecorderEnds, RecorderPrepares, RecorderRuns, RecorderReplies,
       RecorderEnds, RecorderQuits, RecorderStep
<1>4. CASE Disconnect
  BY <1>4 DEF Disconnect
<1>5. CASE ThreadLoop
  BY <1>5, LooperKeeps DEF ThreadLoop, Notify, device
<1>6. QED
  BY <1>1, <1>2, <1>3, <1>4, <1>5, ClientKeeps DEF Next, Device, vars, device

\* The data stays as long as the device does, and only its download is answered.
LEMMA DataStays ==
  ASSUME Base, [Next]_vars
  PROVE  /\ alive' => mDataMap \subseteq mDataMap'
         /\ Said(toHost', "download") /\ ~Said(toHost, "download") => HandleDownload
<1>0. /\ toHost \in Seq(AReply)
      /\ \A c \in Commands, ok \in BOOLEAN :
           Reply(c, ok) /\ c # "download" =>
             (Said(toHost', "download") => Said(toHost, "download"))
  <2>1. ASSUME NEW c \in Commands, NEW ok \in BOOLEAN, Reply(c, ok), c # "download",
               Said(toHost', "download")
        PROVE  Said(toHost, "download")
    <3>1. [cmd |-> c, ok |-> ok] \in AReply
      BY DEF AReply
    <3>2. QED
      BY <2>1, <3>1, AppendSaid DEF Base, Ways, Reply
  <2>2. QED
    BY <2>1 DEF Base, Ways
<1>1. {"info", "playback", "recording", "stopPlayback", "stopRecording"} \subseteq Commands
  BY DEF Commands, Handler
<1>2. CASE HandleDownload
  BY <1>2 DEF HandleDownload
<1>3. CASE Server /\ ~HandleDownload
  BY <1>0, <1>1, <1>3 DEF Server, HandleGetDeviceInfo, HandleStartPlayback,
       HandleStartRecording, HandleStopPlayback, QuitPlayer, JoinPlayer, HandleStopRecording,
       QuitRecorder, JoinRecorder, Crash, device
<1>4. CASE Player
  BY <1>0, <1>1, <1>4 DEF Player, PlayerPrepares, PlayerRuns, PlayerWrites, PlayerQuits, OnMarkerReached,
       MarkerReleases, MarkerQuits, MarkerReplies, OldPlayerReplies, PlayerStep, Crash
<1>5. CASE Recorder
  BY <1>0, <1>1, <1>5 DEF Recorder, OldRecorderEnds, RecorderPrepares, RecorderRuns, RecorderReplies,
       RecorderEnds, RecorderQuits, RecorderStep, Crash
<1>6. CASE Disconnect
  BY <1>6 DEF Disconnect, Crash
<1>7. CASE ThreadLoop
  <2>1. UNCHANGED device
    BY <1>7, LooperKeeps DEF ThreadLoop, Notify
  <2>2. toHost' = toHost \/ (toHost # <<>> /\ toHost' = Tail(toHost))
    BY <1>7 DEF ThreadLoop, Connect, Poll, Drain, HandleMessage, HandleExit, HandlePacket, Notify, socket
  <2>3. QED
    BY <1>0, <2>1, <2>2, TailSaid DEF device
<1>8. QED
  BY <1>2, <1>3, <1>4, <1>5, <1>6, <1>7, ClientKeeps DEF Next, Device, vars, device, socket

\* Answers are not slow and a wait runs into its time-out: no download is
\* anywhere, or none will be answered.
LEMMA DownloadTimedOut ==
  ASSUME ~slow, ~Stuck, TimeOut, cpc = "await"
  PROVE  \A s \in Stage : ~At(s, "download")
<1>1. LooperIdle /\ DeviceQuiet
  BY DEF TimeOut, LooperStuck, Stuck
<1>2. /\ mMsgQueue = <<>> /\ q = <<>> /\ toHost = <<>> /\ lpc # "notify"
      /\ ~alive \/ toDevice = <<>>
  BY <1>1 DEF LooperIdle, DeviceQuiet
<1>3. QED
  BY <1>2, EmptyAsked, EmptySaid DEF At, Busy

\* A download on its way to the device asks for the data of the last download.
LEMMA SentIds ==
  ASSUME Base, [Next]_vars, alive', mDownloadId' = mDownloadId,
         Asked(q, "download") => call = "download" /\ cpc \notin {"ready", "lock"},
         \A i \in DOMAIN toDevice : toDevice[i].cmd = "download" => toDevice[i].id = mDownloadId - 1
  PROVE  \A i \in DOMAIN toDevice' :
           toDevice'[i].cmd = "download" => toDevice'[i].id = mDownloadId' - 1
<1> DEFINE n == mDownloadId - 1
<1>0. toDevice \in Seq(Command) /\ q \in Seq(Message)
  BY DEF Base, Ways
<1> HIDE DEF n
<1>1. CASE HandleMessage
  <2> DEFINE m == [cmd |-> Head(q).what,
                   id |-> IF Head(q).to \in Handler THEN mParamId[Head(q).to] ELSE 0]
  <2>1. q # <<>> /\ (UNCHANGED toDevice \/ toDevice' = Append(toDevice, m))
    BY <1>1 DEF HandleMessage
  <2>2. Head(q) \in Message /\ (Head(q).what = "download" => Asked(q, "download"))
    BY <1>0, <2>1, TailAt, TailAsked
  <2>3. Head(q).what = "download" => mParamId["download"] = n
    BY <2>2 DEF Base, ClientInv, Handlers, n
  <2>4. m.cmd = "download" => m.id = n
    BY <2>2, <2>3 DEF Message, Handler
  <2>5. m \in Command
    <3>1. mParamId \in [Handler -> Nat] /\ Head(q).what \in Commands \cup {"exit"}
      BY <2>2 DEF Base, ClientInv, Handlers, Message
    <3>2. Head(q).what # "exit"
      BY <1>1 DEF HandleMessage
    <3>3. (IF Head(q).to \in Handler THEN mParamId[Head(q).to] ELSE 0) \in Nat
      BY <3>1
    <3>4. QED
      BY <3>1, <3>2, <3>3 DEF Command
  <2> HIDE DEF m
  <2>6. CASE toDevice' = Append(toDevice, m)
    <3> DEFINE a == Append(toDevice, m)
    <3>1. /\ \A i \in DOMAIN toDevice : a[i] = toDevice[i]
          /\ \A i \in DOMAIN a : i \in DOMAIN toDevice \/ i = Len(toDevice) + 1
          /\ a[Len(toDevice) + 1] = m
      BY <1>0, <2>5, AppendAt
    <3> HIDE DEF a
    <3>2. \A i \in DOMAIN a : a[i].cmd = "download" => a[i].id = n
      BY <2>4, <3>1 DEF n
    <3>3. QED
      BY <2>6, <3>2 DEF a, n
  <2>7. QED
    BY <2>1, <2>6
<1>2. ASSUME toDevice # <<>>, toDevice' = Tail(toDevice)
      PROVE  \A i \in DOMAIN toDevice' : toDevice'[i].cmd = "download" => toDevice'[i].id = n
  <2>1. \A i \in DOMAIN Tail(toDevice) : i + 1 \in DOMAIN toDevice /\ Tail(toDevice)[i] = toDevice[i + 1]
    BY <1>0, <1>2, TailAt
  <2>2. QED
    BY <1>2, <2>1 DEF n
<1>3. CASE Device \/ Disconnect
  <2>1. UNCHANGED toDevice \/ (toDevice # <<>> /\ toDevice' = Tail(toDevice))
    <3>1. CASE Server
      BY <3>1 DEF Server, HandleDownload, HandleGetDeviceInfo, HandleStartPlayback,
           HandleStartRecording, HandleStopPlayback, QuitPlayer, JoinPlayer, HandleStopRecording,
           QuitRecorder, JoinRecorder, Receive
    <3>2. CASE Player
      BY <3>2 DEF Player, PlayerPrepares, PlayerRuns, PlayerWrites, PlayerQuits, OnMarkerReached,
           MarkerReleases, MarkerQuits, MarkerReplies, OldPlayerReplies, PlayerStep
    <3>3. CASE Recorder
      BY <3>3 DEF Recorder, OldRecorderEnds, RecorderPrepares, RecorderRuns, RecorderReplies,
           RecorderEnds, RecorderQuits, RecorderStep
    <3>4. QED
      BY <1>3, <3>1, <3>2, <3>3 DEF Device, Disconnect
  <2>2. QED
    BY <1>2, <2>1 DEF n
<1>4. CASE ThreadLoop /\ ~HandleMessage
  BY <1>4 DEF ThreadLoop, Connect, Poll, Drain, HandleExit, HandlePacket, Notify, socket
<1>5. QED
  BY <1>1, <1>3, <1>4, ClientKeeps DEF Next, vars, socket, n

LEMMA DownloadOpens ==
  ASSUME Base, [Next]_vars, Opens("download")
  PROVE  call' = "download" /\ cpc' = "send" /\ ~Await /\ ~Notify
BY DEF Opens, Base, ClientInv, InWhichCall, Media, Await, Notify, client

LEMMA UnderwayStep ==
  ASSUME Base, Underway, Registered, [Next]_vars
  PROVE  Underway'
<1>1. SUFFICES ASSUME ~slow', ~Stuck'
               PROVE  /\ Alone("download")'
                      /\ \A s \in Stage : At(s, "download")' =>
                           /\ call' = "download" /\ cpc' \in {"send", "wake", "await"}
                           /\ mClientWait'["download"] = 0
                      /\ alive' => \A i \in DOMAIN toDevice' :
                           toDevice'[i].cmd = "download" => toDevice'[i].id = mDownloadId' - 1
                      /\ At("reply", "download")' \/ At("notify", "download")' => Arrived'
  BY DEF Underway
<1>2. ~slow /\ ~Stuck
  BY <1>1, UseKept, StuckStays DEF slow
<1>3. /\ Alone("download")
      /\ \A s \in Stage : At(s, "download") =>
           call = "download" /\ cpc \in {"send", "wake", "await"} /\ mClientWait["download"] = 0
  BY <1>2 DEF Underway
<1>4. Moves("download")
  BY <1>3, AllMove DEF Tracked
<1>5. Opens("download") => \A s \in Stage : ~At(s, "download")
  BY <1>3 DEF Opens
<1>6. Alone("download")'
  BY <1>3, <1>4, <1>5, MovesAlone
<1>7. ASSUME NEW s \in Stage, At(s, "download")', ~Opens("download")
      PROVE  /\ call = "download" /\ cpc \in {"send", "wake", "await"}
             /\ call' = "download" /\ cpc' \in {"send", "wake", "await"}
             /\ mClientWait'["download"] = 0
             /\ mDownloadId' = mDownloadId
  <2>1. PICK t \in Stage : At(t, "download")
    BY <1>4, <1>7 DEF Moves, Stays, Hops
  <2>2. call = "download" /\ cpc \in {"send", "wake", "await"} /\ mClientWait["download"] = 0
    BY <1>3, <2>1
  <2>3. ~Await
    <3>1. ASSUME Await
          PROVE  TimeOut /\ cpc = "await"
      <4>1. cpc = "await" /\ (mClientWait[Waiter] > 0 \/ TimeOut)
        BY <3>1 DEF Await
      <4>2. Waiter = "download"
        BY <2>2 DEF Waiter, Base, ClientInv, InWhichCall
      <4>3. QED
        BY <2>2, <4>1, <4>2
    <3>2. QED
      BY <1>2, <2>1, <3>1, DownloadTimedOut
  <2>4. call' = "download" /\ cpc' \in {"send", "wake", "await"}
    BY <2>2, <2>3, DownloadClient
  <2>5. mDownloadId' = mDownloadId
    <3>1. LockDownload => cpc = "lock"
      BY DEF LockDownload, Locked
    <3>2. QED
      BY <2>2, <3>1, DownloadClient
  <2>6. ~(Notify /\ packet.cmd = "download")
    <3>1. ASSUME Notify, packet.cmd = "download"
          PROVE  At("notify", "download") /\ lpc' # "notify"
      BY <3>1 DEF Notify, NextRound, At
    <3>2. QED
      BY <1>3, <1>4, <1>7, <3>1, NotifyEnds
  <2>7. mClientWait'["download"] = 0
    BY <2>2, <2>3, <2>6, DownloadPosts
  <2>8. QED
    BY <2>2, <2>4, <2>5, <2>7
<1>8. ASSUME NEW s \in Stage, At(s, "download")'
      PROVE  /\ call' = "download" /\ cpc' \in {"send", "wake", "await"}
             /\ mClientWait'["download"] = 0
  <2>1. CASE Opens("download")
    <3>1. call' = "download" /\ cpc' = "send" /\ ~Await /\ ~Notify
      BY <2>1, DownloadOpens
    <3>2. mClientWait'["download"] = mClientWait["download"]
      BY <3>1, DownloadPosts
    <3>3. mClientWait["download"] = 0
      BY <1>2, <2>1 DEF Registered, Opens
    <3>4. QED
      BY <3>1, <3>2, <3>3
  <2>2. CASE ~Opens("download")
    BY <1>7, <1>8, <2>2
  <2>3. QED
    BY <2>1, <2>2
<1>9. ASSUME alive'
      PROVE  \A i \in DOMAIN toDevice' :
               toDevice'[i].cmd = "download" => toDevice'[i].id = mDownloadId' - 1
  <2>1. CASE \A s \in Stage : ~At(s, "download")'
    BY <1>9, <2>1 DEF At, Stage, Said
  <2>2. ASSUME NEW s \in Stage, At(s, "download")', ~Opens("download")
        PROVE  \A i \in DOMAIN toDevice' :
                 toDevice'[i].cmd = "download" => toDevice'[i].id = mDownloadId' - 1
    <3>1. mDownloadId' = mDownloadId /\ call = "download" /\ cpc \in {"send", "wake", "await"}
      BY <1>7, <2>2
    <3>2. alive
      BY <1>9, AliveBefore
    <3>3. QED
      BY <1>2, <1>9, <3>1, <3>2, SentIds DEF Underway
  <2>3. CASE Opens("download")
    <3>1. \A s \in Stage : At(s, "download")' => s = "call"
      BY <1>5, <2>3 DEF Opens
    <3>2. ~Said(toDevice', "download")
      BY <1>9, <3>1 DEF At, Stage
    <3>3. QED
      BY <3>2 DEF Said
  <2>4. QED
    BY <2>1, <2>2, <2>3
<1>10. ASSUME At("reply", "download")' \/ At("notify", "download")'
       PROVE  Arrived'
  <2>1. PICK s \in {"reply", "notify"} : At(s, "download")'
    BY <1>10
  <2>2. s \in Stage
    BY DEF Stage
  <2>3. ~Opens("download")
    BY <1>5, <2>1, <2>2 DEF Opens
  <2>4. mDownloadId' = mDownloadId
    BY <1>7, <2>1, <2>2, <2>3
  <2>5. CASE At("reply", "download") \/ At("notify", "download")
    BY <1>2, <2>4, <2>5, DataStays, AliveBefore DEF Underway, Arrived
  <2>6. CASE ~(At("reply", "download") \/ At("notify", "download"))
    <3>1. s = "reply"
      BY <1>4, <2>1, <2>3, <2>6 DEF Moves, Stays, Hops, Ahead, Stage
    <3>2. HandleDownload
      BY <2>1, <2>6, <3>1, DataStays DEF At
    <3>3. /\ toDevice # <<>> /\ Head(toDevice).cmd = "download" /\ alive
          /\ mDataMap' = mDataMap \cup {Head(toDevice).id}
      BY <3>2 DEF HandleDownload, Receive
    <3>4. Head(toDevice).id = mDownloadId - 1
      <4>1. 1 \in DOMAIN toDevice /\ Head(toDevice) = toDevice[1]
        BY <3>3, TailAt DEF Base, Ways
      <4>2. QED
        BY <1>2, <3>3, <4>1 DEF Underway
    <3>5. QED
      BY <2>4, <3>3, <3>4 DEF Arrived
  <2>7. QED
    BY <2>5, <2>6
<1>11. QED
  BY <1>6, <1>8, <1>9, <1>10

LEMMA RegisteredStep ==
  ASSUME Base, Underway, Registered, [Next]_vars
  PROVE  Registered'
<1> DEFINE w == mClientWait["download"]
<1>1. SUFFICES ASSUME ~slow'
               PROVE  /\ w' \in {0, 1}
                      /\ w' = 1 => call' = "download" /\ cpc' \in {"wake", "await"} /\ Arrived'
                      /\ call' = "download" /\ cpc' = "answered" => Arrived'
                      /\ alive' => mBufferList' \subseteq mDataMap'
  BY DEF Registered
<1>2. ~slow
  BY <1>1, UseKept DEF slow
<1>3. /\ w \in {0, 1}
      /\ w = 1 => call = "download" /\ cpc \in {"wake", "await"} /\ Arrived
      /\ call = "download" /\ cpc = "answered" => Arrived
      /\ alive => mBufferList \subseteq mDataMap
  BY <1>2 DEF Registered
<1>4. alive' => alive /\ mDataMap \subseteq mDataMap'
  BY DataStays, AliveBefore
<1>5. Arrived /\ mDownloadId' = mDownloadId => Arrived'
  BY <1>4 DEF Arrived
<1>6. LockDownload => cpc = "lock"
  BY DEF LockDownload, Locked
(* The semaphore is raised for the reply to this download. *)
<1>7. ASSUME Notify, packet.cmd = "download"
      PROVE  /\ w = 0 /\ call' = "download" /\ cpc' \in {"wake", "await"} /\ Arrived'
  <2>1. At("notify", "download")
    BY <1>7 DEF Notify, At
  <2>2. ~Stuck
    BY <1>7 DEF Notify, Stuck
  <2>3. Alone("download") /\ call = "download" /\ cpc \in {"send", "wake", "await"} /\ w = 0 /\ Arrived
    BY <1>2, <2>1, <2>2 DEF Underway, Stage
  <2>4. cpc # "send"
    BY <2>1, <2>3, AtEach DEF Alone, Stage, Base, ClientInv, InWhichCall
  <2>5. UNCHANGED client
    BY <1>7 DEF Notify
  <2>6. QED
    BY <1>5, <2>3, <2>4, <2>5 DEF client
<1>8. ASSUME Await, call = "download"
      PROVE  \/ w = 1 /\ w' = 0 /\ Arrived'
             \/ w = 0 /\ w' = 0 /\ cpc' = "ready"
  <2>1. Waiter = "download"
    BY <1>8 DEF Waiter, Base, ClientInv, InWhichCall
  <2>2. /\ UNCHANGED mDownloadId
        /\ \/ w > 0
           \/ w = 0 /\ UNCHANGED mClientWait /\ cpc' = "ready"
    BY <1>8, <2>1 DEF Await, Return
  <2>3. CASE w = 1
    <3>1. mClientWait' = [mClientWait EXCEPT !["download"] = @ - 1]
      BY <1>8, <2>1, <2>3 DEF Await
    <3>2. w' = 0
      BY <2>3, <3>1 DEF Base, Ways, Handler
    <3>3. QED
      BY <1>3, <1>5, <2>2, <2>3, <3>2
  <2>4. CASE w = 0
    BY <2>2, <2>4
  <2>5. QED
    BY <1>3, <2>3, <2>4
<1>9. w' = w \/ (Await /\ call = "download" /\ w > 0) \/ (w' = w + 1 /\ Notify /\ packet.cmd = "download")
  BY DownloadPosts
<1>10. w' \in {0, 1}
  BY <1>3, <1>7, <1>8, <1>9
<1>11. ASSUME w' = 1
       PROVE  call' = "download" /\ cpc' \in {"wake", "await"} /\ Arrived'
  <2>1. CASE w = 1 /\ ~Await
    <3>1. call = "download" /\ cpc \in {"wake", "await"} /\ Arrived
      BY <1>3, <2>1
    <3>2. call' = "download" /\ cpc' \in {"wake", "await"} /\ mDownloadId' = mDownloadId
      BY <1>6, <2>1, <3>1, DownloadClient
    <3>3. QED
      BY <1>5, <3>1, <3>2
  <2>2. CASE w = 1 /\ Await
    BY <1>3, <1>8, <1>11, <2>2
  <2>3. CASE w = 0
    <3>1. Notify /\ packet.cmd = "download"
      BY <1>9, <1>11, <2>3
    <3>2. QED
      BY <1>7, <3>1
  <2>4. QED
    BY <1>3, <2>1, <2>2, <2>3
<1>12. ASSUME call' = "download", cpc' = "answered"
       PROVE  Arrived'
  <2>1. CASE call = "download" /\ cpc = "answered" /\ mDownloadId' = mDownloadId
    BY <1>3, <1>5, <2>1
  <2>2. CASE Await
    <3>1. call = "download"
      BY <1>12, <2>2 DEF Await
    <3>2. QED
      BY <1>8, <1>12, <2>2, <3>1
  <2>3. QED
    BY <1>12, <2>1, <2>2, DownloadClient
<1>13. alive' => mBufferList' \subseteq mDataMap'
  BY <1>3, <1>4, DownloadClient DEF Arrived
<1>14. QED
  BY <1>10, <1>11, <1>12, <1>13

DownloadInv == Base /\ Underway /\ Registered

\* Whatever the calls, data that downloadData has registered for playback is on
\* the device as long as answers come in time: a download's post ends the wait
\* of that download and no other, and it is posted for that download's reply.
THEOREM RegisteredDataIsThere == Spec => []RegisteredIsThere
<1>1. Init => DownloadInv
  <2>1. ASSUME Init
        PROVE  Underway /\ Registered
    <3>1. Alone("download") /\ \A s \in Stage : ~At(s, "download")
      BY <2>1, InitNowhere DEF Tracked
    <3>2. toDevice = <<>> /\ mClientWait["download"] = 0 /\ call = "none" /\ mBufferList = {}
      BY <2>1 DEF Init, DeviceInit, Handler
    <3>3. QED
      BY <3>1, <3>2 DEF Underway, Registered, Stage
  <2>2. QED
    BY <2>1, InitTypes DEF DownloadInv
<1>2. DownloadInv /\ [Next]_vars => DownloadInv'
  BY BaseStep, UnderwayStep, RegisteredStep DEF DownloadInv
<1>3. DownloadInv => RegisteredIsThere
  BY DEF DownloadInv, Registered, RegisteredIsThere
<1>4. QED
  BY <1>1, <1>2, <1>3, PTL DEF Spec

(***************************************************************************)
(* Waits for the end of a playback or recording.                           *)
(***************************************************************************)
StopOf(h) == IF h = "playback" THEN "stopPlayback" ELSE "stopRecording"

Stopping(h) == server \in (IF h = "playback" THEN {"quitPlayer", "joinPlayer"}
                                             ELSE {"quitRecorder", "joinRecorder"})

\* A start that no stop follows, or what became of it, so that a reply is due:
\* on the device and the way there, with the looper, anywhere.
OnDevice(h) ==
  \/ SaidAfter(toDevice, h, StopOf(h))
  \/ ~Said(toDevice, StopOf(h)) /\ ~Stopping(h) /\ Busy(h)
InHand(h) ==
  \/ AskedAfter(q, h, StopOf(h))
  \/ ~Asked(q, StopOf(h)) /\ OnDevice(h)
Due(h) ==
  \/ cpc = "send" /\ call = "start" /\ handler = h
  \/ AskedAfter(mMsgQueue, h, StopOf(h))
  \/ ~Asked(mMsgQueue, StopOf(h)) /\ InHand(h)
  \/ h = "playback" /\ unreplied > 0
  \/ Said(toHost, h)
  \/ lpc = "notify" /\ packet.cmd = h

ReplyDue == alive => \A h \in Media : mActive[h] => Due(h)

LEMMA TakesOther ==
  ASSUME NEW c, Receive(c), toDevice \in Seq(Command), NEW h, c # h, NEW d
  PROVE  /\ SaidAfter(toDevice, h, d) => SaidAfter(toDevice', h, d)
         /\ ~Said(toDevice, d) => ~Said(toDevice', d) /\ c # d
BY TailSaid, TailSaidAfter DEF Receive

LEMMA TakesIt ==
  ASSUME NEW h, Receive(h), toDevice \in Seq(Command), NEW d
  PROVE  /\ SaidAfter(toDevice, h, d) => SaidAfter(toDevice', h, d) \/ ~Said(toDevice', d)
         /\ ~Said(toDevice, d) => ~Said(toDevice', d)
BY TailSaid, TailSaidAfter DEF Receive

LEMMA Replied ==
  ASSUME NEW c \in Commands, NEW ok \in BOOLEAN, Reply(c, ok), toHost \in Seq(AReply), NEW h
  PROVE  Said(toHost', h) <=> Said(toHost, h) \/ c = h
<1>1. [cmd |-> c, ok |-> ok] \in AReply
  BY DEF AReply
<1>2. QED
  BY <1>1, AppendSaid DEF Reply

LEMMA DeviceDue ==
  ASSUME Base, NEW h \in Media, Device \/ Disconnect, alive'
  PROVE  /\ OnDevice(h) => OnDevice(h)' \/ Said(toHost', h)
         /\ Said(toHost, h) => Said(toHost', h)
<1> DEFINE Goal == /\ OnDevice(h) => OnDevice(h)' \/ Said(toHost', h)
                   /\ Said(toHost, h) => Said(toHost', h)
<1> USE DEF StopOf, Stopping
<1>0. toDevice \in Seq(Command) /\ toHost \in Seq(AReply) /\ h \in {"playback", "recording"}
  BY DEF Base, Ways, Media
<1>c. {"download", "info", "playback", "recording", "stopPlayback", "stopRecording"} \subseteq Commands
  BY DEF Commands, Handler
<1>1. CASE HandleDownload
  <2>1. /\ Receive("download") /\ Reply("download", TRUE) /\ UNCHANGED <<server, player, recorder>>
    BY <1>1 DEF HandleDownload, playback, recording
  <2>2. OnDevice(h) => OnDevice(h)'
    BY <1>0, <2>1, TakesOther DEF OnDevice, Busy
  <2>3. QED
    BY <1>0, <1>c, <2>1, <2>2, Replied
<1>2. CASE HandleGetDeviceInfo
  <2>1. /\ Receive("info") /\ Reply("info", TRUE) /\ UNCHANGED <<server, player, recorder>>
    BY <1>2 DEF HandleGetDeviceInfo, device, playback, recording
  <2>2. OnDevice(h) => OnDevice(h)'
    BY <1>0, <2>1, TakesOther DEF OnDevice, Busy
  <2>3. QED
    BY <1>0, <1>c, <2>1, <2>2, Replied
<1>3. CASE HandleStartPlayback
  <2>1. /\ Receive("playback") /\ UNCHANGED <<server, recorder>> /\ server = "read"
        /\ \/ player' = "fresh" /\ UNCHANGED toHost
           \/ Reply("playback", FALSE) /\ UNCHANGED player
    BY <1>3 DEF HandleStartPlayback, recording, Receive
  <2>2. CASE h = "playback"
    <3>1. CASE player' = "fresh" /\ UNCHANGED toHost
      BY <1>0, <2>1, <2>2, <3>1, TakesIt DEF OnDevice, Busy
    <3>2. CASE Reply("playback", FALSE)
      BY <1>0, <1>c, <2>2, <3>2, Replied
    <3>3. QED
      BY <2>1, <3>1, <3>2
  <2>3. CASE h = "recording"
    <3>1. OnDevice(h) => OnDevice(h)'
      BY <1>0, <2>1, <2>3, TakesOther DEF OnDevice, Busy
    <3>2. QED
      BY <1>0, <1>c, <2>1, <3>1, Replied
  <2>4. QED
    BY <1>0, <2>2, <2>3
<1>4. CASE HandleStartRecording
  <2>1. /\ Receive("recording") /\ UNCHANGED <<server, player, toHost>> /\ server = "read"
        /\ recorder' = "fresh"
    BY <1>4 DEF HandleStartRecording, playback, Receive
  <2>2. CASE h = "recording"
    BY <1>0, <2>1, <2>2, TakesIt DEF OnDevice, Busy
  <2>3. CASE h = "playback"
    BY <1>0, <2>1, <2>3, TakesOther DEF OnDevice, Busy
  <2>4. QED
    BY <1>0, <2>2, <2>3
<1>5. CASE HandleStopPlayback
  <2>1. Receive("stopPlayback") /\ server' = "quitPlayer" /\ UNCHANGED <<toHost, player, recorder>>
    BY <1>5 DEF HandleStopPlayback, Crash, playback, recording
  <2>2. QED
    BY <1>0, <2>1, TakesOther DEF OnDevice, Busy
<1>6. CASE HandleStopRecording
  <2>1. Receive("stopRecording") /\ server' = "quitRecorder" /\ UNCHANGED <<toHost, player, recorder>>
    BY <1>6 DEF HandleStopRecording, playback
  <2>2. QED
    BY <1>0, <2>1, TakesOther DEF OnDevice, Busy
<1>7. CASE QuitPlayer \/ JoinPlayer
  <2>1. /\ Reply("stopPlayback", TRUE) \/ UNCHANGED toHost
        /\ UNCHANGED <<toDevice, player, recorder>>
        /\ server \in {"quitPlayer", "joinPlayer"} /\ server' \in {"read", "joinPlayer"}
    BY <1>7 DEF QuitPlayer, JoinPlayer, Crash, playback, recording
  <2>2. OnDevice(h) => OnDevice(h)'
    BY <1>0, <2>1 DEF OnDevice, Busy
  <2>3. QED
    BY <1>0, <1>c, <2>1, <2>2, Replied
<1>8. CASE QuitRecorder \/ JoinRecorder
  <2>1. /\ Reply("stopRecording", TRUE) \/ UNCHANGED toHost
        /\ UNCHANGED <<toDevice, player, recorder>>
        /\ server \in {"quitRecorder", "joinRecorder"} /\ server' \in {"read", "joinRecorder"}
    BY <1>8 DEF QuitRecorder, JoinRecorder, Crash, playback, recording
  <2>2. OnDevice(h) => OnDevice(h)'
    BY <1>0, <2>1 DEF OnDevice, Busy
  <2>3. QED
    BY <1>0, <1>c, <2>1, <2>2, Replied
<1>9. CASE \/ PlayerPrepares \/ PlayerRuns \/ PlayerWrites \/ PlayerQuits
           \/ OnMarkerReached \/ MarkerReleases \/ MarkerQuits
  <2>1. /\ UNCHANGED <<toDevice, toHost, server, recorder>>
        /\ player' = "none" /\ player # "none" => server = "joinPlayer"
    BY <1>9 DEF PlayerPrepares, PlayerRuns, PlayerWrites, PlayerQuits, OnMarkerReached,
       MarkerReleases, MarkerQuits, PlayerStep, Crash, playback, recording
  <2>2. QED
    BY <1>0, <2>1 DEF OnDevice, Busy
<1>10. CASE MarkerReplies
  <2>1. Reply("playback", TRUE) /\ UNCHANGED <<toDevice, server, recorder>>
    BY <1>10 DEF MarkerReplies, PlayerStep, recording
  <2>2. h = "recording" => (OnDevice(h) => OnDevice(h)')
    BY <2>1 DEF OnDevice, Busy
  <2>3. QED
    BY <1>0, <1>c, <2>1, <2>2, Replied
<1>11. CASE OldPlayerReplies
  <2>1. Reply("playback", TRUE) /\ UNCHANGED <<toDevice, server, player, recorder>>
    BY <1>11 DEF OldPlayerReplies, recording
  <2>2. OnDevice(h) => OnDevice(h)'
    BY <2>1 DEF OnDevice, Busy
  <2>3. QED
    BY <1>0, <1>c, <2>1, <2>2, Replied
<1>12. CASE OldRecorderEnds \/ RecorderPrepares \/ RecorderRuns \/ RecorderEnds \/ RecorderQuits
  <2>1. /\ UNCHANGED <<toDevice, toHost, server, player>>
        /\ recorder \in {"fresh", "run", "reading"} => recorder' \in {"fresh", "run", "reading"}
    BY <1>12 DEF OldRecorderEnds, RecorderPrepares, RecorderRuns, RecorderEnds, RecorderQuits,
       RecorderStep, Crash, playback, recording
  <2>2. QED
    BY <1>0, <2>1 DEF OnDevice, Busy
<1>13. ASSUME NEW ok \in BOOLEAN, RecorderReplies(ok)
       PROVE  Goal
  <2>1. Reply("recording", ok) /\ UNCHANGED <<toDevice, server, player>>
    BY <1>13 DEF RecorderReplies, RecorderStep, playback
  <2>2. h = "playback" => (OnDevice(h) => OnDevice(h)')
    BY <2>1 DEF OnDevice, Busy
  <2>3. QED
    BY <1>0, <1>c, <2>1, <2>2, Replied
<1>14. CASE Disconnect
  BY <1>14 DEF Disconnect, Crash
<1>15. QED
  BY <1>1, <1>2, <1>3, <1>4, <1>5, <1>6, <1>7, <1>8, <1>9, <1>10, <1>11, <1>12, <1>13, <1>14
  DEF Device, Server, Player, Recorder

LEMMA OldReplyDue ==
  ASSUME Base, Device \/ Disconnect, unreplied > 0
  PROVE  unreplied' > 0 \/ Said(toHost', "playback")
<1>0. toHost \in Seq(AReply) /\ "playback" \in Commands /\ unreplied \in Nat
  BY DEF Base, Ways, Commands, Handler
<1>1. CASE HandleStartPlayback
  <2>1. unreplied' = unreplied \/ unreplied' = unreplied + Late(player, "reply")
    BY <1>1 DEF HandleStartPlayback
  <2>2. Late(player, "reply") \in Nat
    BY DEF Late
  <2>3. QED
    BY <1>0, <2>1, <2>2
<1>2. CASE Server /\ ~HandleStartPlayback
  BY <1>2 DEF Server, HandleDownload, HandleGetDeviceInfo,
       HandleStartRecording, HandleStopPlayback, QuitPlayer, JoinPlayer, HandleStopRecording,
       QuitRecorder, JoinRecorder, Crash, device, playback
<1>3. CASE Player
  <2>1. unreplied' = unreplied \/ OldPlayerReplies
    BY <1>3 DEF Player, PlayerPrepares, PlayerRuns, PlayerWrites, PlayerQuits, OnMarkerReached,
         MarkerReleases, MarkerQuits, MarkerReplies, PlayerStep, Crash, playback
  <2>2. OldPlayerReplies => Reply("playback", TRUE)
    BY DEF OldPlayerReplies
  <2>3. OldPlayerReplies => Said(toHost', "playback")
    BY <1>0, <2>2, Replied
  <2>4. QED
    BY <2>1, <2>3
<1>4. CASE Recorder
  BY <1>4 DEF Recorder, OldRecorderEnds, RecorderPrepares, RecorderRuns, RecorderReplies,
       RecorderEnds, RecorderQuits, RecorderStep, Crash, playback
<1>5. CASE Disconnect
  BY <1>5 DEF Disconnect, Crash, playback
<1>6. QED
  BY <1>1, <1>2, <1>3, <1>4, <1>5 DEF Device

LEMMA LooperDue ==
  ASSUME Base, NEW h \in Media, alive, ThreadLoop, Due(h)
  PROVE  Due(h)' \/ (Notify /\ packet.cmd = h)
<1> DEFINE d == StopOf(h)
<1>0. /\ mMsgQueue \in Seq(Message) /\ q \in Seq(Message)
      /\ toDevice \in Seq(Command) /\ toHost \in Seq(AReply)
      /\ h \in Handler /\ h \in Commands /\ h # d /\ h # "exit" /\ d # "exit"
  BY DEF Base, Ways, Media, Handler, Commands, StopOf
<1>1. UNCHANGED <<client, device>>
  BY LooperKeeps DEF ThreadLoop, Notify
<1>2. OnDevice(h) /\ UNCHANGED toDevice => OnDevice(h)'
  BY <1>1 DEF OnDevice, Stopping, Busy, device, playback, recording
<1> HIDE DEF d
<1>3. CASE Connect \/ Poll
  <2>1. UNCHANGED <<q, mMsgQueue, socket, packet>> /\ lpc # "notify"
    BY <1>3 DEF Connect, Poll, LooperStep, queue
  <2>2. InHand(h) => InHand(h)'
    BY <1>2, <2>1 DEF InHand, socket
  <2>3. QED
    BY <1>1, <2>1, <2>2 DEF Due, client, device, playback, socket
<1>4. CASE Drain
  <2>1. lpc = "drain" /\ q = <<>>
    BY <1>4 DEF Drain, LooperStep, Base, Ways
  <2>2. /\ UNCHANGED <<socket, packet>>
        /\ \/ UNCHANGED <<q, mMsgQueue>>
           \/ q' = mMsgQueue /\ mMsgQueue' = <<>>
    BY <1>4 DEF Drain
  <2>3. CASE UNCHANGED <<q, mMsgQueue>>
    <3>1. InHand(h) => InHand(h)'
      BY <1>2, <2>2, <2>3 DEF InHand, socket
    <3>2. QED
      BY <1>1, <2>1, <2>2, <2>3, <3>1 DEF Due, client, device, playback, socket
  <2>4. CASE q' = mMsgQueue /\ mMsgQueue' = <<>>
    <3>1. InHand(h) => OnDevice(h)
      BY <2>1 DEF InHand, AskedAfter
    <3>2. ~Asked(mMsgQueue', StopOf(h))
      BY <2>4, EmptyAsked
    <3>3. AskedAfter(mMsgQueue, h, StopOf(h)) => InHand(h)'
      BY <2>4 DEF InHand
    <3>4. ~Asked(mMsgQueue, StopOf(h)) /\ InHand(h) => InHand(h)'
      BY <1>2, <2>2, <2>4, <3>1 DEF InHand, socket
    <3>5. QED
      BY <1>1, <2>1, <2>2, <3>2, <3>3, <3>4 DEF Due, client, device, playback, socket
  <2>5. QED
    BY <2>2, <2>3, <2>4
<1>5. CASE HandleMessage
  <2> DEFINE m == [cmd |-> Head(q).what,
                   id |-> IF Head(q).to \in Handler THEN mParamId[Head(q).to] ELSE 0]
  <2>1. /\ q # <<>> /\ Head(q).what # "exit" /\ q' = Tail(q) /\ lpc = "handle"
        /\ UNCHANGED <<packet, mMsgQueue, toHost>>
        /\ toDevice' = Append(toDevice, m)
    BY <1>5 DEF HandleMessage, LooperStep, queue
  <2>2. m \in Command /\ m.cmd = Head(q).what
    <3>1. mParamId \in [Handler -> Nat] /\ Head(q) \in Message
      BY <1>0, <2>1, TailAt DEF Base, ClientInv, Handlers
    <3>2. Head(q).what \in Commands
      BY <2>1, <3>1 DEF Message
    <3>3. (IF Head(q).to \in Handler THEN mParamId[Head(q).to] ELSE 0) \in Nat
      BY <3>1
    <3>4. QED
      BY <3>2, <3>3 DEF Command
  <2> HIDE DEF m
  <2>3. ASSUME AskedAfter(q, h, d)
        PROVE  InHand(h)'
    <3>1. CASE AskedAfter(Tail(q), h, d)
      BY <2>1, <3>1 DEF InHand, d
    <3>2. CASE Head(q).what = h /\ ~Asked(Tail(q), d)
      <4>1. SaidAfter(toDevice', h, d)
        BY <1>0, <2>1, <2>2, <3>2, AppendSaidAfter
      <4>2. QED
        BY <2>1, <3>2, <4>1 DEF InHand, OnDevice, d
    <3>3. QED
      BY <1>0, <2>1, <2>3, <3>1, <3>2, TailAskedAfter
  <2>4. ASSUME ~Asked(q, d), OnDevice(h)
        PROVE  InHand(h)'
    <3>1. Head(q).what # d /\ ~Asked(q', d)
      BY <1>0, <2>1, <2>4, TailAsked
    <3>2. SaidAfter(toDevice, h, d) => SaidAfter(toDevice', h, d)
      BY <1>0, <2>1, <2>2, <3>1, AppendSaidAfter
    <3>3. ~Said(toDevice, d) => ~Said(toDevice', d)
      BY <1>0, <2>1, <2>2, <3>1, AppendSaid
    <3>4. OnDevice(h)'
      BY <1>1, <2>4, <3>2, <3>3 DEF OnDevice, Stopping, Busy, device, playback, recording, d
    <3>5. QED
      BY <3>1, <3>4 DEF InHand, d
  <2>5. InHand(h) => InHand(h)'
    BY <2>3, <2>4 DEF InHand, d
  <2>6. QED
    BY <1>1, <2>1, <2>5 DEF Due, client, device, playback
<1>6. CASE HandleExit
  <2>1. /\ q # <<>> /\ Head(q).what = "exit" /\ q' = Tail(q) /\ lpc = "handle"
        /\ UNCHANGED <<packet, mMsgQueue, socket>>
    BY <1>6 DEF HandleExit, LooperStep, queue
  <2>2. AskedAfter(q, h, d) => AskedAfter(q', h, d)
    BY <1>0, <2>1, TailAskedAfter
  <2>3. ~Asked(q, d) => ~Asked(q', d)
    BY <1>0, <2>1, TailAsked
  <2>4. InHand(h) => InHand(h)'
    BY <1>2, <2>1, <2>2, <2>3 DEF InHand, socket, d
  <2>5. QED
    BY <1>1, <2>1, <2>4 DEF Due, client, device, playback, socket
<1>7. CASE HandlePacket
  <2>1. /\ lpc = "callback" /\ UNCHANGED <<q, mMsgQueue, toDevice>>
        /\ \/ UNCHANGED <<toHost, packet>>
           \/ /\ toHost # <<>> /\ toHost' = Tail(toHost) /\ packet' = Head(toHost)
              /\ lpc' = IF packet'.cmd \in Handler THEN "notify" ELSE NextRound(mExitRequested)
    BY <1>7 DEF HandlePacket, LooperStep, queue
  <2>2. InHand(h) => InHand(h)'
    BY <1>2, <2>1 DEF InHand
  <2>3. Said(toHost, h) => Said(toHost', h) \/ (lpc' = "notify" /\ packet'.cmd = h)
    BY <1>0, <2>1, TailSaid
  <2>4. QED
    BY <1>1, <2>1, <2>2, <2>3 DEF Due, client, device, playback
<1>8. CASE Notify
  <2>1. lpc = "notify" /\ UNCHANGED <<q, mMsgQueue, socket>>
    BY <1>8 DEF Notify, queue
  <2>2. InHand(h) => InHand(h)'
    BY <1>2, <2>1 DEF InHand, socket
  <2>3. QED
    BY <1>1, <1>8, <2>1, <2>2 DEF Due, client, device, playback, socket
<1>9. QED
  BY <1>3, <1>4, <1>5, <1>6, <1>7, <1>8 DEF ThreadLoop

LEMMA ClientDue ==
  ASSUME Base, NEW h \in Media, mActive[h], Call \/ InCall, Due(h)
  PROVE  Due(h)'
<1> DEFINE d == StopOf(h)
<1>0. /\ mMsgQueue \in Seq(Message) /\ q \in Seq(Message) /\ h # d /\ h \in Handler
      /\ d \in {"stopPlayback", "stopRecording"} /\ h \in {"playback", "recording"}
  BY DEF Base, Ways, Media, Handler, StopOf
<1>1. UNCHANGED <<socket, device>>
  BY ClientKeeps
<1>2. OnDevice(h) => OnDevice(h)'
  BY <1>1 DEF OnDevice, Stopping, Busy, device, playback, recording, socket
<1>3. ASSUME UNCHANGED <<q, mMsgQueue, packet>>, lpc = "notify" => lpc' = "notify", cpc # "send"
      PROVE  Due(h)'
  <2>1. InHand(h) => InHand(h)'
    BY <1>2, <1>3 DEF InHand
  <2>2. QED
    BY <1>1, <1>3, <2>1 DEF Due, device, playback, socket
<1>4. CASE Call
  BY <1>3, <1>4 DEF Call, InitCall, Enter, Release, looper, queue, Base, NotYet
<1>5. CASE InCall /\ ~SendMessage /\ ~Await
  BY <1>3, <1>5 DEF InCall, InitAwait, LockDownload, LockGetDeviceInfo, LockStart, LockWait, LockStop,
       Locked, Wake, Answered, Join, looper, queue
<1>6. CASE Await
  <2>1. /\ UNCHANGED <<lpc, packet>> /\ cpc = "await"
        /\ mMsgQueue' \in {mMsgQueue, Abandon(mMsgQueue)} /\ q' \in {q, Abandon(q)}
    BY <1>6 DEF Await
  <2>2. /\ AskedAfter(mMsgQueue, h, d) => AskedAfter(mMsgQueue', h, d)
        /\ Asked(mMsgQueue', d) <=> Asked(mMsgQueue, d)
        /\ AskedAfter(q, h, d) => AskedAfter(q', h, d)
        /\ Asked(q', d) <=> Asked(q, d)
    BY <1>0, <2>1, AbandonKeeps
  <2>3. InHand(h) => InHand(h)'
    BY <1>2, <2>2 DEF InHand
  <2>4. QED
    BY <1>1, <2>1, <2>2, <2>3 DEF Due, device, playback, socket
<1>7. CASE SendMessage
  <2> DEFINE m == [what |-> What, to |-> Waiter]
  <2>1. cpc = "send" /\ mMsgQueue' = Append(mMsgQueue, m) /\ UNCHANGED looper
    BY <1>7 DEF SendMessage
  <2>2. m \in Message /\ (call = "start" => m.what = handler)
    BY <2>1, SentIsMessage DEF Base, ClientInv
  <2>3. m.what # d
    BY <1>0, <2>1, SentIsMessage DEF What, Base, ClientInv, Handlers, InWhichCall, Media, StopOf, Handler
  <2> HIDE DEF m
  <2>4. AskedAfter(mMsgQueue, h, d) => AskedAfter(mMsgQueue', h, d)
    BY <1>0, <2>1, <2>2, <2>3, AppendAskedAfter
  <2>5. ~Asked(mMsgQueue, d) => ~Asked(mMsgQueue', d)
    BY <1>0, <2>1, <2>2, <2>3, AppendAsked
  <2>6. call = "start" /\ handler = h => AskedAfter(mMsgQueue', h, d)
    BY <1>0, <2>1, <2>2, AppendAskedAfter
  <2>7. InHand(h) => InHand(h)'
    BY <1>2, <2>1 DEF InHand, looper
  <2>8. QED
    BY <1>1, <2>1, <2>4, <2>5, <2>6, <2>7 DEF Due, looper, device, playback, socket
<1>8. QED
  BY <1>4, <1>5, <1>6, <1>7

\* A start that goes on is in its call.
LEMMA StartedDue ==
  ASSUME Base, [Next]_vars, NEW h \in Media, ~mActive[h], mActive'[h]
  PROVE  Due(h)'
<1>0. /\ h \in Handler /\ mActive \in [Handler -> BOOLEAN]
  BY DEF Media, Handler, Base, ClientInv, Handlers
<1>1. CASE Call
  BY <1>1 DEF Call, InitCall, Enter, Release, state
<1>2. CASE InitAwait \/ SendMessage \/ Wake \/ Await \/ Answered \/ Join
  BY <1>2 DEF InitAwait, SendMessage, Wake, Await, Answered, Join, state
<1>3. CASE LockDownload \/ LockGetDeviceInfo \/ LockWait
  BY <1>3 DEF LockDownload, LockGetDeviceInfo, LockWait
<1>4. CASE LockStop
  BY <1>0, <1>4 DEF LockStop
<1>5. ASSUME NEW id \in Id, LockStart(id)
      PROVE  Due(h)'
  <2>1. /\ mActive' = [mActive EXCEPT ![handler] = TRUE] /\ cpc' = "send"
        /\ call = "start" /\ UNCHANGED <<call, handler>>
    BY <1>5 DEF LockStart, Locked, GoTo, Return
  <2>2. h = handler
    BY <1>0, <2>1
  <2>3. QED
    BY <2>1, <2>2 DEF Due
<1>6. CASE Notify
  BY <1>0, <1>6 DEF Notify
<1>7. CASE Host \/ UNCHANGED vars
  BY <1>7 DEF Host, vars, state
<1>8. QED
  BY <1>1, <1>2, <1>3, <1>4, <1>5, <1>6, <1>7, LooperKeeps DEF Next, InCall, ThreadLoop, state

LEMMA ReplyDueStep ==
  ASSUME Base, ReplyDue, [Next]_vars
  PROVE  ReplyDue'
<1>1. SUFFICES ASSUME alive', NEW h \in Media, mActive'[h]
               PROVE  Due(h)'
  BY DEF ReplyDue
<1>2. alive
  BY <1>1, AliveBefore
<1>3. CASE ~mActive[h]
  BY <1>1, <1>3, StartedDue
<1>4. CASE mActive[h]
  <2>1. Due(h)
    BY <1>2, <1>4 DEF ReplyDue
  <2>2. CASE ThreadLoop
    <3>1. ~(Notify /\ packet.cmd = h)
      BY <1>1 DEF Notify, Base, ClientInv, Handlers, Media, Handler
    <3>2. QED
      BY <1>2, <2>1, <2>2, <3>1, LooperDue
  <2>3. CASE Call \/ InCall
    BY <1>4, <2>1, <2>3, ClientDue
  <2>4. CASE Host /\ (Device \/ Disconnect)
    <3>1. UNCHANGED <<q, mMsgQueue, lpc, packet, client>>
      BY <2>4 DEF Host, queue
    <3>2. OnDevice(h) => OnDevice(h)' \/ Said(toHost', h)
      BY <1>1, <2>4, DeviceDue
    <3>3. Said(toHost, h) => Said(toHost', h)
      BY <1>1, <2>4, DeviceDue
    <3>4. h = "playback" /\ unreplied > 0 => unreplied' > 0 \/ Said(toHost', h)
      BY <2>4, OldReplyDue
    <3>5. InHand(h) => InHand(h)' \/ Said(toHost', h)
      BY <3>1, <3>2 DEF InHand
    <3>6. QED
      BY <2>1, <3>1, <3>3, <3>4, <3>5 DEF Due, client
  <2>5. CASE UNCHANGED vars
    BY <2>1, <2>5 DEF vars, Due, InHand, OnDevice, Stopping, Busy, looper, queue, socket, device,
         playback, recording, client
  <2>6. QED
    BY <2>2, <2>3, <2>4, <2>5 DEF Next
<1>5. QED
  BY <1>3, <1>4

\* The thread of a playback that nobody stops plays a track, and it is the one
\* that mPlaybackThread refers to until it has said that it quits.
Tracks ==
  alive =>
    /\ ~Stopping("playback") /\ player \in {"write", "loop"} => track = "playing"
    /\ player \in {"fresh", "run", "write", "loop", "marker", "quit"} => mPlaybackThread

LEMMA TracksStep ==
  ASSUME Tracks, [Next]_vars
  PROVE  Tracks'
<1> SUFFICES ASSUME alive'
             PROVE  Tracks'
  BY DEF Tracks
<1>0. alive
  BY AliveBefore
<1> USE <1>0 DEF Tracks, Stopping
<1>1. CASE HandleDownload \/ HandleGetDeviceInfo \/ HandleStartRecording \/ HandleStopRecording
           \/ QuitRecorder \/ JoinRecorder
  BY <1>1 DEF HandleDownload, HandleGetDeviceInfo, HandleStartRecording, HandleStopRecording,
       QuitRecorder, JoinRecorder, Receive, Crash, device, playback
<1>2. CASE HandleStartPlayback
  BY <1>2 DEF HandleStartPlayback
<1>3. CASE HandleStopPlayback
  BY <1>3 DEF HandleStopPlayback, Crash, playback
<1>4. CASE QuitPlayer \/ JoinPlayer
  BY <1>4 DEF QuitPlayer, JoinPlayer, Crash, playback
<1>5. CASE Player
  BY <1>5 DEF Player, PlayerPrepares, PlayerRuns, PlayerWrites, PlayerQuits, OnMarkerReached,
       MarkerReleases, MarkerQuits, MarkerReplies, OldPlayerReplies, PlayerStep, Crash
<1>6. CASE Recorder
  BY <1>6 DEF Recorder, OldRecorderEnds, RecorderPrepares, RecorderRuns, RecorderReplies,
       RecorderEnds, RecorderQuits, RecorderStep, Crash, playback
<1>7. CASE Disconnect
  BY <1>7 DEF Disconnect, Crash
<1>8. CASE ThreadLoop
  BY <1>8, LooperKeeps DEF ThreadLoop, Notify, device, playback
<1>9. QED
  BY <1>1, <1>2, <1>3, <1>4, <1>5, <1>6, <1>7, <1>8, ClientKeeps
  DEF Next, Device, Server, vars, device, playback

\* A wait has been notified, or will be by the reply.
Waiting ==
  cpc = "await" /\ call = "wait" =>
    mClientWait[handler] > 0 \/ (mActive[handler] /\ mNotifyOnReply[handler])

\* What the looper thread does to a handler: the notification of a reply ends
\* what is active ...
LEMMA LooperTells ==
  ASSUME Base, ThreadLoop, NEW h \in Handler
  PROVE  IF Notify /\ packet.cmd = h THEN ~mActive'[h] /\ ~mNotifyOnReply'[h]
                                     ELSE UNCHANGED <<mActive[h], mNotifyOnReply[h]>>
<1>0. mActive \in [Handler -> BOOLEAN] /\ mNotifyOnReply \in [Handler -> BOOLEAN]
  BY DEF Base, ClientInv, Handlers
<1>1. CASE Notify
  BY <1>0, <1>1 DEF Notify, Base, Ways
<1>2. CASE ~Notify
  BY <1>2, LooperKeeps DEF ThreadLoop, state
<1>3. QED
  BY <1>1, <1>2

\* ... and wakes who waits, as does a command that is sent.
LEMMA LooperPosts ==
  ASSUME Base, ThreadLoop, NEW h \in Handler
  PROVE  \/ /\ mClientWait'[h] = mClientWait[h]
            /\ Notify /\ packet.cmd = h => ~mNotifyOnReply[h]
         \/ /\ mClientWait'[h] = mClientWait[h] + 1
            /\ \/ HandleMessage /\ Head(q).what = h /\ Asked(q, h)
               \/ Notify /\ packet.cmd = h /\ mNotifyOnReply[h]
<1>0. /\ mClientWait \in [Handler \cup {"temp"} -> Nat] /\ h # "temp" /\ h # "gone"
      /\ h \notin {"stopPlayback", "stopRecording", "exit"}
  BY DEF Base, Ways, Handler
<1>1. CASE Connect \/ Poll \/ Drain \/ HandlePacket
  <2>1. mClientWait' = mClientWait /\ lpc # "notify"
    BY <1>1 DEF Connect, Poll, Drain, HandlePacket, answers, LooperStep
  <2>2. QED
    BY <2>1 DEF Notify
<1>2. CASE HandleMessage
  <2>1. /\ q # <<>> /\ lpc = "handle"
        /\ mClientWait' = IF Head(q).what \in {"download", "info"} THEN mClientWait ELSE Posted(Head(q).to)
    BY <1>2 DEF HandleMessage, LooperStep
  <2>2. Head(q) \in Message /\ (Head(q).what = h => Asked(q, h))
    BY <2>1, TailAt, TailAsked DEF Base, Ways
  <2>3. /\ Head(q).to = h => Head(q).what = h
        /\ Head(q).to \in Handler \cup {"temp", "gone"}
    BY <1>0, <2>2 DEF Message
  <2>4. mClientWait'[h] = mClientWait[h] \/ (Head(q).what = h /\ mClientWait'[h] = mClientWait[h] + 1)
    BY <1>0, <2>1, <2>3 DEF Posted
  <2>5. ~Notify
    BY <2>1 DEF Notify
  <2>6. QED
    BY <1>2, <2>2, <2>4, <2>5
<1>3. CASE HandleExit
  <2>1. mClientWait'[h] = mClientWait[h]
    BY <1>0, <1>3 DEF HandleExit, Posted
  <2>2. ~Notify
    BY <1>3 DEF Notify, HandleExit, LooperStep
  <2>3. QED
    BY <2>1, <2>2
<1>4. CASE Notify
  <2>1. packet.cmd \in Handler /\ packet.cmd # "gone"
    BY <1>4 DEF Notify, Base, Ways, Handler
  <2>2. mClientWait' = IF mNotifyOnReply[packet.cmd]
                         THEN [mClientWait EXCEPT ![packet.cmd] = @ + 1] ELSE mClientWait
    BY <1>4, <2>1 DEF Notify, Posted, answers
  <2>3. CASE packet.cmd = h /\ mNotifyOnReply[h]
    <3>1. mClientWait'[h] = mClientWait[h] + 1
      BY <1>0, <2>1, <2>2, <2>3
    <3>2. QED
      BY <1>4, <2>3, <3>1
  <2>4. CASE ~(packet.cmd = h /\ mNotifyOnReply[h])
    <3>1. mClientWait'[h] = mClientWait[h]
      BY <1>0, <2>1, <2>2, <2>4
    <3>2. QED
      BY <2>4, <3>1
  <2>5. QED
    BY <2>3, <2>4
<1>5. QED
  BY <1>1, <1>2, <1>3, <1>4 DEF ThreadLoop

LEMMA WaitingStep ==
  ASSUME Base, Waiting, [Next]_vars
  PROVE  Waiting'
<1> USE DEF Waiting
<1>0. call = "wait" => handler \in Handler
  BY DEF Base, ClientInv, InWhichCall, Media, Handler
<1>1. CASE Call
  BY <1>1 DEF Call, InitCall, Enter, Release, GoTo
<1>2. CASE InitAwait \/ LockDownload \/ LockGetDeviceInfo \/ LockStop \/ (\E id \in Id : LockStart(id))
  BY <1>2 DEF InitAwait, LockDownload, LockGetDeviceInfo, LockStop, LockStart, Locked, GoTo, Return
<1>3. CASE LockWait
  <2>1. /\ call = "wait" /\ UNCHANGED <<handler, mActive>>
        /\ \/ cpc' = "ready"
           \/ mActive[handler] /\ mNotifyOnReply' = [mNotifyOnReply EXCEPT ![handler] = TRUE]
    BY <1>3 DEF LockWait, Locked, Return
  <2>2. QED
    BY <1>0, <2>1 DEF Base, ClientInv, Handlers
<1>4. CASE SendMessage \/ Answered \/ Join
  BY <1>4 DEF SendMessage, Answered, Join, GoTo, Return
<1>5. CASE Wake
  BY <1>5 DEF Wake, GoTo, Base, ClientInv, InWhichCall
<1>6. CASE Await
  BY <1>6 DEF Await, GoTo, Return
<1>7. CASE ThreadLoop
  <2>1. SUFFICES ASSUME cpc' = "await", call' = "wait"
                 PROVE  mClientWait'[handler'] > 0 \/ (mActive'[handler'] /\ mNotifyOnReply'[handler'])
    OBVIOUS
  <2>2. UNCHANGED <<cpc, call, handler>>
    BY <1>7, LooperKeeps DEF ThreadLoop, Notify, client
  <2>3. handler \in Handler /\ mClientWait[handler] \in Nat
    BY <1>0, <2>1, <2>2 DEF Base, Ways
  <2>4. CASE mClientWait[handler] > 0
    <3>1. mClientWait'[handler] = mClientWait[handler] \/ mClientWait'[handler] = mClientWait[handler] + 1
      BY <1>7, <2>3, LooperPosts
    <3>2. mClientWait'[handler] > 0
      BY <2>3, <2>4, <3>1
    <3>3. QED
      BY <2>2, <3>2
  <2>5. CASE mActive[handler] /\ mNotifyOnReply[handler]
    <3>1. CASE Notify /\ packet.cmd = handler
      <4>1. mClientWait'[handler] = mClientWait[handler] + 1
        BY <1>7, <2>3, <2>5, <3>1, LooperPosts
      <4>2. mClientWait'[handler] > 0
        BY <2>3, <4>1
      <4>3. QED
        BY <2>2, <4>2
    <3>2. CASE ~(Notify /\ packet.cmd = handler)
      BY <1>7, <2>2, <2>3, <2>5, <3>2, LooperTells
    <3>3. QED
      BY <3>1, <3>2
  <2>6. QED
    BY <2>1, <2>2, <2>4, <2>5
<1>8. CASE Host \/ UNCHANGED vars
  BY <1>8 DEF Host, vars, state, answers, client
<1>9. QED
  BY <1>1, <1>2, <1>3, <1>4, <1>5, <1>6, <1>7, <1>8 DEF Next, InCall

\* The only time-out that a wait may run into while the device is there and
\* answers: the looper thread will never go on.
LEMMA WaitTimedOut ==
  ASSUME Base, ReplyDue, Tracks, Waiting, ~slow, alive, cpc = "await", call = "wait", TimeOut,
         ~(mClientWait[handler] > 0)
  PROVE  LooperStuck /\ lpc # "exited"
<1>1. mActive[handler] /\ handler \in Media
  BY DEF Waiting, Base, ClientInv, InWhichCall
<1>2. Due(handler)
  BY <1>1 DEF ReplyDue
<1>3. ASSUME LooperIdle, DeviceQuiet
      PROVE  FALSE
  <2>1. /\ mMsgQueue = <<>> /\ q = <<>> /\ toHost = <<>> /\ lpc # "notify"
        /\ toDevice = <<>> /\ server = "read" /\ unreplied = 0
        /\ player \in {"none", "loop"} /\ (player = "loop" => track # "playing")
        /\ recorder \in {"none", "loop"}
    BY <1>3 DEF LooperIdle, DeviceQuiet
  <2>2. ~Busy(handler)
    <3>1. ~Stopping("playback")
      BY <2>1 DEF Stopping
    <3>2. QED
      BY <2>1, <3>1 DEF Busy, Tracks
  <2>3. ~OnDevice(handler)
    BY <2>1, <2>2 DEF OnDevice, SaidAfter
  <2>4. ~InHand(handler)
    BY <2>1, <2>3 DEF InHand, AskedAfter
  <2>5. ~(unreplied > 0)
    BY <2>1
  <2>6. QED
    BY <1>2, <2>1, <2>4, <2>5, EmptySaid DEF Due, AskedAfter
<1>4. LooperStuck
  BY <1>3 DEF TimeOut
<1>5. lpc # "exited"
  BY DEF Base, Connected, Up, CallsMade
<1>6. QED
  BY <1>4, <1>5

\* A handler whose lock was kept: a stop made it possible that its reply comes now.
Kept == \E h \in Media : mStateLock[h] /\ ~NeverStopped(h)

\* The looper thread waits for a lock only if that has happened.
LEMMA StuckIsKept ==
  ASSUME Base, Tasks, lpc = "notify", mStateLock[packet.cmd]
  PROVE  Kept
<1>1. packet.cmd \in Media /\ ~mActive[packet.cmd]
  BY DEF Base, Ways, ClientInv, Handlers
<1>2. At("notify", packet.cmd)
  BY DEF At
<1>3. QED
  BY <1>1, <1>2 DEF Tasks, Stage, Kept

Waits == ~slow /\ ~pipeBlocks /\ alive /\ cpc = "ready" /\ call = "wait" => result \/ Kept

LEMMA WaitsStep ==
  ASSUME Base, Tasks, ReplyDue, Tracks, Waiting, Waits, [Next]_vars
  PROVE  Waits'
<1>1. SUFFICES ASSUME ~slow', ~pipeBlocks', alive', cpc' = "ready", call' = "wait"
               PROVE  result' \/ Kept'
  BY DEF Waits
<1>2. alive /\ ~slow /\ ~pipeBlocks
  BY <1>1, AliveBefore, UseKept DEF slow, pipeBlocks
<1>3. Kept => Kept'
  <2>0. \A h : NeverStopped(h)' <=> NeverStopped(h)
    BY UseKept DEF NeverStopped, Does
  <2>1. ASSUME NEW id \in Id, LockStart(id), NEW h \in Media, mStateLock[h]
        PROVE  mStateLock'[h]
    BY <2>1 DEF LockStart, Base, ClientInv, Handlers, Media, Handler
  <2>2. CASE \E id \in Id : LockStart(id)
    BY <2>0, <2>1, <2>2 DEF Kept
  <2>3. CASE ~\E id \in Id : LockStart(id)
    <3>1. UNCHANGED mStateLock
      <4>1. CASE Call
        BY <4>1 DEF Call, InitCall, Enter, Release, state
      <4>2. CASE InCall
        BY <2>3, <4>2 DEF InCall, InitAwait, LockDownload, LockGetDeviceInfo, LockWait, LockStop,
             SendMessage, Wake, Await, Answered, Join, state
      <4>3. CASE ThreadLoop
        BY <4>3, LooperKeeps DEF ThreadLoop, Notify, state
      <4>4. QED
        BY <4>1, <4>2, <4>3 DEF Next, Host, vars, state
    <3>2. QED
      BY <2>0, <3>1 DEF Kept
  <2>4. QED
    BY <2>2, <2>3
<1>4. CASE Call
  BY <1>1, <1>4 DEF Call, InitCall, Enter, Release, GoTo
<1>5. CASE InitAwait \/ LockDownload \/ LockGetDeviceInfo \/ LockStop \/ (\E id \in Id : LockStart(id))
  BY <1>1, <1>5 DEF InitAwait, LockDownload, LockGetDeviceInfo, LockStop, LockStart, Locked,
       Base, ClientInv, InWhichCall
<1>6. CASE LockWait
  BY <1>1, <1>6 DEF LockWait, Return, GoTo
<1>7. CASE SendMessage \/ Wake
  BY <1>1, <1>7 DEF SendMessage, Wake, GoTo
<1>8. CASE Await
  <2>1. call = "wait" /\ Waiter = handler /\ cpc = "await" /\ UNCHANGED state
    BY <1>1, <1>8 DEF Await, Waiter
  <2>2. mClientWait[handler] = 0 /\ TimeOut
    BY <1>1, <1>8, <2>1 DEF Await, GoTo
  <2>3. LooperStuck /\ lpc # "exited"
    BY <1>2, <2>1, <2>2, WaitTimedOut
  <2>4. Kept'
    BY <1>2, <1>3, <2>3, StuckIsKept DEF LooperStuck
  <2>5. QED
    BY <2>4
<1>9. CASE Answered
  BY <1>1, <1>9 DEF Answered, Return
<1>10. CASE Join
  BY <1>1, <1>10 DEF Join, Base, ClientInv, InWhichCall
<1>11. CASE UNCHANGED client
  BY <1>1, <1>2, <1>3, <1>11 DEF client, Waits
<1>12. CASE ThreadLoop
  BY <1>11, <1>12, LooperKeeps DEF ThreadLoop, Notify
<1>13. CASE Host \/ UNCHANGED vars
  BY <1>11, <1>13 DEF Host, vars
<1>14. QED
  BY <1>4, <1>5, <1>6, <1>7, <1>8, <1>9, <1>10, <1>12, <1>13 DEF Next, InCall

(***************************************************************************)
(* What a wait has seen when it returns, if none of the kind is stopped.   *)
(***************************************************************************)

\* A handler is posted once: for the command of the start that waits for it, or
\* for the reply, to the wait for it.
PostedOnce(h) ==
  /\ mClientWait[h] \in {0, 1}
  /\ mClientWait[h] = 1 =>
       /\ handler = h
       /\ \/ call = "start" /\ cpc \in {"wake", "await"}
          \/ call = "wait" /\ cpc = "await" /\ ~mActive[h]
  /\ mNotifyOnReply[h] => mActive[h]

\* While the looper thread goes on, what asks for a post is of the present call.
PostedFor(h) ==
  /\ mNotifyOnReply[h] => call = "wait" /\ handler = h /\ cpc = "await"
  /\ At("queue", h) \/ At("hand", h) =>
       call = "start" /\ handler = h /\ cpc \in {"wake", "await"} /\ mClientWait[h] = 0

\* A wait that returns true, or is about to, has seen the end.
SawEnd(h) ==
  call = "wait" /\ handler = h /\ (cpc = "answered" \/ (cpc = "ready" /\ result)) => ~mActive[h]

Told ==
  ~slow /\ alive =>
    \A h \in Media : NeverStopped(h) =>
      PostedOnce(h) /\ SawEnd(h) /\ (~Stuck => PostedFor(h))

\* No step of a looper thread that is stuck tells anybody anything.
LEMMA ToldIfStuck ==
  ASSUME Base, [Next]_vars, Stuck, NEW h \in Media, call = "stop" => handler # h,
         PostedOnce(h), SawEnd(h)
  PROVE  (PostedOnce(h) /\ SawEnd(h))'
<1> USE DEF PostedOnce, SawEnd
<1>1. /\ h \in Handler /\ h # "temp"
      /\ mActive \in [Handler -> BOOLEAN] /\ mNotifyOnReply \in [Handler -> BOOLEAN]
      /\ mClientWait \in [Handler \cup {"temp"} -> Nat]
      /\ call \in {"download", "info"} => handler = call
      /\ Waiter = h /\ cpc = "await" => handler = h
  BY DEF Base, ClientInv, InWhichCall, Handlers, Ways, Media, Handler, CallsMade, Waiter
<1>2. CASE Call
  BY <1>2 DEF Call, InitCall, Enter, Release, GoTo, state, answers
<1>3. CASE InitAwait \/ LockDownload \/ LockGetDeviceInfo \/ LockWait \/ LockStop
           \/ \E id \in Id : LockStart(id)
  <2>1. ~(mClientWait[h] = 1)
    BY <1>3 DEF InitAwait, LockDownload, LockGetDeviceInfo, LockStart, LockWait, LockStop, Locked
  <2>2. CASE InitAwait
    BY <2>1, <2>2 DEF InitAwait, state, answers, Base, ClientInv, InWhichCall
  <2>3. CASE LockDownload \/ LockGetDeviceInfo
    BY <1>1, <2>1, <2>3 DEF LockDownload, LockGetDeviceInfo, Locked, GoTo, Media
  <2>4. ASSUME NEW id \in Id, LockStart(id)
        PROVE  (PostedOnce(h) /\ SawEnd(h))'
    BY <1>1, <2>1, <2>4 DEF LockStart, Locked
  <2>5. CASE LockWait
    BY <1>1, <2>1, <2>5 DEF LockWait, Locked, GoTo, Return
  <2>6. CASE LockStop
    BY <1>1, <2>1, <2>6 DEF LockStop, Locked
  <2>7. QED
    BY <1>3, <2>2, <2>3, <2>4, <2>5, <2>6
<1>4. CASE SendMessage \/ Wake \/ Join \/ Answered
  BY <1>1, <1>4 DEF SendMessage, Wake, Join, Answered, GoTo, Return, state, answers,
       Base, ClientInv, InWhichCall
<1>5. CASE Await
  <2>1. /\ cpc = "await" /\ UNCHANGED <<call, handler, mActive, mNotifyOnReply>>
        /\ \/ /\ mClientWait[Waiter] > 0 /\ cpc' = "answered"
              /\ mClientWait' = [mClientWait EXCEPT ![Waiter] = @ - 1]
           \/ /\ mClientWait[Waiter] = 0 /\ cpc' = "ready" /\ (call = "wait" => ~result')
              /\ UNCHANGED mClientWait
    BY <1>5 DEF Await, GoTo, Return, state
  <2>2. CASE Waiter = h
    <3>1. handler = h
      BY <1>1, <2>1, <2>2
    <3>2. CASE mClientWait[h] = 0
      BY <2>1, <2>2, <3>1, <3>2
    <3>3. CASE mClientWait[h] = 1
      <4>1. mClientWait'[h] = 0
        BY <1>1, <2>1, <2>2, <3>3
      <4>2. QED
        BY <2>1, <3>3, <4>1
    <3>4. QED
      BY <3>2, <3>3
  <2>3. CASE Waiter # h
    <3>1. mClientWait'[h] = mClientWait[h]
      BY <1>1, <2>1, <2>3
    <3>2. handler # h
      BY <2>1, <2>3 DEF Waiter, Base, ClientInv, InWhichCall, CallsMade
    <3>3. QED
      BY <2>1, <3>1, <3>2
  <2>4. QED
    BY <2>2, <2>3
<1>6. CASE ThreadLoop
  <2>1. UNCHANGED <<answers, state, client>>
    BY <1>6 DEF ThreadLoop, Connect, Poll, Drain, HandleMessage, HandleExit, HandlePacket, Notify,
         LooperStep, Stuck, answers
  <2>2. QED
    BY <2>1 DEF answers, state, client
<1>7. CASE Host \/ UNCHANGED vars
  BY <1>7 DEF Host, vars, state, answers, client
<1>8. QED
  BY <1>2, <1>3, <1>4, <1>5, <1>6, <1>7 DEF Next, InCall

LEMMA ToldStep ==
  ASSUME Base, Tasks, ReplyDue, Tracks, Waiting, Told, [Next]_vars
  PROVE  Told'
<1> DEFINE Quiet(h) == /\ mClientWait[h] = 0 /\ ~mNotifyOnReply[h]
                       /\ ~At("queue", h) /\ ~At("hand", h)
           Each(h) == PostedOnce(h) /\ SawEnd(h) /\ PostedFor(h)
<1>1. SUFFICES ASSUME ~slow', alive', NEW h \in Media, NeverStopped(h)'
               PROVE  PostedOnce(h)' /\ SawEnd(h)' /\ (~Stuck' => PostedFor(h)')
  BY DEF Told
<1>2. ~slow /\ alive /\ NeverStopped(h)
  BY <1>1, AliveBefore, UseKept DEF slow, NeverStopped, Does
<1>3. /\ PostedOnce(h) /\ SawEnd(h)
      /\ call = "stop" => handler # h
  BY <1>2, OtherStopped DEF Told
<1>4. CASE Stuck
  BY <1>3, <1>4, StuckStays, ToldIfStuck
<1>5. SUFFICES ASSUME ~Stuck
               PROVE  Each(h)'
  BY <1>4
<1>6. Each(h)
  BY <1>2, <1>3, <1>5 DEF Told
<1>7. /\ h \in Handler /\ h # "temp"
      /\ call \in {"download", "info"} => handler # h
      /\ Waiter = handler \/ Waiter = "temp"
      /\ cpc = "await" /\ handler = h => Waiter = h
  BY <1>3 DEF Base, ClientInv, InWhichCall, Media, Handler, Waiter, CallsMade
<1>8. mActive \in [Handler -> BOOLEAN] /\ mNotifyOnReply \in [Handler -> BOOLEAN]
      /\ mClientWait \in [Handler \cup {"temp"} -> Nat]
  BY DEF Base, ClientInv, Handlers, Ways
<1>9. cpc \notin {"wake", "await"} \/ handler # h => Quiet(h)
  BY <1>6 DEF PostedOnce, PostedFor
<1>10. ASSUME Quiet(h), UNCHANGED <<mClientWait[h], mNotifyOnReply[h]>>,
              At("queue", h)' => At("queue", h), At("hand", h)' => At("hand", h)
       PROVE  PostedOnce(h)' /\ PostedFor(h)'
  BY <1>10 DEF PostedOnce, PostedFor
<1>11. UNCHANGED <<mMsgQueue, q>> =>
         (At("queue", h)' <=> At("queue", h)) /\ (At("hand", h)' <=> At("hand", h))
  BY DEF At
<1> HIDE DEF Quiet
<1>12. CASE Call
  <2>1. /\ cpc = "ready" /\ cpc' \in {"init", "lock", "send"}
        /\ UNCHANGED <<mClientWait, mNotifyOnReply, mMsgQueue, q>>
    BY <1>12 DEF Call, InitCall, Enter, Release, GoTo, looper, queue, state, answers
  <2>2. QED
    BY <1>9, <1>10, <1>11, <2>1 DEF SawEnd
<1>13. CASE InitAwait \/ Join
  <2>1. /\ cpc \in {"init", "join"} /\ call' # "wait"
        /\ UNCHANGED <<mClientWait, mNotifyOnReply, mMsgQueue, q>>
    BY <1>13 DEF InitAwait, Join, looper, queue, state, answers, Base, ClientInv, InWhichCall
  <2>2. QED
    BY <1>9, <1>10, <1>11, <2>1 DEF SawEnd
<1>14. CASE LockDownload \/ LockGetDeviceInfo
  <2>1. /\ cpc = "lock" /\ call' # "wait" /\ handler # h
        /\ mNotifyOnReply' = [mNotifyOnReply EXCEPT ![handler] = TRUE]
        /\ UNCHANGED <<mClientWait, mMsgQueue, q>>
    BY <1>7, <1>14 DEF LockDownload, LockGetDeviceInfo, Locked, looper, queue
  <2>2. UNCHANGED mNotifyOnReply[h]
    BY <1>7, <1>8, <2>1
  <2>3. QED
    BY <1>9, <1>10, <1>11, <2>1, <2>2 DEF SawEnd
<1>15. CASE \E id \in Id : LockStart(id)
  <2>1. /\ cpc = "lock" /\ call' # "wait"
        /\ UNCHANGED <<mClientWait, mNotifyOnReply, mMsgQueue, q>>
    BY <1>15 DEF LockStart, Locked, looper, queue
  <2>2. QED
    BY <1>9, <1>10, <1>11, <2>1 DEF SawEnd
<1>16. CASE LockWait
  <2>1. /\ cpc = "lock" /\ call = "wait" /\ UNCHANGED <<call, handler, mActive, mClientWait, mMsgQueue, q>>
        /\ \/ ~mActive[handler] /\ cpc' = "ready" /\ UNCHANGED mNotifyOnReply
           \/ /\ mActive[handler] /\ cpc' = "await"
              /\ mNotifyOnReply' = [mNotifyOnReply EXCEPT ![handler] = TRUE]
    BY <1>16 DEF LockWait, Locked, GoTo, Return, looper, queue
  <2>2. SawEnd(h)' /\ Quiet(h)
    BY <1>9, <2>1 DEF SawEnd
  <2>3. CASE UNCHANGED mNotifyOnReply[h]
    BY <1>10, <1>11, <2>1, <2>2, <2>3
  <2>4. CASE ~UNCHANGED mNotifyOnReply[h]
    <3>1. h = handler /\ mActive[handler] /\ cpc' = "await"
      BY <1>7, <1>8, <2>1, <2>4
    <3>2. QED
      BY <1>11, <2>1, <2>2, <3>1 DEF Quiet, PostedOnce, PostedFor
  <2>5. QED
    BY <2>3, <2>4
<1>17. CASE LockStop
  <2>1. /\ cpc = "lock" /\ call' = "stop" /\ handler # h
        /\ mNotifyOnReply' \in {mNotifyOnReply, [mNotifyOnReply EXCEPT ![handler] = FALSE]}
        /\ mClientWait' \in {mClientWait, [mClientWait EXCEPT !["temp"] = 0]}
        /\ UNCHANGED <<mMsgQueue, q>>
    BY <1>3, <1>17 DEF LockStop, Locked, looper, queue
  <2>2. UNCHANGED <<mClientWait[h], mNotifyOnReply[h]>>
    BY <1>7, <1>8, <2>1
  <2>3. QED
    BY <1>9, <1>10, <1>11, <2>1, <2>2 DEF SawEnd
<1>18. CASE SendMessage
  <2> DEFINE m == [what |-> What, to |-> Waiter]
  <2>1. /\ cpc = "send" /\ mMsgQueue' = Append(mMsgQueue, m) /\ cpc' = "wake"
        /\ UNCHANGED <<call, handler, mClientWait, mNotifyOnReply, q>>
    BY <1>18 DEF SendMessage, GoTo, looper, state, answers
  <2>2. m \in Message /\ (What = h => handler = h /\ call = "start")
    BY <1>7, <2>1, SentIsMessage DEF Base, ClientInv
  <2>3. Quiet(h)
    BY <1>9, <2>1
  <2>4. Asked(mMsgQueue', h) => handler = h /\ call = "start"
    <3>1. Asked(mMsgQueue', h) <=> Asked(mMsgQueue, h) \/ What = h
      BY <2>1, <2>2, AppendAsked DEF Base, Ways
    <3>2. QED
      BY <2>2, <2>3, <3>1 DEF Quiet, At
  <2> HIDE DEF m
  <2>5. QED
    BY <2>1, <2>3, <2>4 DEF Quiet, PostedOnce, PostedFor, SawEnd, At
<1>19. CASE Wake
  <2>1. /\ cpc = "wake" /\ call # "wait" /\ UNCHANGED <<call, handler, mClientWait, mNotifyOnReply, mMsgQueue, q>>
        /\ cpc' = IF call = "release" THEN "join" ELSE "await"
    BY <1>19 DEF Wake, GoTo, looper, state, answers, Base, ClientInv, InWhichCall
  <2>2. QED
    BY <1>6, <1>11, <2>1 DEF PostedOnce, PostedFor, SawEnd
<1>20. CASE Await
  <2>1. /\ cpc = "await" /\ UNCHANGED <<call, handler, mActive, mNotifyOnReply>>
        /\ \/ /\ mClientWait[Waiter] > 0 /\ cpc' = "answered"
              /\ mClientWait' = [mClientWait EXCEPT ![Waiter] = @ - 1]
           \/ /\ mClientWait[Waiter] = 0 /\ TimeOut /\ cpc' = "ready" /\ UNCHANGED mClientWait
        /\ \/ call = "stop" /\ mMsgQueue' = Abandon(mMsgQueue) /\ q' = Abandon(q)
           \/ UNCHANGED <<mMsgQueue, q>>
    BY <1>20 DEF Await, GoTo, Return, state
  <2>2. (At("queue", h)' <=> At("queue", h)) /\ (At("hand", h)' <=> At("hand", h))
    BY <1>11, <2>1, AbandonKeeps DEF At, Base, Ways
  <2>3. CASE handler # h
    <3>1. Quiet(h) /\ UNCHANGED mClientWait[h]
      BY <1>7, <1>8, <1>9, <2>1, <2>3
    <3>2. QED
      BY <1>10, <2>1, <2>2, <2>3, <3>1 DEF SawEnd
  <2>4. CASE handler = h /\ mClientWait[h] > 0
    <3>1. mClientWait[h] = 1 /\ Waiter = h
      BY <1>6, <1>7, <2>1, <2>4 DEF PostedOnce
    <3>2. mClientWait'[h] = 0 /\ cpc' = "answered"
      BY <1>7, <1>8, <2>1, <3>1
    <3>3. ~mNotifyOnReply[h] /\ ~At("queue", h) /\ ~At("hand", h) /\ (call = "wait" => ~mActive[h])
      BY <1>6, <3>1 DEF PostedOnce, PostedFor
    <3>4. QED
      BY <2>1, <2>2, <3>2, <3>3 DEF PostedOnce, PostedFor, SawEnd
  <2>5. CASE handler = h /\ ~(mClientWait[h] > 0)
    <3>1. mClientWait[h] = 0 /\ TimeOut /\ cpc' = "ready" /\ UNCHANGED mClientWait
      BY <1>7, <1>8, <2>1, <2>5
    <3>2. ~LooperStuck
      BY <1>5 DEF LooperStuck, Stuck
    <3>3. call # "wait"
      BY <1>2, <2>1, <2>5, <3>1, <3>2, WaitTimedOut
    <3>4. LooperIdle
      BY <1>2, <3>1, <3>2 DEF TimeOut
    <3>5. Quiet(h)
      BY <1>6, <3>1, <3>3, <3>4, EmptyAsked DEF PostedFor, Quiet, At, LooperIdle
    <3>6. QED
      BY <1>10, <2>1, <2>2, <3>1, <3>3, <3>5 DEF SawEnd
  <2>6. QED
    BY <2>3, <2>4, <2>5
<1>21. CASE Answered
  <2>1. /\ cpc = "answered" /\ cpc' = "ready"
        /\ UNCHANGED <<call, handler, mActive, mClientWait, mNotifyOnReply, mMsgQueue, q>>
    BY <1>21 DEF Answered, Return, looper, queue, state, answers
  <2>2. QED
    BY <1>6, <1>9, <1>10, <1>11, <2>1 DEF SawEnd
<1>22. CASE ThreadLoop
  <2>1. UNCHANGED <<client, cpc, call, handler, result>>
    BY <1>22, LooperKeeps DEF ThreadLoop, Notify, client
  <2>2. IF Notify /\ packet.cmd = h THEN ~mActive'[h] /\ ~mNotifyOnReply'[h]
                                    ELSE UNCHANGED <<mActive[h], mNotifyOnReply[h]>>
    BY <1>7, <1>22, LooperTells
  <2>3. SawEnd(h)' /\ (mNotifyOnReply'[h] => mActive'[h])
    BY <1>6, <2>1, <2>2 DEF SawEnd, PostedOnce
  <2>4. h \in Tracked /\ Alone(h) /\ (\A s \in Stage : At(s, h) => mActive[h])
    BY <1>2 DEF Tracked, Tasks
  <2>5. mNotifyOnReply'[h] => call = "wait" /\ handler = h /\ cpc = "await"
    BY <1>6, <2>2 DEF PostedFor
  <2>6. At("queue", h)' \/ At("hand", h)' =>
          \/ At("queue", h)
          \/ At("hand", h) /\ ~(HandleMessage /\ Head(q).what = h)
    <3>1. CASE HandleMessage \/ HandleExit
      <4>1. q # <<>> /\ q' = Tail(q) /\ UNCHANGED mMsgQueue
        BY <3>1 DEF HandleMessage, HandleExit, queue
      <4>2. (Asked(q, h) <=> Head(q).what = h \/ Asked(q', h)) /\ (Head(q).what = h => ~Asked(q', h))
        BY <2>4, <4>1, TailAsked DEF Base, Ways, Alone, Onces
      <4>3. QED
        BY <4>1, <4>2 DEF At
    <3>2. CASE Connect \/ Poll \/ HandlePacket \/ Notify
      <4>1. UNCHANGED <<q, mMsgQueue>> /\ lpc # "handle"
        BY <3>2 DEF Connect, Poll, HandlePacket, Notify, queue, LooperStep
      <4>2. QED
        BY <4>1 DEF At, HandleMessage, LooperStep
    <3>3. CASE Drain
      <4>1. /\ lpc = "drain"
            /\ UNCHANGED <<q, mMsgQueue>> \/ (q' = mMsgQueue /\ mMsgQueue' = <<>>)
        BY <3>3 DEF Drain, LooperStep
      <4>2. QED
        BY <4>1, EmptyAsked DEF At, HandleMessage, LooperStep
    <3>4. QED
      BY <1>22, <3>1, <3>2, <3>3 DEF ThreadLoop
  <2>7. CASE /\ mClientWait'[h] = mClientWait[h]
             /\ Notify /\ packet.cmd = h => ~mNotifyOnReply[h]
    BY <1>6, <2>1, <2>2, <2>3, <2>5, <2>6, <2>7 DEF PostedOnce, PostedFor
  <2>8. CASE /\ mClientWait'[h] = mClientWait[h] + 1
             /\ HandleMessage /\ Head(q).what = h /\ Asked(q, h)
    <3>1. At("hand", h)
      BY <2>8 DEF At
    <3>2. call = "start" /\ handler = h /\ cpc \in {"wake", "await"} /\ mClientWait[h] = 0
      BY <1>6, <3>1 DEF PostedFor
    <3>3. mClientWait'[h] = 1
      BY <2>8, <3>2
    <3>4. ~At("queue", h)
      BY <2>4, <3>1 DEF Alone, Stage
    <3>5. ~At("queue", h)' /\ ~At("hand", h)'
      BY <2>6, <2>8, <3>4
    <3>6. QED
      BY <2>1, <2>3, <2>5, <3>2, <3>3, <3>5 DEF PostedOnce, PostedFor
  <2>9. CASE /\ mClientWait'[h] = mClientWait[h] + 1
             /\ Notify /\ packet.cmd = h /\ mNotifyOnReply[h]
    <3>1. call = "wait" /\ handler = h /\ cpc = "await" /\ mActive[h]
      BY <1>6, <2>9 DEF PostedOnce, PostedFor
    <3>2. mClientWait[h] = 0 /\ ~At("queue", h) /\ ~At("hand", h)
      BY <1>6, <3>1 DEF PostedOnce, PostedFor
    <3>3. mClientWait'[h] = 1 /\ ~mActive'[h]
      BY <2>2, <2>9, <3>2
    <3>4. QED
      BY <2>1, <2>3, <2>5, <2>6, <3>1, <3>2, <3>3 DEF PostedOnce, PostedFor
  <2>10. QED
    BY <1>7, <1>22, <2>7, <2>8, <2>9, LooperPosts
<1>23. CASE Host \/ UNCHANGED vars
  BY <1>6, <1>11, <1>23 DEF Host, vars, PostedOnce, PostedFor, SawEnd, looper, queue, state, answers, client
<1>24. QED
  BY <1>12, <1>13, <1>14, <1>15, <1>16, <1>17, <1>18, <1>19, <1>20, <1>21, <1>22, <1>23
  DEF Next, InCall

WaitInv == TasksInv /\ ReplyDue /\ Tracks /\ Waiting /\ Waits /\ Told

\* While the device is there and answers in time, a wait for the end of a
\* playback or recording does not run into its time-out, unless a startPlayback
\* with an unknown id has kept the lock of a handler that was stopped; if none of
\* the kind is ever stopped, what it waits for is over when it returns true.  A reply is due, or under way,
\* for whatever is active, and it finds mNotifyOnReply set, or the wait finds the
\* handler inactive.
THEOREM WaitsSeeTheEnd == Spec => []WaitSeesEnd
<1>1. Init => WaitInv
  <2>1. ASSUME Init
        PROVE  WaitInv
    <3>1. Tasks /\ RecorderSteps /\ Base
      BY <2>1, InitNowhere, InitTypes DEF Tasks, Tracked, RecorderSteps, Init, DeviceInit
    <3>2. \A h \in Media : ~mActive[h] /\ ~mNotifyOnReply[h] /\ mClientWait[h] = 0
                           /\ ~At("queue", h) /\ ~At("hand", h)
      BY <2>1, EmptyAsked DEF Init, Media, Handler, At
    <3>3. call = "none" /\ player = "none"
      BY <2>1 DEF Init, DeviceInit
    <3>4. ReplyDue /\ Tracks /\ Waiting /\ Waits /\ Told
      BY <3>2, <3>3 DEF ReplyDue, Tracks, Waiting, Waits, Told, PostedOnce, PostedFor, SawEnd
    <3>5. QED
      BY <3>1, <3>4 DEF WaitInv, TasksInv
  <2>2. QED
    BY <2>1
<1>2. WaitInv /\ [Next]_vars => WaitInv'
  BY BaseStep, RecorderStepsStep, TasksStep, ReplyDueStep, TracksStep, WaitingStep, WaitsStep, ToldStep
  DEF WaitInv, TasksInv
<1>3. WaitInv => WaitSeesEnd
  <2>1. ASSUME WaitInv, ~slow, alive, cpc = "ready", call = "wait"
        PROVE  /\ ~pipeBlocks => result \/ Kept
               /\ NeverStopped(handler) /\ result => Over(handler)
    <3>1. ~pipeBlocks => result \/ Kept
      BY <2>1 DEF WaitInv, Waits
    <3>2. ASSUME NeverStopped(handler), result
          PROVE  Over(handler)
      <4>1. handler \in Media
        BY <2>1 DEF WaitInv, TasksInv, Base, ClientInv, InWhichCall
      <4>2. ~mActive[handler]
        BY <2>1, <3>2, <4>1 DEF WaitInv, Told, SawEnd
      <4>3. ~At("device", handler)
        BY <2>1, <3>2, <4>1, <4>2 DEF WaitInv, TasksInv, Tasks, Stage
      <4>4. ~Busy(handler)
        BY <2>1, <4>3, AtEach
      <4>5. QED
        BY <2>1, <4>1, <4>2, <4>4 DEF Busy, Over, Media, WaitInv, TasksInv, RecorderSteps
    <3>3. QED
      BY <3>1, <3>2
  <2>2. QED
    BY <2>1 DEF WaitSeesEnd, Kept
<1>4. QED
  BY <1>1, <1>2, <1>3, PTL DEF Spec
===============================================================================
