---------------------------- MODULE AmqpProofs ----------------------------
(***************************************************************************)
(* The AMQP session, for any channels, any consumer tags and any client    *)
(* that keeps the protocol's rules: no delivery is slept through, the      *)
(* session's books agree with the broker's, confirms name their publishes, *)
(* and the client is cut off or surprised for the named causes only.       *)
(***************************************************************************)
EXTENDS AmqpSession, FiniteSetTheorems, SequenceTheorems, TLAPS

----------------------------------------------------------------------------
(* One channel, seen from both ends                                         *)
(*                                                                          *)
(* The session's account of a channel and the client's are apart by the     *)
(* frames on their way.  A Room is what the session holds of the channel    *)
(* now, or will hold once it has read some of those frames.                 *)

Room == [at : {"gone", "usable", "closing"}, confirms : BOOLEAN, count : Nat, owes : 0 .. 2]
NoRoom == [at |-> "gone", confirms |-> FALSE, count |-> 0, owes |-> 0]
Fresh == [at |-> "usable", confirms |-> FALSE, count |-> 0, owes |-> 0]
Shut == [at |-> "closing", confirms |-> FALSE, count |-> 0, owes |-> 0]

\* Channel.Open and Close-Ok begin a channel's life anew.
Anew == {"open", "closeOk"}
Mine(f, c) == f.ch = c /\ f.op # "bye"

\* What reading a frame makes of the channel.
After(r, f) ==
  IF f.op = "open" THEN Fresh
  ELSE IF f.op = "closeOk" THEN NoRoom
  ELSE IF r.at # "usable" THEN r
  ELSE IF f.op = "close" THEN NoRoom
  ELSE [at |-> "usable",
        confirms |-> r.confirms \/ f.op = "select",
        count |-> IF f.op = "publish" /\ r.confirms THEN r.count + 1 ELSE r.count,
        owes |-> IF f.op = "publish" THEN 2 ELSE IF f.op = "header" THEN f.size
                 ELSE IF f.op = "body" THEN 0 ELSE r.owes]

\* What may be read on it next.
Due(r, f) ==
  /\ f.op = "open" => r.at = "gone"
  /\ r.at = "gone" => f.op = "open"
  /\ r.at = "usable" => (f.op = "header" <=> r.owes = 2) /\ (f.op = "body" <=> r.owes = 1)
  /\ r.at = "usable" /\ f.op = "publish" => f.ord = IF r.confirms THEN r.count + 1 ELSE 0

\* st is how the channel fares while the frames that are on their way are read.
StepAt(c, f, r, r2) ==
  IF Mine(f, c) THEN Due(r, f) /\ r2 = After(r, f) ELSE r2 = r
Steps(c, up, st) == \A k \in 1 .. Len(up) : StepAt(c, up[k], st[k - 1], st[k])
Steady(c, up, st) ==
  \A j, k \in 0 .. Len(up) : j <= k /\ (\A i \in (j + 1) .. k : ~Mine(up[i], c)) => st[j] = st[k]

\* In the end it is what the client believes.
Agrees(v, e, now) ==
  /\ v.state = "closed" => e = NoRoom
  /\ v.state = "opening" => e = Fresh /\ ~v.confirms /\ v.count = 0 /\ v.owes = 0
  /\ v.state = "open" =>
       e = Shut \/ e = [at |-> "usable", confirms |-> v.confirms, count |-> v.count, owes |-> v.owes]
  /\ v.state = "closing" => e \in {NoRoom, Shut}
  /\ now = Shut /\ v.state \in {"open", "closing"} => e = Shut

Replays(c, up, now, v, st) ==
  /\ st \in [0 .. Len(up) -> Room] /\ st[0] = now
  /\ Steps(c, up, st) /\ Steady(c, up, st) /\ Agrees(v, st[Len(up)], now)
Replayed(c, up, now, v) == \E st : Replays(c, up, now, v, st)

\* The places of the channel's frames in either stream.
Up(c, up) == {k \in 1 .. Len(up) : Mine(up[k], c)}
Down(c, down) == {i \in 1 .. Len(down) : down[i].ch = c}
Closes(c, down) == {i \in Down(c, down) : down[i].op = "close"}
CloseOks(c, down) == {i \in Down(c, down) : down[i].op = "closeOk"}

\* A channel the session is closing: the Channel.Close is the last the client
\* hears on it, or it has been heard and its Close-Ok is on the way.
BothEnds(c, up, down, now, v) ==
  now = Shut =>
    \/ /\ v.state \in {"open", "closing"}
       /\ \A k \in Up(c, up) : up[k].op \notin Anew
       /\ \E i \in Closes(c, down) : \A j \in Down(c, down) : j <= i /\ (j \in Closes(c, down) => j = i)
    \/ /\ v.state \in {"closed", "opening"}
       /\ Down(c, down) = {}
       /\ \E k \in Up(c, up) : /\ up[k].op = "closeOk"
                               /\ \A j \in Up(c, up) : /\ j < k => up[j].op \notin Anew
                                                       /\ j > k => up[j].op = "open"

\* A Channel.Close for a channel that is gone: the client is between the
\* Close-Ok it was sent before and whatever comes after.
Torn(c, up, down, now, v, prist, i) ==
  /\ \A k \in Up(c, up) : up[k].op \in Anew
  /\ now.at = "usable" => prist
  /\ \/ v.state = "closing" /\ \E j \in CloseOks(c, down) : j < i
     \/ v.state \in {"closed", "opening"} /\ \A j \in Down(c, down) : j < i => j \in Closes(c, down)
StaleCloses(c, up, down, now, v, prist, stale) ==
  now # Shut => \A i \in Closes(c, down) : stale /\ Torn(c, up, down, now, v, prist, i)
Teardown(c, up, down, now, v, prist, torn) ==
  torn => now = NoRoom /\ Torn(c, up, down, now, v, prist, Len(down) + 1)

\* A Close-Ok to the client is the last but for such closes.
CloseOkLast(c, up, down, now, v) ==
  \A i \in CloseOks(c, down) :
    /\ v.state = "closing" /\ now = NoRoom /\ Up(c, up) = {}
    /\ \A j \in Down(c, down) : (j > i => j \in Closes(c, down)) /\ (j \in CloseOks(c, down) => j = i)

\* A client that begins anew on a channel that is not being closed has
\* sent nothing else on it.
BegunAnew(c, up, now, v, prist, stale) ==
  /\ now # Shut => \A k \in Up(c, up) : up[k].op \in Anew =>
       /\ \A j \in Up(c, up) : j < k => up[j].op \in Anew
       /\ now.at = "usable" => stale /\ prist
       /\ up[k].op = "closeOk" => stale
  /\ \A k \in Up(c, up) : up[k].op = "open" /\
       (v.state # "opening" \/ \E j \in Up(c, up) : j < k /\ up[j].op = "open") => stale

\* Its Channel.Close is its last word.
LastWord(c, up, now, v) ==
  now # Shut => \A k \in Up(c, up) : up[k].op = "close" =>
    v.state = "closing" /\ \A j \in Up(c, up) : j <= k

NoSurprise(c, down, now, v, stale) ==
  v.state = "closed" /\ (Down(c, down) # {} \/ now.at = "usable") => stale

\* The pieces of a message follow one another.
NoneBefore(c, up, k) == \A j \in Up(c, up) : j >= k
Follows(c, up, k, kind) ==
  \/ NoneBefore(c, up, k)
  \/ \E j \in Up(c, up) : j < k /\ up[j].op = kind /\ \A i \in Up(c, up) : i < k => i <= j
InPieces(c, up, v) ==
  /\ \A k \in Up(c, up) : /\ up[k].op = "header" => Follows(c, up, k, "publish")
                          /\ up[k].op = "body" => Follows(c, up, k, "header")
  /\ v.owes = 2 => Follows(c, up, Len(up) + 1, "publish")
  /\ v.owes = 1 => Follows(c, up, Len(up) + 1, "header")

\* On a channel that is being closed the pieces have lost their publish, or will.
HasCause(c, up, k, disc) == disc \/ \E j \in Up(c, up) : j < k /\ up[j].op = "publish"
StrayHasCause(c, up, now, v, disc) ==
  now = Shut =>
    /\ \A k \in Up(c, up) : up[k].op \in {"header", "body"} => HasCause(c, up, k, disc)
    /\ v.state = "open" /\ v.owes # 0 => HasCause(c, up, Len(up) + 1, disc)

\* A client that has closed the channel, or is opening it, has sent nothing on
\* it that the session would take for its new life.
Attended(c, up, now, v, prist) ==
  v.state \in {"closed", "opening"} /\ now # Shut =>
    (\A k \in Up(c, up) : up[k].op \in Anew) /\ (now.at = "usable" => prist)

\* An Open-Ok and another Open are not on their way at once.
Greeted(c, up, down, stale) ==
  (\E i \in Down(c, down) : down[i].op = "openOk") /\ (\E k \in Up(c, up) : up[k].op = "open") => stale

Unopened(c, up, stale) == \A k \in Up(c, up) : up[k].op = "open" => stale

Course(c, up, down, now, v, prist, stale, disc) ==
  /\ Replayed(c, up, now, v)
  /\ BothEnds(c, up, down, now, v)
  /\ StaleCloses(c, up, down, now, v, prist, stale)
  /\ CloseOkLast(c, up, down, now, v)
  /\ BegunAnew(c, up, now, v, prist, stale)
  /\ LastWord(c, up, now, v)
  /\ NoSurprise(c, down, now, v, stale)
  /\ Attended(c, up, now, v, prist) /\ Greeted(c, up, down, stale)
  /\ InPieces(c, up, v)
  /\ StrayHasCause(c, up, now, v, disc)
Protocol(c, up, down, now, v, prist, torn, stale, disc) ==
  Course(c, up, down, now, v, prist, stale, disc) /\ Teardown(c, up, down, now, v, prist, torn)

----------------------------------------------------------------------------
(* Streams that lose their head or grow at their end *)

Popped(s, t) ==
  /\ Len(s) \in Nat /\ Len(s) > 0 /\ Len(t) = Len(s) - 1
  /\ \A k \in 1 .. Len(t) : t[k] = s[k + 1]
Pushed(s, f, t) ==
  /\ Len(s) \in Nat /\ Len(t) = Len(s) + 1 /\ t[Len(s) + 1] = f
  /\ \A k \in 1 .. Len(s) : t[k] = s[k]

LEMMA PopUp ==
  ASSUME NEW c, NEW up, NEW up2, Popped(up, up2)
  PROVE  /\ \A k \in Up(c, up2) : k \in Nat /\ k >= 1 /\ k + 1 \in Up(c, up) /\ up2[k] = up[k + 1]
         /\ \A k \in Up(c, up) : k \in Nat /\ k >= 1 /\ (k # 1 => k - 1 \in Up(c, up2) /\ up2[k - 1] = up[k])
BY DEF Popped, Up

LEMMA PopReplay ==
  ASSUME NEW c, NEW up, NEW up2, NEW now, NEW v, NEW st, Popped(up, up2), Replays(c, up, now, v, st),
         st[1] = Shut /\ v.state \in {"open", "closing"} => now = Shut
  PROVE  Replayed(c, up2, st[1], v)
<1> DEFINE tt == [k \in 0 .. Len(up2) |-> st[k + 1]]
<1>1. Len(up2) \in Nat /\ Len(up) = Len(up2) + 1
  BY DEF Popped
<1>2. tt \in [0 .. Len(up2) -> Room] /\ tt[0] = st[1] /\ tt[Len(up2)] = st[Len(up)]
  BY <1>1 DEF Replays
<1>3. ASSUME NEW k \in 1 .. Len(up2)
      PROVE  tt[k] = st[k + 1] /\ tt[k - 1] = st[k] /\ up2[k] = up[k + 1] /\ k + 1 \in 1 .. Len(up)
  BY <1>1 DEF Popped
<1>4. Steps(c, up2, tt)
  <2> SUFFICES ASSUME NEW k \in 1 .. Len(up2) PROVE StepAt(c, up2[k], tt[k - 1], tt[k])
    BY DEF Steps
  <2>1. StepAt(c, up[k + 1], st[(k + 1) - 1], st[k + 1])
    BY <1>3 DEF Replays, Steps
  <2>2. (k + 1) - 1 = k
    OBVIOUS
  <2> QED
    BY <1>3, <2>1, <2>2
<1>5. Steady(c, up2, tt)
  <2> SUFFICES ASSUME NEW j \in 0 .. Len(up2), NEW k \in 0 .. Len(up2), j <= k,
                      \A i \in (j + 1) .. k : ~Mine(up2[i], c)
               PROVE  tt[j] = tt[k]
    BY DEF Steady
  <2>1. \A i \in (j + 1 + 1) .. (k + 1) : ~Mine(up[i], c)
    <3> SUFFICES ASSUME NEW i \in (j + 1 + 1) .. (k + 1) PROVE ~Mine(up[i], c)
      OBVIOUS
    <3>1. i - 1 \in (j + 1) .. k /\ i - 1 \in 1 .. Len(up2) /\ i - 1 + 1 = i
      BY <1>1
    <3> QED
      BY <1>3, <3>1
  <2>2. j + 1 \in 0 .. Len(up) /\ k + 1 \in 0 .. Len(up) /\ j + 1 <= k + 1
    BY <1>1
  <2>3. st[j + 1] = st[k + 1]
    BY <2>1, <2>2 DEF Replays, Steady
  <2> QED
    BY <2>3
<1>6. Agrees(v, tt[Len(up2)], st[1])
  BY <1>2 DEF Replays, Agrees
<1> HIDE DEF tt
<1> QED
  BY <1>2, <1>4, <1>5, <1>6 DEF Replays, Replayed

LEMMA PushReplay ==
  ASSUME NEW c, NEW up, NEW f, NEW up2, NEW now, NEW v, NEW st, NEW v2, NEW e2,
         Pushed(up, f, up2), Replays(c, up, now, v, st), e2 \in Room,
         StepAt(c, f, st[Len(up)], e2), Agrees(v2, e2, now)
  PROVE  Replayed(c, up2, now, v2)
<1> DEFINE n == Len(up)
           tt == [k \in 0 .. Len(up2) |-> IF k <= n THEN st[k] ELSE e2]
<1>1. n \in Nat /\ Len(up2) = n + 1
  BY DEF Pushed
<1>2. tt \in [0 .. Len(up2) -> Room] /\ tt[0] = st[0] /\ tt[Len(up2)] = e2
  BY <1>1 DEF Replays
<1>3. ASSUME NEW k \in 1 .. n
      PROVE  tt[k] = st[k] /\ tt[k - 1] = st[k - 1] /\ up2[k] = up[k]
  BY <1>1 DEF Pushed
<1>4. Steps(c, up2, tt)
  <2> SUFFICES ASSUME NEW k \in 1 .. Len(up2) PROVE StepAt(c, up2[k], tt[k - 1], tt[k])
    BY DEF Steps
  <2>1. CASE k <= n
    <3>1. k \in 1 .. n
      BY <1>1, <2>1
    <3>2. StepAt(c, up[k], st[k - 1], st[k])
      BY <3>1 DEF Replays, Steps
    <3> QED
      BY <1>3, <3>1, <3>2
  <2>2. CASE k = n + 1
    <3>1. up2[k] = f /\ tt[k - 1] = st[n] /\ tt[k] = e2
      BY <1>1, <2>2 DEF Pushed
    <3> QED
      BY <3>1
  <2> QED
    BY <1>1, <2>1, <2>2
<1>5. Steady(c, up2, tt)
  <2> SUFFICES ASSUME NEW j \in 0 .. Len(up2), NEW k \in 0 .. Len(up2), j <= k,
                      \A i \in (j + 1) .. k : ~Mine(up2[i], c)
               PROVE  tt[j] = tt[k]
    BY DEF Steady
  <2>1. ASSUME NEW m \in 0 .. n, j <= m, m <= k PROVE st[j] = st[m]
    <3>1. \A i \in (j + 1) .. m : ~Mine(up[i], c)
      <4> SUFFICES ASSUME NEW i \in (j + 1) .. m PROVE ~Mine(up[i], c)
        OBVIOUS
      <4>1. i \in (j + 1) .. k /\ i \in 1 .. n
        BY <1>1, <2>1
      <4> QED
        BY <1>3, <4>1
    <3> QED
      BY <1>1, <2>1, <3>1 DEF Replays, Steady
  <2>2. CASE k <= n
    BY <1>1, <2>1, <2>2
  <2>3. CASE k = n + 1 /\ j <= n
    <3>1. ~Mine(up2[n + 1], c)
      BY <1>1, <2>3
    <3>2. e2 = st[n]
      BY <3>1 DEF Pushed, StepAt
    <3>3. st[j] = st[n]
      BY <1>1, <2>1, <2>3
    <3> QED
      BY <1>1, <2>3, <3>2, <3>3
  <2>4. CASE j = n + 1 /\ k = n + 1
    BY <2>4
  <2> QED
    BY <1>1, <2>2, <2>3, <2>4
<1> HIDE DEF tt
<1> QED
  BY <1>1, <1>2, <1>4, <1>5 DEF Replays, Replayed

----------------------------------------------------------------------------
(* The session reads a frame *)

LEMMA PopFollows ==
  ASSUME NEW c, NEW up, NEW up2, NEW k \in Nat, NEW kind, Popped(up, up2), k >= 1,
         Follows(c, up, k + 1, kind)
  PROVE  Follows(c, up2, k, kind)
<1>1. CASE NoneBefore(c, up, k + 1)
  BY <1>1, PopUp DEF NoneBefore, Follows
<1>2. ASSUME NEW j \in Up(c, up), j < k + 1, up[j].op = kind, \A i \in Up(c, up) : i < k + 1 => i <= j
      PROVE  Follows(c, up2, k, kind)
  <2>1. CASE j = 1
    <3>1. NoneBefore(c, up2, k)
      <4> SUFFICES ASSUME NEW i \in Up(c, up2), i < k PROVE FALSE
        BY PopUp DEF NoneBefore
      <4>1. i \in Nat /\ i >= 1 /\ i + 1 \in Up(c, up)
        BY PopUp
      <4> QED
        BY <1>2, <2>1, <4>1
    <3> QED
      BY <3>1 DEF Follows
  <2>2. CASE j # 1
    <3>1. j - 1 \in Up(c, up2) /\ up2[j - 1].op = kind /\ j - 1 < k
      BY <1>2, <2>2, PopUp
    <3>2. \A i \in Up(c, up2) : i < k => i <= j - 1
      <4> SUFFICES ASSUME NEW i \in Up(c, up2), i < k PROVE i <= j - 1
        OBVIOUS
      <4>1. i \in Nat /\ i + 1 \in Up(c, up) /\ j \in Nat
        BY PopUp
      <4> QED
        BY <1>2, <4>1
    <3> QED
      BY <3>1, <3>2 DEF Follows
  <2> QED
    BY <2>1, <2>2
<1> QED
  BY <1>1, <1>2 DEF Follows

LEMMA PopPieces ==
  ASSUME NEW c, NEW up, NEW up2, NEW v, Popped(up, up2), InPieces(c, up, v)
  PROVE  InPieces(c, up2, v)
<1>1. ASSUME NEW k \in Up(c, up2)
      PROVE  /\ up2[k].op = "header" => Follows(c, up2, k, "publish")
             /\ up2[k].op = "body" => Follows(c, up2, k, "header")
  <2>1. k \in Nat /\ k >= 1 /\ k + 1 \in Up(c, up) /\ up2[k] = up[k + 1]
    BY PopUp
  <2> QED
    BY <2>1, PopFollows DEF InPieces
<1>2. Len(up2) + 1 \in Nat /\ Len(up2) + 1 >= 1 /\ (Len(up2) + 1) + 1 = Len(up) + 1
  BY DEF Popped
<1>3. /\ v.owes = 2 => Follows(c, up2, Len(up2) + 1, "publish")
      /\ v.owes = 1 => Follows(c, up2, Len(up2) + 1, "header")
  BY <1>2, PopFollows DEF InPieces
<1> QED
  BY <1>1, <1>3 DEF InPieces

LEMMA PopTorn ==
  ASSUME NEW c, NEW up, NEW up2, NEW down, NEW now, NEW v, NEW prist, NEW i, Popped(up, up2),
         Torn(c, up, down, now, v, prist, i)
  PROVE  Torn(c, up2, down, now, v, prist, i)
BY PopUp DEF Torn

LEMMA PopBegun ==
  ASSUME NEW c, NEW up, NEW up2, NEW now, NEW v, NEW prist, NEW stale \in BOOLEAN, Popped(up, up2),
         BegunAnew(c, up, now, v, prist, stale)
  PROVE  BegunAnew(c, up2, now, v, prist, stale)
<1>1. ASSUME NEW k \in Up(c, up2), up2[k].op \in Anew, now # Shut
      PROVE  /\ \A j \in Up(c, up2) : j < k => up2[j].op \in Anew
             /\ now.at = "usable" => stale /\ prist
             /\ up2[k].op = "closeOk" => stale
  <2>1. k \in Nat /\ k + 1 \in Up(c, up) /\ up2[k] = up[k + 1]
    BY PopUp
  <2>2. ASSUME NEW j \in Up(c, up2), j < k PROVE up2[j].op \in Anew
    <3>1. j \in Nat /\ j + 1 \in Up(c, up) /\ up2[j] = up[j + 1] /\ j + 1 < k + 1
      BY <2>1, <2>2, PopUp
    <3> QED
      BY <1>1, <2>1, <3>1 DEF BegunAnew
  <2> QED
    BY <1>1, <2>1, <2>2 DEF BegunAnew
<1>2. ASSUME NEW k \in Up(c, up2), up2[k].op = "open",
             v.state # "opening" \/ \E j \in Up(c, up2) : j < k /\ up2[j].op = "open"
      PROVE  stale
  <2>1. k \in Nat /\ k + 1 \in Up(c, up) /\ up2[k] = up[k + 1]
    BY PopUp
  <2>2. CASE v.state # "opening"
    BY <1>2, <2>1, <2>2 DEF BegunAnew
  <2>3. ASSUME NEW j \in Up(c, up2), j < k, up2[j].op = "open" PROVE stale
    <3>1. j + 1 \in Up(c, up) /\ up[j + 1].op = "open" /\ j + 1 < k + 1
      BY <2>1, <2>3, PopUp
    <3> QED
      BY <1>2, <2>1, <3>1 DEF BegunAnew
  <2> QED
    BY <1>2, <2>2, <2>3
<1> QED
  BY <1>1, <1>2 DEF BegunAnew

LEMMA PopLast ==
  ASSUME NEW c, NEW up, NEW up2, NEW now, NEW v, Popped(up, up2), LastWord(c, up, now, v)
  PROVE  LastWord(c, up2, now, v)
<1> SUFFICES ASSUME now # Shut, NEW k \in Up(c, up2), up2[k].op = "close"
             PROVE  v.state = "closing" /\ \A j \in Up(c, up2) : j <= k
  BY DEF LastWord
<1>1. k \in Nat /\ k + 1 \in Up(c, up) /\ up2[k] = up[k + 1]
  BY PopUp
<1>2. v.state = "closing" /\ \A j \in Up(c, up) : j <= k + 1
  BY <1>1 DEF LastWord
<1>3. ASSUME NEW j \in Up(c, up2) PROVE j <= k
  <2>1. j \in Nat /\ j + 1 \in Up(c, up)
    BY PopUp
  <2> QED
    BY <1>1, <1>2, <2>1
<1> QED
  BY <1>2, <1>3

\* A frame of another channel, or one discarded on a channel being closed.
LEMMA PopSame ==
  ASSUME NEW c, NEW up, NEW down, NEW now, NEW v, NEW prist, NEW torn,
         NEW stale \in BOOLEAN, NEW disc \in BOOLEAN, NEW up2, NEW disc2 \in BOOLEAN,
         Protocol(c, up, down, now, v, prist, torn, stale, disc), Popped(up, up2),
         Mine(up[1], c) => now = Shut /\ up[1].op \notin Anew,
         disc \/ (Mine(up[1], c) /\ up[1].op = "publish") => disc2
  PROVE  Protocol(c, up2, down, now, v, prist, torn, stale, disc2)
<1>1. \A k \in Up(c, up) : k \in Nat /\ k >= 1 /\ (k # 1 => k - 1 \in Up(c, up2) /\ up2[k - 1] = up[k])
  BY PopUp
<1>2. Replayed(c, up2, now, v)
  <2>1. PICK st : Replays(c, up, now, v, st)
    BY DEF Protocol, Course, Replayed
  <2>2. StepAt(c, up[1], st[0], st[1])
    <3>1. 1 \in 1 .. Len(up) /\ 1 - 1 = 0
      BY DEF Popped
    <3> QED
      BY <2>1, <3>1 DEF Replays, Steps
  <2>3. st[1] = now
    BY <2>1, <2>2 DEF StepAt, Replays, After, Anew, Shut
  <2> QED
    BY <2>1, <2>3, PopReplay
<1>3. BothEnds(c, up2, down, now, v)
  <2> SUFFICES ASSUME now = Shut PROVE BothEnds(c, up2, down, now, v)
    BY DEF BothEnds
  <2>1. CASE /\ v.state \in {"open", "closing"}
             /\ \A k \in Up(c, up) : up[k].op \notin Anew
             /\ \E i \in Closes(c, down) : \A j \in Down(c, down) : j <= i /\ (j \in Closes(c, down) => j = i)
    BY <2>1, PopUp DEF BothEnds
  <2>2. ASSUME v.state \in {"closed", "opening"}, Down(c, down) = {},
               NEW k \in Up(c, up), up[k].op = "closeOk",
               \A j \in Up(c, up) : /\ j < k => up[j].op \notin Anew
                                    /\ j > k => up[j].op = "open"
        PROVE  BothEnds(c, up2, down, now, v)
    <3>1. k # 1
      BY <2>2 DEF Up, Anew
    <3>2. k \in Nat /\ k - 1 \in Up(c, up2) /\ up2[k - 1].op = "closeOk"
      <4>1. k \in Nat /\ k - 1 \in Up(c, up2) /\ up2[k - 1] = up[k]
        BY <3>1, <1>1
      <4> QED
        BY <2>2, <4>1
    <3>3. ASSUME NEW j \in Up(c, up2)
          PROVE  (j < k - 1 => up2[j].op \notin Anew) /\ (j > k - 1 => up2[j].op = "open")
      <4>1. j \in Nat /\ j + 1 \in Up(c, up) /\ up2[j] = up[j + 1]
        BY PopUp
      <4> QED
        BY <2>2, <3>2, <4>1
    <3> QED
      BY <2>2, <3>2, <3>3 DEF BothEnds
  <2> QED
    BY <2>1, <2>2 DEF Protocol, Course, BothEnds
<1>4. StaleCloses(c, up2, down, now, v, prist, stale)
  BY PopTorn DEF Protocol, Course, StaleCloses
<1>5. Teardown(c, up2, down, now, v, prist, torn)
  BY PopTorn DEF Protocol, Course, Teardown
<1>6. CloseOkLast(c, up2, down, now, v)
  <2>1. Up(c, up) = {} => Up(c, up2) = {}
    BY PopUp
  <2> QED
    BY <2>1 DEF Protocol, Course, CloseOkLast
<1>7. BegunAnew(c, up2, now, v, prist, stale) /\ LastWord(c, up2, now, v) /\ InPieces(c, up2, v)
  BY PopBegun, PopLast, PopPieces DEF Protocol, Course
<1>8. StrayHasCause(c, up2, now, v, disc2)
  <2> SUFFICES ASSUME now = Shut, ~disc2 PROVE StrayHasCause(c, up2, now, v, disc2)
    BY DEF StrayHasCause, HasCause
  <2>1. ASSUME NEW k \in Nat, k >= 1, HasCause(c, up, k + 1, disc) PROVE HasCause(c, up2, k, disc2)
    <3>1. PICK j \in Up(c, up) : j < k + 1 /\ up[j].op = "publish"
      BY <2>1 DEF HasCause
    <3>2. j # 1
      BY <3>1 DEF Up
    <3>3. j \in Nat /\ j - 1 \in Up(c, up2) /\ up2[j - 1] = up[j] /\ j - 1 < k
      BY <3>1, <3>2, PopUp
    <3> QED
      BY <3>1, <3>3 DEF HasCause
  <2>2. ASSUME NEW k \in Up(c, up2), up2[k].op \in {"header", "body"} PROVE HasCause(c, up2, k, disc2)
    <3>1. k \in Nat /\ k >= 1 /\ k + 1 \in Up(c, up) /\ up2[k] = up[k + 1]
      BY PopUp
    <3> QED
      BY <2>1, <2>2, <3>1 DEF Protocol, Course, StrayHasCause
  <2>3. Len(up2) + 1 \in Nat /\ Len(up2) + 1 >= 1 /\ (Len(up2) + 1) + 1 = Len(up) + 1
    BY DEF Popped
  <2>4. v.state = "open" /\ v.owes # 0 => HasCause(c, up2, Len(up2) + 1, disc2)
    BY <2>1, <2>3 DEF Protocol, Course, StrayHasCause
  <2> QED
    BY <2>2, <2>4 DEF StrayHasCause
<1>9. Attended(c, up2, now, v, prist) /\ Greeted(c, up2, down, stale)
  BY PopUp DEF Protocol, Course, Attended, Greeted
<1> QED
  BY <1>2, <1>3, <1>4, <1>5, <1>6, <1>7, <1>8, <1>9 DEF Protocol, Course

\* What the first frame of the channel tells when it is at the head.
LEMMA HeadDue ==
  ASSUME NEW c, NEW up, NEW now, NEW v, Replayed(c, up, now, v), Len(up) \in Nat, Len(up) > 0,
         Mine(up[1], c)
  PROVE  now \in Room /\ Due(now, up[1])
<1>1. PICK st : Replays(c, up, now, v, st)
  BY DEF Replayed
<1>2. 1 \in 1 .. Len(up) /\ 1 - 1 = 0 /\ 0 \in 0 .. Len(up)
  OBVIOUS
<1>3. StepAt(c, up[1], st[0], st[1])
  BY <1>1, <1>2 DEF Replays, Steps
<1> QED
  BY <1>1, <1>2, <1>3 DEF Replays, StepAt

LEMMA PopOwnReplay ==
  ASSUME NEW c, NEW up, NEW up2, NEW now, NEW v, Replayed(c, up, now, v), Popped(up, up2),
         Mine(up[1], c), After(now, up[1]) = Shut /\ v.state \in {"open", "closing"} => now = Shut
  PROVE  Replayed(c, up2, After(now, up[1]), v)
<1>1. PICK st : Replays(c, up, now, v, st)
  BY DEF Replayed
<1>2. 1 \in 1 .. Len(up) /\ 1 - 1 = 0
  BY DEF Popped
<1>3. StepAt(c, up[1], st[0], st[1])
  BY <1>1, <1>2 DEF Replays, Steps
<1>4. st[1] = After(now, up[1])
  BY <1>1, <1>3 DEF Replays, StepAt
<1> QED
  BY <1>1, <1>4, PopReplay

\* A frame that neither begins nor ends the channel's life leaves nothing
\* behind it that does, and no close has been sent before.
LEMMA Settling ==
  ASSUME NEW c, NEW up, NEW down, NEW now, NEW v, NEW prist, NEW torn, NEW stale \in BOOLEAN, NEW disc,
         Protocol(c, up, down, now, v, prist, torn, stale, disc), Len(up) \in Nat, Len(up) > 0,
         Mine(up[1], c), up[1].op \notin Anew, now # Shut
  PROVE  /\ \A k \in Up(c, up) : up[k].op \notin Anew
         /\ Closes(c, down) = {} /\ CloseOks(c, down) = {}
         /\ ~torn
<1>1. 1 \in Up(c, up)
  BY DEF Up
<1>2. \A k \in Up(c, up) : up[k].op \notin Anew
  <2> SUFFICES ASSUME NEW k \in Up(c, up), up[k].op \in Anew PROVE FALSE
    OBVIOUS
  <2>1. k # 1 /\ k \in Nat /\ 1 < k
    BY DEF Up
  <2> QED
    BY <1>1, <2>1 DEF Protocol, Course, BegunAnew
<1>3. Closes(c, down) = {}
  BY <1>1 DEF Protocol, Course, StaleCloses, Torn
<1>4. CloseOks(c, down) = {}
  BY <1>1 DEF Protocol, Course, CloseOkLast
<1>5. ~torn
  BY <1>1 DEF Protocol, Course, Teardown, Torn
<1> QED
  BY <1>2, <1>3, <1>4, <1>5

\* A frame of the channel's own business.
LEMMA PopUsable ==
  ASSUME NEW c, NEW up, NEW down, NEW now, NEW v, NEW prist, NEW torn,
         NEW stale \in BOOLEAN, NEW disc \in BOOLEAN, NEW up2, NEW prist2,
         Protocol(c, up, down, now, v, prist, torn, stale, disc), Popped(up, up2),
         Mine(up[1], c), now.at = "usable", up[1].op \notin Anew \cup {"close"}
  PROVE  Course(c, up2, down, After(now, up[1]), v, prist2, stale, disc)
<1> DEFINE now2 == After(now, up[1])
<1>1. now2.at = "usable" /\ now # Shut /\ now2 # Shut /\ now # NoRoom
  BY DEF After, Anew, Shut, NoRoom
<1>2. /\ \A k \in Up(c, up) : up[k].op \notin Anew
      /\ Closes(c, down) = {} /\ CloseOks(c, down) = {}
  BY <1>1, Settling DEF Popped
<1>3. \A k \in Up(c, up2) : up2[k].op \notin Anew
  BY <1>2, PopUp
<1>4. Replayed(c, up2, now2, v)
  BY <1>1, PopOwnReplay DEF Protocol, Course
<1>5. LastWord(c, up2, now2, v) /\ InPieces(c, up2, v)
  <2>1. LastWord(c, up2, now, v) /\ InPieces(c, up2, v)
    BY PopLast, PopPieces DEF Protocol, Course
  <2> QED
    BY <1>1, <2>1 DEF LastWord
<1>6. NoSurprise(c, down, now2, v, stale)
  BY <1>1 DEF Protocol, Course, NoSurprise
<1>7. BothEnds(c, up2, down, now2, v) /\ StrayHasCause(c, up2, now2, v, disc)
  BY <1>1 DEF BothEnds, StrayHasCause
<1>8. /\ StaleCloses(c, up2, down, now2, v, prist2, stale) /\ CloseOkLast(c, up2, down, now2, v)
     
  BY <1>2 DEF StaleCloses, CloseOkLast, Teardown
<1>9. BegunAnew(c, up2, now2, v, prist2, stale)
  BY <1>3 DEF BegunAnew, Anew
<1>10. 1 \in Up(c, up)
  BY DEF Up, Popped
<1>11. v.state \notin {"closed", "opening"}
  BY <1>1, <1>2, <1>10 DEF Protocol, Course, Attended
<1>12. Attended(c, up2, now2, v, prist2) /\ Greeted(c, up2, down, stale)
  BY <1>3, <1>11 DEF Attended, Greeted, Anew
<1> HIDE DEF now2
<1>13. Course(c, up2, down, now2, v, prist2, stale, disc)
  BY <1>4, <1>5, <1>6, <1>7, <1>8, <1>9, <1>12 DEF Protocol, Course
<1> QED
  BY <1>13 DEF now2

\* Close-Ok to a Channel.Close of the session's, a needed one or not.
Answered(c, up, down, now, v, prist) ==
  /\ now.at = "usable" => prist
  /\ now.at # "gone"
  /\ now = Shut => Down(c, down) = {} /\ v.state \in {"closed", "opening"} /\ \A k \in Up(c, up) : up[k].op = "open"

LEMMA PopCloseOk ==
  ASSUME NEW c, NEW up, NEW down, NEW now, NEW v, NEW prist, NEW torn,
         NEW stale \in BOOLEAN, NEW disc \in BOOLEAN, NEW up2, NEW prist2,
         Protocol(c, up, down, now, v, prist, torn, stale, disc), Popped(up, up2),
         Mine(up[1], c), up[1].op = "closeOk"
  PROVE  /\ Course(c, up2, down, NoRoom, v, prist2, stale, disc)
         /\ Answered(c, up2, down, now, v, prist)
<1>1. 1 \in Up(c, up) /\ Len(up) \in Nat /\ Len(up) > 0
  BY DEF Up, Popped
<1>2. now \in Room /\ now.at # "gone"
  BY <1>1, HeadDue DEF Protocol, Course, Due
<1>3. After(now, up[1]) = NoRoom /\ NoRoom # Shut /\ NoRoom.at = "gone"
  BY DEF After, NoRoom, Shut
<1>4. Replayed(c, up2, NoRoom, v)
  BY <1>3, PopOwnReplay DEF Protocol, Course
<1>5. CloseOks(c, down) = {}
  BY <1>1 DEF Protocol, Course, CloseOkLast
<1>6. NoSurprise(c, down, NoRoom, v, stale) /\ InPieces(c, up2, v)
  BY <1>3, PopPieces DEF Protocol, Course, NoSurprise
<1>7. BothEnds(c, up2, down, NoRoom, v) /\ StrayHasCause(c, up2, NoRoom, v, disc)
  BY <1>3 DEF BothEnds, StrayHasCause
<1>8. CloseOkLast(c, up2, down, NoRoom, v)
  BY <1>5 DEF CloseOkLast, Teardown
<1>9. Greeted(c, up2, down, stale)
  BY PopUp DEF Protocol, Course, Greeted
<1>10. CASE now # Shut
  <2>1. BegunAnew(c, up2, NoRoom, v, prist2, stale)
    <3>1. BegunAnew(c, up2, now, v, prist, stale)
      BY PopBegun DEF Protocol, Course
    <3> QED
      BY <1>3, <1>10, <3>1 DEF BegunAnew
  <2>2. LastWord(c, up2, NoRoom, v)
    <3>1. LastWord(c, up2, now, v)
      BY PopLast DEF Protocol, Course
    <3> QED
      BY <1>10, <3>1 DEF LastWord
  <2>3. StaleCloses(c, up2, down, NoRoom, v, prist2, stale)
    <3> SUFFICES ASSUME NEW i \in Closes(c, down) PROVE stale /\ Torn(c, up2, down, NoRoom, v, prist2, i)
      BY DEF StaleCloses
    <3>1. stale /\ Torn(c, up, down, now, v, prist, i)
      BY <1>10 DEF Protocol, Course, StaleCloses
    <3>2. Torn(c, up2, down, now, v, prist, i)
      BY <3>1, PopTorn
    <3> QED
      BY <1>3, <3>1, <3>2 DEF Torn
  <2>4. now.at = "usable" => prist
    BY <1>1, <1>10 DEF Protocol, Course, BegunAnew, Anew
  <2>5. Attended(c, up2, NoRoom, v, prist2)
    BY <1>3, <1>10, PopUp DEF Protocol, Course, Attended
  <2> QED
    BY <1>2, <1>4, <1>6, <1>7, <1>8, <1>10, <1>9, <2>1, <2>2, <2>3, <2>4, <2>5 DEF Course, Answered
<1>11. CASE now = Shut
  <2>1. PICK k \in Up(c, up) : /\ v.state \in {"closed", "opening"} /\ Down(c, down) = {}
                               /\ up[k].op = "closeOk"
                               /\ \A j \in Up(c, up) : /\ j < k => up[j].op \notin Anew
                                                       /\ j > k => up[j].op = "open"
    BY <1>1, <1>11 DEF Protocol, Course, BothEnds, Anew
  <2>2. k = 1
    BY <1>1, <2>1 DEF Up, Anew
  <2>3. ASSUME NEW j \in Up(c, up2) PROVE up2[j].op = "open"
    <3>1. j \in Nat /\ j >= 1 /\ j + 1 \in Up(c, up) /\ up2[j] = up[j + 1]
      BY PopUp
    <3> QED
      BY <2>1, <2>2, <3>1
  <2>4. BegunAnew(c, up2, NoRoom, v, prist2, stale)
    <3>1. BegunAnew(c, up2, now, v, prist, stale)
      BY PopBegun DEF Protocol, Course
    <3> QED
      BY <1>3, <2>3, <3>1 DEF BegunAnew, Anew
  <2>5. LastWord(c, up2, NoRoom, v) /\ StaleCloses(c, up2, down, NoRoom, v, prist2, stale)
    BY <2>1, <2>3 DEF LastWord, StaleCloses, Closes
  <2>6. now.at # "usable"
    BY <1>11 DEF Shut
  <2>7. Attended(c, up2, NoRoom, v, prist2)
    BY <1>3, <2>3 DEF Attended, Anew
  <2> QED
    BY <1>2, <1>4, <1>6, <1>7, <1>8, <1>9, <2>1, <2>3, <2>4, <2>5, <2>6, <2>7 DEF Course, Answered
<1> QED
  BY <1>10, <1>11

LEMMA PopOpen ==
  ASSUME NEW c, NEW up, NEW down, NEW now, NEW v, NEW prist, NEW torn,
         NEW stale \in BOOLEAN, NEW disc \in BOOLEAN, NEW up2, NEW prist2, prist2,
         Protocol(c, up, down, now, v, prist, torn, stale, disc), Popped(up, up2),
         Mine(up[1], c), up[1].op = "open"
  PROVE  Course(c, up2, down, Fresh, v, prist2, stale, disc)
<1>1. 1 \in Up(c, up) /\ Len(up) \in Nat /\ Len(up) > 0
  BY DEF Up, Popped
<1>2. now.at = "gone" /\ now # Shut /\ Fresh # Shut /\ After(now, up[1]) = Fresh /\ Fresh.at = "usable"
  BY <1>1, HeadDue DEF Protocol, Course, Due, Shut, Fresh, After
<1>3. Replayed(c, up2, Fresh, v)
  BY <1>2, PopOwnReplay DEF Protocol, Course
<1>4. CloseOks(c, down) = {}
  BY <1>1 DEF Protocol, Course, CloseOkLast
<1>5. NoSurprise(c, down, Fresh, v, stale) /\ InPieces(c, up2, v)
  BY <1>1, PopPieces DEF Protocol, Course, NoSurprise, BegunAnew
<1>6. BothEnds(c, up2, down, Fresh, v) /\ StrayHasCause(c, up2, Fresh, v, disc)
  BY <1>2 DEF BothEnds, StrayHasCause
<1>7. CloseOkLast(c, up2, down, Fresh, v)
  BY <1>4 DEF CloseOkLast, Teardown
<1>8. LastWord(c, up2, Fresh, v)
  <2>1. LastWord(c, up2, now, v)
    BY PopLast DEF Protocol, Course
  <2> QED
    BY <1>2, <2>1 DEF LastWord
<1>9. StaleCloses(c, up2, down, Fresh, v, prist2, stale)
  <2> SUFFICES ASSUME NEW i \in Closes(c, down) PROVE stale /\ Torn(c, up2, down, Fresh, v, prist2, i)
    BY DEF StaleCloses
  <2>1. stale /\ Torn(c, up, down, now, v, prist, i)
    BY <1>2 DEF Protocol, Course, StaleCloses
  <2>2. Torn(c, up2, down, now, v, prist, i)
    BY <2>1, PopTorn
  <2> QED
    BY <2>1, <2>2 DEF Torn
<1>10. BegunAnew(c, up2, now, v, prist, stale)
  BY PopBegun DEF Protocol, Course
<1>11. ASSUME NEW k \in Up(c, up2), up2[k].op \in Anew PROVE stale
  <2>1. k \in Nat /\ k >= 1 /\ k + 1 \in Up(c, up) /\ up2[k] = up[k + 1] /\ 1 < k + 1
    BY PopUp
  <2>2. CASE up2[k].op = "closeOk"
    BY <1>2, <1>10, <1>11, <2>2 DEF BegunAnew
  <2>3. CASE up2[k].op = "open"
    BY <1>1, <2>1, <2>3 DEF Protocol, Course, BegunAnew
  <2> QED
    BY <1>11, <2>2, <2>3 DEF Anew
<1>12. BegunAnew(c, up2, Fresh, v, prist2, stale)
  BY <1>2, <1>10, <1>11 DEF BegunAnew
<1>13. Attended(c, up2, Fresh, v, prist2) /\ Greeted(c, up2, down, stale)
  BY <1>2, PopUp DEF Protocol, Course, Attended, Greeted
<1> QED
  BY <1>3, <1>5, <1>6, <1>7, <1>8, <1>9, <1>12, <1>13 DEF Course

LEMMA PopOpenFirst ==
  ASSUME NEW c, NEW up, NEW down, NEW now, NEW v, NEW prist, NEW torn,
         NEW stale \in BOOLEAN, NEW disc \in BOOLEAN, NEW up2,
         Protocol(c, up, down, now, v, prist, torn, stale, disc), Popped(up, up2),
         Mine(up[1], c), up[1].op = "open"
  PROVE  Unopened(c, up2, stale)
<1> SUFFICES ASSUME NEW k \in Up(c, up2), up2[k].op = "open" PROVE stale
  BY DEF Unopened
<1>1. 1 \in Up(c, up) /\ Len(up) \in Nat /\ Len(up) > 0
  BY DEF Up, Popped
<1>2. k \in Nat /\ k >= 1 /\ k + 1 \in Up(c, up) /\ up2[k] = up[k + 1] /\ 1 < k + 1
  BY PopUp
<1> QED
  BY <1>1, <1>2 DEF Protocol, Course, BegunAnew

----------------------------------------------------------------------------
(* The session writes a frame *)

LEMMA PushDown ==
  ASSUME NEW c, NEW down, NEW g, NEW down2, Pushed(down, g, down2)
  PROVE  /\ Len(down) \in Nat /\ Len(down2) = Len(down) + 1
         /\ \A i \in Down(c, down) : i \in Nat /\ i <= Len(down) /\ i \in Down(c, down2) /\ down2[i] = down[i]
         /\ \A i \in Down(c, down2) : i \in Down(c, down) \/ (i = Len(down) + 1 /\ g.ch = c)
         /\ g.ch = c => Len(down) + 1 \in Down(c, down2)
         /\ down2[Len(down) + 1] = g
BY DEF Pushed, Down

DownKept(c, down, down2) ==
  /\ Down(c, down2) = Down(c, down) /\ Closes(c, down2) = Closes(c, down)
  /\ CloseOks(c, down2) = CloseOks(c, down)
  /\ \A i \in Down(c, down) : i < Len(down2) + 1 /\ i < Len(down) + 1 /\ down2[i] = down[i]

LEMMA PushOtherDown ==
  ASSUME NEW c, NEW down, NEW g, NEW down2, Pushed(down, g, down2), g.ch # c
  PROVE  DownKept(c, down, down2)
<1>1. \A i : i \in Down(c, down2) <=> i \in Down(c, down)
  BY PushDown
<1>2. \A i \in Down(c, down) : i \in Nat /\ i <= Len(down) /\ down2[i] = down[i]
  BY PushDown
<1>3. Len(down) \in Nat /\ Len(down2) = Len(down) + 1
  BY PushDown
<1>4. \A i : i \in Closes(c, down2) <=> i \in Closes(c, down)
  BY <1>1, <1>2 DEF Closes
<1>5. \A i : i \in CloseOks(c, down2) <=> i \in CloseOks(c, down)
  BY <1>1, <1>2 DEF CloseOks
<1>6. Down(c, down2) = Down(c, down) /\ Closes(c, down2) = Closes(c, down) /\ CloseOks(c, down2) = CloseOks(c, down)
  BY <1>1, <1>4, <1>5, Zenon
<1>7. \A i \in Down(c, down) : i < Len(down2) + 1 /\ i < Len(down) + 1 /\ down2[i] = down[i]
  BY <1>2, <1>3
<1> QED
  BY <1>6, <1>7, Zenon DEF DownKept

\* A frame on another channel.
LEMMA SendOther ==
  ASSUME NEW c, NEW up, NEW down, NEW now, NEW v, NEW prist, NEW torn, NEW stale, NEW disc, NEW g, NEW down2,
         Protocol(c, up, down, now, v, prist, torn, stale, disc), Pushed(down, g, down2), g.ch # c
  PROVE  Protocol(c, up, down2, now, v, prist, torn, stale, disc)
<1>1. DownKept(c, down, down2)
  BY PushOtherDown
<1>2. /\ Down(c, down2) = Down(c, down) /\ Closes(c, down2) = Closes(c, down)
      /\ CloseOks(c, down2) = CloseOks(c, down)
      /\ \A i \in Down(c, down) : i < Len(down2) + 1 /\ i < Len(down) + 1 /\ down2[i] = down[i]
  BY <1>1 DEF DownKept
<1>3. BothEnds(c, up, down2, now, v) /\ CloseOkLast(c, up, down2, now, v) /\ NoSurprise(c, down2, now, v, stale)
  BY <1>2 DEF Protocol, Course, BothEnds, CloseOkLast, NoSurprise
<1>4. StaleCloses(c, up, down2, now, v, prist, stale)
  BY <1>2 DEF Protocol, Course, StaleCloses, Torn
<1>5. Teardown(c, up, down2, now, v, prist, torn)
  <2>1. ASSUME Torn(c, up, down, now, v, prist, Len(down) + 1) PROVE Torn(c, up, down2, now, v, prist, Len(down2) + 1)
    <3>1. \A j \in CloseOks(c, down) : j \in Down(c, down)
      BY DEF CloseOks
    <3> QED
      BY <1>2, <2>1, <3>1 DEF Torn
  <2> QED
    BY <2>1 DEF Protocol, Course, Teardown
<1>6. Greeted(c, up, down2, stale)
  BY <1>2 DEF Protocol, Course, Greeted
<1> QED
  BY <1>3, <1>4, <1>5, <1>6 DEF Protocol, Course

\* A frame on a channel that is open and not being closed.
LEMMA SendOwn ==
  ASSUME NEW c, NEW up, NEW down, NEW now, NEW v, NEW prist, NEW torn, NEW stale, NEW disc, NEW g, NEW down2,
         Protocol(c, up, down, now, v, prist, torn, stale, disc), Pushed(down, g, down2), g.ch = c,
         now.at = "usable", g.op \notin {"close", "closeOk"},
         g.op = "openOk" => Unopened(c, up, stale)
  PROVE  Protocol(c, up, down2, now, v, prist, torn, stale, disc)
<1>1. now # Shut /\ now # NoRoom
  BY DEF Shut, NoRoom
<1>2. CloseOks(c, down) = {} /\ ~torn
  BY <1>1 DEF Protocol, Course, CloseOkLast, Teardown
<1>3. /\ \A i \in Down(c, down) : i \in Nat /\ i <= Len(down) /\ i \in Down(c, down2) /\ down2[i] = down[i]
      /\ \A i \in Down(c, down2) : i \in Down(c, down) \/ i = Len(down) + 1
      /\ down2[Len(down) + 1] = g
  BY PushDown
<1>4. /\ \A i \in Closes(c, down2) : i \in Closes(c, down)
      /\ \A i \in CloseOks(c, down2) : i \in CloseOks(c, down)
  <2>1. ASSUME NEW i \in Closes(c, down2) PROVE i \in Closes(c, down)
    BY <1>3 DEF Closes
  <2>2. ASSUME NEW i \in CloseOks(c, down2) PROVE i \in CloseOks(c, down)
    BY <1>3 DEF CloseOks
  <2> QED
    BY <2>1, <2>2
<1>5. BothEnds(c, up, down2, now, v) /\ CloseOkLast(c, up, down2, now, v)
  BY <1>1, <1>2, <1>4 DEF BothEnds, CloseOkLast
<1>6. NoSurprise(c, down2, now, v, stale)
  BY DEF Protocol, Course, NoSurprise
<1>7. Teardown(c, up, down2, now, v, prist, torn)
  BY <1>2 DEF Teardown
<1>8. StaleCloses(c, up, down2, now, v, prist, stale)
  <2> SUFFICES ASSUME NEW i \in Closes(c, down2) PROVE stale /\ Torn(c, up, down2, now, v, prist, i)
    BY DEF StaleCloses
  <2>1. i \in Closes(c, down) /\ i \in Down(c, down) /\ stale /\ Torn(c, up, down, now, v, prist, i)
    BY <1>1, <1>4 DEF Protocol, Course, StaleCloses, Closes
  <2>2. ASSUME NEW j \in Down(c, down2), j < i, \A m \in Down(c, down) : m < i => m \in Closes(c, down)
        PROVE  j \in Closes(c, down2)
    <3>1. j \in Down(c, down) /\ down2[j] = down[j]
      BY <2>1, <2>2, PushDown
    <3> QED
      BY <2>2, <3>1 DEF Closes
  <2> QED
    BY <1>2, <2>1, <2>2 DEF Torn
<1>9. Greeted(c, up, down2, stale)
  <2> SUFFICES ASSUME NEW i \in Down(c, down2), down2[i].op = "openOk", NEW k \in Up(c, up), up[k].op = "open"
               PROVE  stale
    BY DEF Greeted
  <2>1. CASE i \in Down(c, down)
    BY <1>3, <2>1 DEF Protocol, Course, Greeted
  <2>2. CASE i = Len(down) + 1
    BY <1>3, <2>2 DEF Unopened
  <2> QED
    BY <1>3, <2>1, <2>2
<1> QED
  BY <1>5, <1>6, <1>7, <1>8, <1>9 DEF Protocol, Course

\* What the client has in flight for a channel it owes no content on: whatever
\* of a message's pieces is among it has its publish before it.
LEMMA ShutCause ==
  ASSUME NEW c, NEW up, NEW now, NEW v, NEW st, Replays(c, up, now, v, st), InPieces(c, up, v), Len(up) \in Nat,
         v.owes \in 0 .. 2,
         now.at = "usable", now.owes = 0
  PROVE  StrayHasCause(c, up, Shut, v, FALSE)
<1>1. ASSUME NEW k \in Up(c, up) PROVE k \in 1 .. Len(up) /\ k \in Nat /\ Mine(up[k], c)
  BY DEF Up
<1>2. ASSUME NEW k \in 1 .. Len(up) + 1, NoneBefore(c, up, k) PROVE st[k - 1] = now
  <2>1. \A i \in (0 + 1) .. (k - 1) : ~Mine(up[i], c)
    BY <1>2 DEF NoneBefore, Up
  <2>2. 0 \in 0 .. Len(up) /\ k - 1 \in 0 .. Len(up) /\ 0 <= k - 1
    OBVIOUS
  <2> QED
    BY <2>1, <2>2 DEF Replays, Steady
<1>3. ASSUME NEW k \in Up(c, up), NoneBefore(c, up, k) PROVE up[k].op \notin {"header", "body"}
  <2>1. k \in 1 .. Len(up) + 1
    BY <1>1
  <2>2. st[k - 1] = now
    BY <1>2, <1>3, <2>1
  <2>3. StepAt(c, up[k], st[k - 1], st[k])
    BY <1>1 DEF Replays, Steps
  <2> QED
    BY <1>1, <2>2, <2>3 DEF StepAt, Due
<1>4. ASSUME NEW k \in Up(c, up), up[k].op = "header" PROVE HasCause(c, up, k, FALSE)
  BY <1>3, <1>4 DEF InPieces, Follows, HasCause
<1>5. ASSUME NEW k \in Up(c, up), up[k].op = "body" PROVE HasCause(c, up, k, FALSE)
  <2>1. PICK j \in Up(c, up) : j < k /\ up[j].op = "header"
    BY <1>3, <1>5 DEF InPieces, Follows
  <2>2. PICK i \in Up(c, up) : i < j /\ up[i].op = "publish"
    BY <1>4, <2>1 DEF HasCause
  <2>3. i < k
    BY <1>1, <2>1, <2>2
  <2> QED
    BY <2>2, <2>3 DEF HasCause
<1>6. ASSUME v.state = "open", v.owes # 0 PROVE HasCause(c, up, Len(up) + 1, FALSE)
  <2>1. ~NoneBefore(c, up, Len(up) + 1)
    <3> SUFFICES ASSUME NoneBefore(c, up, Len(up) + 1) PROVE FALSE
      OBVIOUS
    <3>1. st[(Len(up) + 1) - 1] = now
      BY <1>2
    <3>2. st[Len(up)] = now
      BY <3>1
    <3> QED
      BY <1>6, <3>2 DEF Replays, Agrees, Shut
  <2>2. CASE v.owes = 2
    BY <2>1, <2>2 DEF InPieces, Follows, HasCause
  <2>3. CASE v.owes = 1
    <3>1. PICK j \in Up(c, up) : j < Len(up) + 1 /\ up[j].op = "header"
      BY <2>1, <2>3 DEF InPieces, Follows
    <3>2. PICK i \in Up(c, up) : i < j /\ up[i].op = "publish"
      BY <1>4, <3>1 DEF HasCause
    <3>3. i < Len(up) + 1
      BY <1>1, <3>1, <3>2
    <3> QED
      BY <3>2, <3>3 DEF HasCause
  <2>4. v.owes = 1 \/ v.owes = 2
    BY <1>6
  <2> QED
    BY <2>2, <2>3, <2>4
<1> QED
  BY <1>4, <1>5, <1>6 DEF StrayHasCause

\* A Channel.Close for a channel at work.
AtWork(c, up, down, v) ==
  v.state \in {"open", "closing"} /\ (\A k \in Up(c, up) : up[k].op \notin Anew) /\ Closes(c, down) = {}

LEMMA SendShut ==
  ASSUME NEW c, NEW up, NEW down, NEW now, NEW v, NEW prist, NEW stale \in BOOLEAN, NEW disc \in BOOLEAN,
         NEW g, NEW down2, NEW prist2,
         Course(c, up, down, now, v, prist, stale, disc), AtWork(c, up, down, v), Pushed(down, g, down2), Len(up) \in Nat,
         g.ch = c, g.op = "close", now.at = "usable", now.owes = 0, v.owes \in 0 .. 2
  PROVE  Course(c, up, down2, Shut, v, prist2, stale, disc)
<1>1. now # Shut /\ now # NoRoom /\ NoRoom # Shut /\ Shut.at = "closing"
  BY DEF Shut, NoRoom
<1>2. Closes(c, down) = {} /\ CloseOks(c, down) = {}
  BY <1>1 DEF AtWork, Course, CloseOkLast
<1>3. v.state \in {"open", "closing"}
  BY DEF AtWork
<1>4. \A k \in Up(c, up) : up[k].op \notin Anew
  BY DEF AtWork
<1>5. PICK st : Replays(c, up, now, v, st)
  BY DEF Course, Replayed
<1>6. Replayed(c, up, Shut, v)
  <2> DEFINE tt == [k \in 0 .. Len(up) |-> Shut]
  <2>1. Shut \in Room
    BY DEF Shut, Room
  <2>2. tt \in [0 .. Len(up) -> Room] /\ tt[0] = Shut /\ tt[Len(up)] = Shut
    BY <2>1
  <2>3. \A k \in 0 .. Len(up) : tt[k] = Shut
    OBVIOUS
  <2> HIDE DEF tt
  <2>4. ASSUME NEW k \in 1 .. Len(up) PROVE StepAt(c, up[k], tt[k - 1], tt[k])
    <3>1. tt[k - 1] = Shut /\ tt[k] = Shut
      BY <2>3
    <3>2. Mine(up[k], c) => up[k].op # "open" /\ up[k].op # "closeOk"
      BY <1>4 DEF Up, Anew
    <3> QED
      BY <3>1, <3>2 DEF StepAt, Due, After, Shut
  <2>5. Steady(c, up, tt) /\ Agrees(v, Shut, Shut)
    BY <1>3, <2>3 DEF Steady, Agrees
  <2> QED
    BY <2>2, <2>4, <2>5 DEF Replayed, Replays, Steps
<1>7. /\ \A i \in Down(c, down) : i \in Nat /\ i <= Len(down) /\ down2[i] = down[i]
      /\ \A i \in Down(c, down2) : i \in Down(c, down) \/ i = Len(down) + 1
      /\ Len(down) + 1 \in Down(c, down2)
      /\ down2[Len(down) + 1] = g /\ Len(down) \in Nat
  BY PushDown
<1>8. Len(down) + 1 \in Closes(c, down2) /\ \A i \in Closes(c, down2) : i = Len(down) + 1
  <2>1. Len(down) + 1 \in Closes(c, down2)
    BY <1>7 DEF Closes
  <2>2. ASSUME NEW i \in Closes(c, down2), i # Len(down) + 1 PROVE FALSE
    <3>1. i \in Down(c, down) /\ down2[i] = down[i] /\ down2[i].op = "close"
      BY <1>7, <2>2 DEF Closes
    <3>2. i \in Closes(c, down)
      BY <3>1 DEF Closes
    <3> QED
      BY <1>2, <3>2
  <2> QED
    BY <2>1, <2>2
<1>9. CloseOks(c, down2) = {}
  <2> SUFFICES ASSUME NEW i \in CloseOks(c, down2) PROVE FALSE
    OBVIOUS
  <2>1. i \in Down(c, down2) /\ down2[i].op = "closeOk"
    BY DEF CloseOks
  <2>2. i \in Down(c, down) /\ down2[i] = down[i]
    BY <1>7, <2>1
  <2>3. i \in CloseOks(c, down)
    BY <2>1, <2>2 DEF CloseOks
  <2> QED
    BY <1>2, <2>3
<1>10. BothEnds(c, up, down2, Shut, v)
  <2>1. \A j \in Down(c, down2) : j <= Len(down) + 1 /\ (j \in Closes(c, down2) => j = Len(down) + 1)
    BY <1>7, <1>8
  <2> QED
    BY <1>3, <1>4, <1>8, <2>1 DEF BothEnds
<1>11. /\ StaleCloses(c, up, down2, Shut, v, prist2, stale)
       /\ CloseOkLast(c, up, down2, Shut, v) /\ LastWord(c, up, Shut, v)
  BY <1>9 DEF StaleCloses, Teardown, CloseOkLast, LastWord
<1>12. /\ BegunAnew(c, up, Shut, v, prist2, stale) /\ NoSurprise(c, down2, Shut, v, stale)
       /\ Attended(c, up, Shut, v, prist2) /\ Greeted(c, up, down2, stale)
  BY <1>3, <1>4 DEF BegunAnew, NoSurprise, Attended, Greeted, Anew
<1>13. InPieces(c, up, v)
  BY DEF Course
<1>14. StrayHasCause(c, up, Shut, v, disc)
  <2>1. StrayHasCause(c, up, Shut, v, FALSE)
    BY <1>5, <1>13, ShutCause
  <2> QED
    BY <2>1 DEF StrayHasCause, HasCause
<1> QED
  BY <1>6, <1>10, <1>11, <1>12, <1>13, <1>14 DEF Course

\* A Channel.Close for a channel that is gone.
AfterTheEnd(c, up, down, now, v, prist) == now = NoRoom /\ Torn(c, up, down, now, v, prist, Len(down) + 1)
Certain(fact) == fact
LEMMA SendStaleClose ==
  ASSUME NEW c, NEW up, NEW down, NEW now, NEW v, NEW prist, NEW stale, NEW disc,
         NEW g, NEW down2, NEW prist2, NEW torn2, NEW stale2, Certain(stale2),
         Course(c, up, down, now, v, prist, stale, disc), Pushed(down, g, down2),
         AfterTheEnd(c, up, down, now, v, prist), g.ch = c, g.op = "close"
  PROVE  Protocol(c, up, down2, now, v, prist2, torn2, stale2, disc)
<1>1. /\ now = NoRoom /\ now # Shut /\ now.at = "gone" /\ Torn(c, up, down, now, v, prist, Len(down) + 1)
      /\ stale2
  BY DEF Shut, NoRoom, AfterTheEnd, Certain
<1>2. /\ \A i \in Down(c, down) : i \in Nat /\ i <= Len(down) /\ i \in Down(c, down2) /\ down2[i] = down[i]
      /\ \A i \in Down(c, down2) : i \in Down(c, down) \/ i = Len(down) + 1
      /\ down2[Len(down) + 1] = g /\ Len(down) \in Nat /\ Len(down2) = Len(down) + 1
  BY PushDown
<1>3. ASSUME NEW i \in Closes(c, down) PROVE i \in Closes(c, down2)
  BY <1>2 DEF Closes
<1>4. ASSUME NEW i \in CloseOks(c, down) PROVE i \in CloseOks(c, down2) /\ i \in Nat /\ i <= Len(down)
  BY <1>2 DEF CloseOks
<1>5. ASSUME NEW i \in CloseOks(c, down2) PROVE i \in CloseOks(c, down)
  BY <1>2 DEF CloseOks
<1>6. ASSUME NEW i \in Down(c, down2) PROVE i \in Nat /\ (i \in Down(c, down) \/ i \in Closes(c, down2))
  BY <1>2 DEF Closes
<1>7. ASSUME NEW i \in Nat, i <= Len(down) + 1, Torn(c, up, down, now, v, prist, i)
      PROVE  Torn(c, up, down2, now, v, prist2, i)
  <2>1. CASE v.state = "closing" /\ \E j \in CloseOks(c, down) : j < i
    BY <1>1, <1>4, <1>7, <2>1 DEF Torn
  <2>2. CASE v.state \in {"closed", "opening"} /\ \A j \in Down(c, down) : j < i => j \in Closes(c, down)
    <3>1. ASSUME NEW j \in Down(c, down2), j < i PROVE j \in Closes(c, down2)
      BY <1>3, <1>7, <1>2, <2>2, <3>1
    <3> QED
      BY <1>1, <1>7, <2>2, <3>1 DEF Torn
  <2> QED
    BY <1>7, <2>1, <2>2 DEF Torn
<1>8. Torn(c, up, down2, now, v, prist2, Len(down2) + 1)
  <2>1. CASE v.state = "closing" /\ \E j \in CloseOks(c, down) : j < Len(down) + 1
    <3>1. \E j \in CloseOks(c, down2) : j < Len(down2) + 1
      BY <1>4, <1>2, <2>1
    <3> QED
      BY <1>1, <2>1, <3>1 DEF Torn
  <2>2. CASE v.state \in {"closed", "opening"} /\ \A j \in Down(c, down) : j < Len(down) + 1 => j \in Closes(c, down)
    <3>1. ASSUME NEW j \in Down(c, down2) PROVE j \in Closes(c, down2)
      <4>1. CASE j \in Down(c, down)
        <5>1. j < Len(down) + 1
          BY <1>2, <4>1
        <5> QED
          BY <1>3, <2>2, <4>1, <5>1
      <4> QED
        BY <1>6, <4>1
    <3> QED
      BY <1>1, <2>2, <3>1 DEF Torn
  <2> QED
    BY <1>1, <2>1, <2>2 DEF Torn
<1>9. StaleCloses(c, up, down2, now, v, prist2, stale2)
  <2> SUFFICES ASSUME NEW i \in Closes(c, down2) PROVE Torn(c, up, down2, now, v, prist2, i)
    BY <1>1 DEF StaleCloses
  <2>1. i \in Down(c, down2) /\ down2[i].op = "close"
    BY DEF Closes
  <2>2. CASE i \in Down(c, down)
    <3>1. i \in Closes(c, down) /\ i \in Nat /\ i <= Len(down) + 1
      BY <1>2, <2>1, <2>2 DEF Closes
    <3>2. Torn(c, up, down, now, v, prist, i)
      BY <1>1, <3>1 DEF Course, StaleCloses
    <3> QED
      BY <1>7, <3>1, <3>2
  <2>3. CASE i = Len(down) + 1
    BY <1>1, <1>7, <1>2, <2>3
  <2> QED
    BY <1>2, <2>1, <2>2, <2>3
<1>10. Teardown(c, up, down2, now, v, prist2, torn2)
  BY <1>1, <1>8 DEF Teardown
<1>11. CloseOkLast(c, up, down2, now, v)
  <2> SUFFICES ASSUME NEW i \in CloseOks(c, down2)
               PROVE  /\ v.state = "closing" /\ now = NoRoom /\ Up(c, up) = {}
                      /\ \A j \in Down(c, down2) : /\ j > i => j \in Closes(c, down2)
                                                   /\ j \in CloseOks(c, down2) => j = i
    BY DEF CloseOkLast
  <2>1. i \in CloseOks(c, down)
    BY <1>5
  <2>2. /\ v.state = "closing" /\ now = NoRoom /\ Up(c, up) = {}
        /\ \A j \in Down(c, down) : (j > i => j \in Closes(c, down)) /\ (j \in CloseOks(c, down) => j = i)
    BY <2>1 DEF Course, CloseOkLast
  <2>3. ASSUME NEW j \in Down(c, down2)
        PROVE  (j > i => j \in Closes(c, down2)) /\ (j \in CloseOks(c, down2) => j = i)
    <3>1. CASE j \in Down(c, down)
      BY <1>3, <1>5, <2>2, <3>1
    <3>2. CASE j = Len(down) + 1
      <4>1. j \in Closes(c, down2) /\ j \notin CloseOks(c, down2)
        BY <1>2, <2>3, <3>2 DEF Closes, CloseOks
      <4> QED
        BY <4>1
    <3> QED
      BY <1>2, <2>3, <3>1, <3>2
  <2> QED
    BY <2>2, <2>3
<1>12. /\ BegunAnew(c, up, now, v, prist2, stale2) /\ NoSurprise(c, down2, now, v, stale2)
       /\ Attended(c, up, now, v, prist2) /\ Greeted(c, up, down2, stale2)
  BY <1>1 DEF Course, BegunAnew, NoSurprise, Attended, Greeted
<1>13. BothEnds(c, up, down2, now, v)
  BY <1>1 DEF BothEnds
<1> QED
  BY <1>9, <1>10, <1>11, <1>12, <1>13 DEF Protocol, Course

\* Close-Ok, in answer to the Channel.Close the session has just read.
LEMMA PopClose ==
  ASSUME NEW c, NEW up, NEW down, NEW now, NEW v, NEW prist, NEW torn, NEW stale \in BOOLEAN, NEW disc \in BOOLEAN,
         NEW up2, NEW g, NEW down2, NEW prist2, NEW torn2,
         Protocol(c, up, down, now, v, prist, torn, stale, disc), Popped(up, up2), Pushed(down, g, down2),
         Mine(up[1], c), up[1].op = "close", now.at = "usable", g.ch = c, g.op = "closeOk"
  PROVE  Protocol(c, up2, down2, NoRoom, v, prist2, torn2, stale, disc)
<1>1. now # Shut /\ NoRoom # Shut /\ NoRoom.at = "gone" /\ After(now, up[1]) = NoRoom
  BY DEF Shut, NoRoom, After
<1>2. 1 \in Up(c, up) /\ Len(up) \in Nat /\ Len(up) > 0
  BY DEF Up, Popped
<1>3. v.state = "closing" /\ \A k \in Up(c, up) : k <= 1
  BY <1>1, <1>2 DEF Protocol, Course, LastWord
<1>4. Up(c, up2) = {}
  <2> SUFFICES ASSUME NEW k \in Up(c, up2) PROVE FALSE
    OBVIOUS
  <2>1. k \in Nat /\ k >= 1 /\ k + 1 \in Up(c, up)
    BY PopUp
  <2> QED
    BY <1>3, <2>1
<1>5. Closes(c, down) = {} /\ CloseOks(c, down) = {}
  BY <1>1, <1>2, Settling DEF Anew
<1>6. Replayed(c, up2, NoRoom, v)
  BY <1>1, PopOwnReplay DEF Protocol, Course
<1>7. /\ \A i \in Down(c, down) : i \in Nat /\ i <= Len(down) /\ down2[i] = down[i]
      /\ \A i \in Down(c, down2) : i \in Down(c, down) \/ i = Len(down) + 1
      /\ Len(down) + 1 \in Down(c, down2)
      /\ down2[Len(down) + 1] = g /\ Len(down) \in Nat /\ Len(down2) = Len(down) + 1
  BY PushDown
<1>8. Len(down) + 1 \in CloseOks(c, down2) /\ \A i \in CloseOks(c, down2) : i = Len(down) + 1
  <2>1. Len(down) + 1 \in CloseOks(c, down2)
    BY <1>7 DEF CloseOks
  <2>2. ASSUME NEW i \in CloseOks(c, down2), i # Len(down) + 1 PROVE FALSE
    <3>1. i \in Down(c, down) /\ down2[i] = down[i] /\ down2[i].op = "closeOk"
      BY <1>7, <2>2 DEF CloseOks
    <3>2. i \in CloseOks(c, down)
      BY <3>1 DEF CloseOks
    <3> QED
      BY <1>5, <3>2
  <2> QED
    BY <2>1, <2>2
<1>9. Closes(c, down2) = {}
  <2> SUFFICES ASSUME NEW i \in Closes(c, down2) PROVE FALSE
    OBVIOUS
  <2>1. i \in Down(c, down2) /\ down2[i].op = "close"
    BY DEF Closes
  <2>2. i \in Down(c, down) /\ down2[i] = down[i]
    BY <1>7, <2>1
  <2>3. i \in Closes(c, down)
    BY <2>1, <2>2 DEF Closes
  <2> QED
    BY <1>5, <2>3
<1>10. Torn(c, up2, down2, NoRoom, v, prist2, Len(down2) + 1)
  <2>1. Len(down) + 1 < Len(down2) + 1
    BY <1>7
  <2> QED
    BY <1>1, <1>3, <1>4, <1>8, <2>1 DEF Torn
<1>11. Teardown(c, up2, down2, NoRoom, v, prist2, torn2) /\ StaleCloses(c, up2, down2, NoRoom, v, prist2, stale)
  BY <1>9, <1>10 DEF Teardown, StaleCloses
<1>12. CloseOkLast(c, up2, down2, NoRoom, v)
  <2>1. \A j \in Down(c, down2) : j <= Len(down) + 1 /\ j \in Nat
    BY <1>7
  <2> QED
    BY <1>3, <1>4, <1>7, <1>8, <2>1 DEF CloseOkLast
<1>13. /\ BothEnds(c, up2, down2, NoRoom, v) /\ StrayHasCause(c, up2, NoRoom, v, disc)
       /\ BegunAnew(c, up2, NoRoom, v, prist2, stale) /\ LastWord(c, up2, NoRoom, v)
       /\ NoSurprise(c, down2, NoRoom, v, stale) /\ Attended(c, up2, NoRoom, v, prist2)
       /\ Greeted(c, up2, down2, stale)
  BY <1>1, <1>3, <1>4 DEF BothEnds, StrayHasCause, BegunAnew, LastWord, NoSurprise, Attended, Greeted
<1>14. InPieces(c, up2, v)
  BY PopPieces DEF Protocol, Course
<1> QED
  BY <1>6, <1>11, <1>12, <1>13, <1>14 DEF Protocol, Course

\* What the rest of the session makes of the channel only helps.
LEMMA Weaken ==
  ASSUME NEW c, NEW up, NEW down, NEW now, NEW v, NEW prist, NEW torn, NEW stale, NEW disc,
         NEW prist2, NEW torn2, NEW stale2, NEW disc2,
         Protocol(c, up, down, now, v, prist, torn, stale, disc),
         now.at = "usable" /\ prist => prist2, torn2 => torn, stale => stale2, disc => disc2
  PROVE  Protocol(c, up, down, now, v, prist2, torn2, stale2, disc2)
<1>1. ASSUME NEW i, Torn(c, up, down, now, v, prist, i) PROVE Torn(c, up, down, now, v, prist2, i)
  BY <1>1 DEF Torn
<1>2. StaleCloses(c, up, down, now, v, prist2, stale2) /\ Teardown(c, up, down, now, v, prist2, torn2)
  BY <1>1 DEF Protocol, Course, StaleCloses, Teardown
<1>3. /\ BegunAnew(c, up, now, v, prist2, stale2) /\ NoSurprise(c, down, now, v, stale2)
      /\ Attended(c, up, now, v, prist2) /\ Greeted(c, up, down, stale2)
  BY DEF Protocol, Course, BegunAnew, NoSurprise, Attended, Greeted
<1>4. StrayHasCause(c, up, now, v, disc2)
  BY DEF Protocol, Course, StrayHasCause, HasCause
<1> QED
  BY <1>2, <1>3, <1>4 DEF Protocol, Course

----------------------------------------------------------------------------
(* The client sends a frame *)

LEMMA PushUp ==
  ASSUME NEW c, NEW up, NEW f, NEW up2, Pushed(up, f, up2)
  PROVE  /\ Len(up) \in Nat /\ Len(up2) = Len(up) + 1
         /\ \A k \in Up(c, up) : k \in Nat /\ k >= 1 /\ k <= Len(up) /\ k \in Up(c, up2) /\ up2[k] = up[k]
         /\ \A k \in Up(c, up2) : k \in Up(c, up) \/ (k = Len(up) + 1 /\ Mine(f, c))
         /\ Mine(f, c) => Len(up) + 1 \in Up(c, up2)
         /\ up2[Len(up) + 1] = f
BY DEF Pushed, Up

UpKept(c, up, up2) ==
  /\ Up(c, up2) = Up(c, up) /\ Len(up) \in Nat /\ Len(up2) = Len(up) + 1
  /\ \A k \in Up(c, up) : k \in Nat /\ k <= Len(up) /\ up2[k] = up[k]

LEMMA PushOtherUp ==
  ASSUME NEW c, NEW up, NEW f, NEW up2, Pushed(up, f, up2), ~Mine(f, c)
  PROVE  UpKept(c, up, up2)
<1>1. \A k : k \in Up(c, up2) <=> k \in Up(c, up)
  BY PushUp
<1>2. Up(c, up2) = Up(c, up)
  BY <1>1, Zenon
<1>3. Len(up) \in Nat /\ Len(up2) = Len(up) + 1 /\ \A k \in Up(c, up) : k \in Nat /\ k <= Len(up) /\ up2[k] = up[k]
  BY PushUp
<1> QED
  BY <1>2, <1>3, Zenon DEF UpKept

LEMMA PushFollows ==
  ASSUME NEW c, NEW up, NEW f, NEW up2, NEW k \in Nat, NEW kind, Pushed(up, f, up2), k <= Len(up) + 1,
         Follows(c, up, k, kind)
  PROVE  Follows(c, up2, k, kind)
<1>1. /\ Len(up) \in Nat
      /\ \A i \in Up(c, up) : i \in Nat /\ i <= Len(up) /\ i \in Up(c, up2) /\ up2[i] = up[i]
      /\ \A i \in Up(c, up2) : i \in Up(c, up) \/ i = Len(up) + 1
  BY PushUp
<1>2. CASE NoneBefore(c, up, k)
  BY <1>1, <1>2 DEF NoneBefore, Follows
<1>3. ASSUME NEW j \in Up(c, up), j < k, up[j].op = kind, \A i \in Up(c, up) : i < k => i <= j
      PROVE  Follows(c, up2, k, kind)
  <2>1. ASSUME NEW i \in Up(c, up2), i < k PROVE i <= j
    BY <1>1, <1>3, <2>1
  <2>2. j \in Up(c, up2) /\ up2[j].op = kind
    BY <1>1, <1>3
  <2> QED
    BY <1>3, <2>1, <2>2 DEF Follows
<1> QED
  BY <1>2, <1>3 DEF Follows

\* A frame on another channel, or a goodbye.
LEMMA SayOther ==
  ASSUME NEW c, NEW up, NEW down, NEW now, NEW v, NEW prist, NEW torn, NEW stale, NEW disc, NEW f, NEW up2,
         Protocol(c, up, down, now, v, prist, torn, stale, disc), Pushed(up, f, up2), ~Mine(f, c)
  PROVE  Protocol(c, up2, down, now, v, prist, torn, stale, disc)
<1>1. UpKept(c, up, up2)
  BY PushOtherUp
<1>2. /\ Up(c, up2) = Up(c, up) /\ Len(up) \in Nat /\ Len(up2) = Len(up) + 1
      /\ \A k \in Up(c, up) : k \in Nat /\ k <= Len(up) /\ up2[k] = up[k]
  BY <1>1 DEF UpKept
<1>3. Replayed(c, up2, now, v)
  <2>1. PICK st : Replays(c, up, now, v, st)
    BY DEF Protocol, Course, Replayed
  <2>2. StepAt(c, f, st[Len(up)], st[Len(up)]) /\ st[Len(up)] \in Room /\ Agrees(v, st[Len(up)], now)
    BY <1>2, <2>1 DEF StepAt, Replays
  <2> QED
    BY <2>1, <2>2, PushReplay
<1>4. BothEnds(c, up2, down, now, v)
  BY <1>2 DEF Protocol, Course, BothEnds
<1>5. ASSUME NEW i, Torn(c, up, down, now, v, prist, i) PROVE Torn(c, up2, down, now, v, prist, i)
  BY <1>2, <1>5 DEF Torn
<1>6. StaleCloses(c, up2, down, now, v, prist, stale) /\ Teardown(c, up2, down, now, v, prist, torn)
  BY <1>5 DEF Protocol, Course, StaleCloses, Teardown
<1>7. CloseOkLast(c, up2, down, now, v)
  BY <1>2 DEF Protocol, Course, CloseOkLast
<1>8. BegunAnew(c, up2, now, v, prist, stale)
  BY <1>2 DEF Protocol, Course, BegunAnew
<1>9. LastWord(c, up2, now, v) /\ Attended(c, up2, now, v, prist) /\ Greeted(c, up2, down, stale)
  BY <1>2 DEF Protocol, Course, LastWord, Attended, Greeted
<1>10. ASSUME NEW k, NEW kind, Follows(c, up, k, kind) PROVE Follows(c, up2, k, kind)
  BY <1>2, <1>10 DEF Follows, NoneBefore
<1>11. ASSUME NEW kind, Follows(c, up, Len(up) + 1, kind) PROVE Follows(c, up2, Len(up2) + 1, kind)
  <2>1. CASE NoneBefore(c, up, Len(up) + 1)
    BY <1>2, <2>1 DEF Follows, NoneBefore
  <2>2. ASSUME NEW j \in Up(c, up), up[j].op = kind, \A i \in Up(c, up) : i < Len(up) + 1 => i <= j
        PROVE  Follows(c, up2, Len(up2) + 1, kind)
    <3>1. j < Len(up2) + 1 /\ j \in Up(c, up2) /\ up2[j].op = kind /\ \A i \in Up(c, up2) : i <= j
      BY <1>2, <2>2
    <3> QED
      BY <3>1 DEF Follows
  <2> QED
    BY <1>11, <2>1, <2>2 DEF Follows
<1>12. InPieces(c, up2, v)
  <2>1. ASSUME NEW k \in Up(c, up2)
        PROVE  /\ up2[k].op = "header" => Follows(c, up2, k, "publish")
               /\ up2[k].op = "body" => Follows(c, up2, k, "header")
    BY <1>2, <1>10 DEF Protocol, Course, InPieces
  <2>2. /\ v.owes = 2 => Follows(c, up2, Len(up2) + 1, "publish")
        /\ v.owes = 1 => Follows(c, up2, Len(up2) + 1, "header")
    BY <1>11 DEF Protocol, Course, InPieces
  <2> QED
    BY <2>1, <2>2 DEF InPieces
<1>13. StrayHasCause(c, up2, now, v, disc)
  <2> SUFFICES ASSUME now = Shut PROVE StrayHasCause(c, up2, now, v, disc)
    BY DEF StrayHasCause
  <2>1. ASSUME NEW k \in Up(c, up2), up2[k].op \in {"header", "body"} PROVE HasCause(c, up2, k, disc)
    BY <1>2, <2>1 DEF Protocol, Course, StrayHasCause, HasCause
  <2>2. ASSUME HasCause(c, up, Len(up) + 1, disc) PROVE HasCause(c, up2, Len(up2) + 1, disc)
    BY <1>2, <2>2 DEF HasCause
  <2> QED
    BY <2>1, <2>2 DEF Protocol, Course, StrayHasCause
<1> QED
  BY <1>3, <1>4, <1>6, <1>7, <1>8, <1>9, <1>12, <1>13 DEF Protocol, Course

\* What a client says on a channel it has open, and what it believes afterwards.
Says(v, f, v2) ==
  /\ v.state = "open" /\ f.op \notin Anew \cup {"bye"}
  /\ v2.state = IF f.op = "close" THEN "closing" ELSE "open"
  /\ v2.confirms = (v.confirms \/ f.op = "select")
  /\ v2.count = IF f.op = "publish" /\ v.confirms THEN v.count + 1 ELSE v.count
  /\ (f.op = "header" <=> v.owes = 2) /\ (f.op = "body" <=> v.owes = 1)
  /\ v2.owes = IF f.op = "publish" THEN 2 ELSE IF f.op = "header" THEN f.size
               ELSE IF f.op = "body" THEN 0 ELSE v.owes
  /\ f.op = "publish" => f.ord = IF v.confirms THEN v.count + 1 ELSE 0
  /\ v.owes \in 0 .. 2 /\ f.size \in 0 .. 1 /\ v.confirms \in BOOLEAN /\ v.count \in Nat

LEMMA SayReplay ==
  ASSUME NEW c, NEW up, NEW now, NEW v, NEW f, NEW up2, NEW v2, Replayed(c, up, now, v), Pushed(up, f, up2),
         f.ch = c, Says(v, f, v2)
  PROVE  Replayed(c, up2, now, v2)
<1>1. PICK st : Replays(c, up, now, v, st)
  BY DEF Replayed
<1>2. Len(up) \in Nat
  BY DEF Pushed
<1> DEFINE e == st[Len(up)]
<1>3. e \in Room /\ Agrees(v, e, now) /\ Mine(f, c)
  BY <1>1, <1>2 DEF Replays, Says, Mine
<1>4. e = Shut \/ e = [at |-> "usable", confirms |-> v.confirms, count |-> v.count, owes |-> v.owes]
  BY <1>3 DEF Agrees, Says
<1> HIDE DEF e
<1>5. CASE e = Shut
  <2>1. StepAt(c, f, e, Shut)
    BY <1>3, <1>5 DEF StepAt, Due, After, Shut, Says, Anew
  <2>2. Agrees(v2, Shut, now) /\ Shut \in Room
    BY DEF Agrees, Says, Shut, Room
  <2> QED
    BY <1>1, <1>5, <2>1, <2>2, PushReplay DEF e
<1>6. CASE e = [at |-> "usable", confirms |-> v.confirms, count |-> v.count, owes |-> v.owes]
  <2>1. e.at = "usable" /\ e.confirms = v.confirms /\ e.count = v.count /\ e.owes = v.owes
    BY <1>6
  <2>2. Due(e, f)
    BY <2>1 DEF Due, Says, Anew
  <2>3. StepAt(c, f, e, After(e, f))
    BY <1>3, <2>2 DEF StepAt
  <2>4. now # Shut
    BY <1>3, <2>1 DEF Agrees, Says, Shut
  <2>5. CASE f.op = "close"
    <3>1. After(e, f) = NoRoom /\ NoRoom \in Room /\ Agrees(v2, NoRoom, now)
      BY <2>1, <2>4, <2>5 DEF After, Says, Anew, Agrees, NoRoom, Room
    <3> QED
      BY <1>1, <2>3, <3>1, PushReplay DEF e
  <2>6. CASE f.op # "close"
    <3>1. After(e, f) = [at |-> "usable", confirms |-> v2.confirms, count |-> v2.count, owes |-> v2.owes]
      BY <2>1, <2>6 DEF After, Says, Anew
    <3>2. v2.confirms \in BOOLEAN /\ v2.count \in Nat /\ v2.owes \in 0 .. 2
      BY DEF Says
    <3>3. After(e, f) \in Room
      BY <3>1, <3>2 DEF Room
    <3>4. v2.state = "open"
      BY <2>6 DEF Says
    <3>5. Agrees(v2, After(e, f), now)
      BY <2>4, <3>1, <3>4 DEF Agrees
    <3> QED
      BY <1>1, <2>3, <3>3, <3>5, PushReplay DEF e
  <2> QED
    BY <2>5, <2>6
<1> QED
  BY <1>4, <1>5, <1>6

LEMMA SayOwn ==
  ASSUME NEW c, NEW up, NEW down, NEW now, NEW v, NEW prist, NEW torn, NEW stale, NEW disc, NEW f, NEW up2, NEW v2,
         Protocol(c, up, down, now, v, prist, torn, stale, disc), Pushed(up, f, up2), f.ch = c, Says(v, f, v2)
  PROVE  Protocol(c, up2, down, now, v2, prist, torn, stale, disc)
<1>1. Mine(f, c) /\ v.state = "open" /\ v2.state \in {"open", "closing"} /\ f.op # "open" /\ f.op # "closeOk"
  BY DEF Says, Mine, Anew
<1>2. /\ Len(up) \in Nat /\ Len(up2) = Len(up) + 1
      /\ \A k \in Up(c, up) : k \in Nat /\ k >= 1 /\ k <= Len(up) /\ k \in Up(c, up2) /\ up2[k] = up[k]
      /\ \A k \in Up(c, up2) : k \in Up(c, up) \/ k = Len(up) + 1
      /\ Len(up) + 1 \in Up(c, up2)
      /\ up2[Len(up) + 1] = f
  BY <1>1, PushUp
<1>3. Replayed(c, up2, now, v2)
  BY SayReplay DEF Protocol, Course
<1>4. BothEnds(c, up2, down, now, v2)
  <2> SUFFICES ASSUME now = Shut PROVE BothEnds(c, up2, down, now, v2)
    BY DEF BothEnds
  <2>1. /\ \A k \in Up(c, up) : up[k].op \notin Anew
        /\ \E i \in Closes(c, down) : \A j \in Down(c, down) : j <= i /\ (j \in Closes(c, down) => j = i)
    BY <1>1 DEF Protocol, Course, BothEnds
  <2>2. \A k \in Up(c, up2) : up2[k].op \notin Anew
    BY <1>1, <1>2, <2>1 DEF Anew
  <2> QED
    BY <1>1, <2>1, <2>2 DEF BothEnds
<1>5. now # Shut => Closes(c, down) = {}
  BY <1>1 DEF Protocol, Course, StaleCloses, Torn
<1>6. ~torn /\ CloseOks(c, down) = {}
  BY <1>1 DEF Protocol, Course, Teardown, Torn, CloseOkLast
<1>7. /\ StaleCloses(c, up2, down, now, v2, prist, stale) /\ Teardown(c, up2, down, now, v2, prist, torn)
      /\ CloseOkLast(c, up2, down, now, v2)
  BY <1>5, <1>6 DEF StaleCloses, Teardown, CloseOkLast
<1>8. BegunAnew(c, up2, now, v2, prist, stale)
  <2>1. ASSUME now # Shut, NEW k \in Up(c, up2), up2[k].op \in Anew
        PROVE  /\ \A j \in Up(c, up2) : j < k => up2[j].op \in Anew
               /\ now.at = "usable" => stale /\ prist
               /\ up2[k].op = "closeOk" => stale
    <3>1. k \in Up(c, up) /\ up2[k] = up[k]
      BY <1>1, <1>2, <2>1 DEF Anew
    <3>2. ASSUME NEW j \in Up(c, up2), j < k PROVE up2[j].op \in Anew
      <4>1. j \in Up(c, up) /\ up2[j] = up[j]
        BY <1>2, <3>1, <3>2
      <4> QED
        BY <2>1, <3>1, <3>2, <4>1 DEF Protocol, Course, BegunAnew
    <3> QED
      BY <2>1, <3>1, <3>2 DEF Protocol, Course, BegunAnew
  <2>2. ASSUME NEW k \in Up(c, up2), up2[k].op = "open" PROVE stale
    <3>1. k \in Up(c, up) /\ up2[k] = up[k]
      BY <1>1, <1>2, <2>2
    <3> QED
      BY <1>1, <2>2, <3>1 DEF Protocol, Course, BegunAnew
  <2> QED
    BY <2>1, <2>2 DEF BegunAnew
<1>9. LastWord(c, up2, now, v2)
  <2> SUFFICES ASSUME now # Shut, NEW k \in Up(c, up2), up2[k].op = "close"
               PROVE  v2.state = "closing" /\ \A j \in Up(c, up2) : j <= k
    BY DEF LastWord
  <2>1. k \notin Up(c, up)
    BY <1>1, <1>2 DEF Protocol, Course, LastWord
  <2>2. k = Len(up) + 1 /\ f.op = "close"
    BY <1>2, <2>1
  <2> QED
    BY <1>2, <2>2 DEF Says
<1>10. NoSurprise(c, down, now, v2, stale) /\ Attended(c, up2, now, v2, prist)
  BY <1>1 DEF NoSurprise, Attended
<1>11. Greeted(c, up2, down, stale)
  BY <1>1, <1>2 DEF Protocol, Course, Greeted
<1>12. InPieces(c, up2, v2)
  <2>1. ASSUME NEW k \in Up(c, up2)
        PROVE  /\ up2[k].op = "header" => Follows(c, up2, k, "publish")
               /\ up2[k].op = "body" => Follows(c, up2, k, "header")
    <3>1. CASE k \in Up(c, up)
      <4>1. k \in Nat /\ k <= Len(up) + 1 /\ up2[k] = up[k]
        BY <1>2, <3>1
      <4> QED
        BY <3>1, <4>1, PushFollows DEF Protocol, Course, InPieces
    <3>2. CASE k = Len(up) + 1
      <4>1. k \in Nat /\ k <= Len(up) + 1 /\ up2[k] = f
        BY <1>2, <3>2
      <4>2. /\ f.op = "header" => Follows(c, up, k, "publish")
            /\ f.op = "body" => Follows(c, up, k, "header")
        BY <3>2 DEF Protocol, Course, InPieces, Says
      <4> QED
        BY <4>1, <4>2, PushFollows
    <3> QED
      BY <1>2, <3>1, <3>2
  <2>2. ASSUME NEW kind, f.op = kind PROVE Follows(c, up2, Len(up2) + 1, kind)
    <3>1. Len(up) + 1 < Len(up2) + 1 /\ \A i \in Up(c, up2) : i <= Len(up) + 1
      BY <1>2
    <3> QED
      BY <1>2, <2>2, <3>1 DEF Follows
  <2>3. (v2.owes = 2 => f.op = "publish") /\ (v2.owes = 1 => f.op = "header")
    BY DEF Says
  <2> QED
    BY <2>1, <2>2, <2>3 DEF InPieces
<1>13. StrayHasCause(c, up2, now, v2, disc)
  <2> SUFFICES ASSUME now = Shut PROVE StrayHasCause(c, up2, now, v2, disc)
    BY DEF StrayHasCause
  <2>1. ASSUME NEW k, HasCause(c, up, k, disc) PROVE HasCause(c, up2, k, disc)
    BY <1>2, <2>1 DEF HasCause
  <2>2. f.op \in {"header", "body"} => HasCause(c, up, Len(up) + 1, disc)
    BY <1>1 DEF Protocol, Course, StrayHasCause, Says
  <2>3. ASSUME NEW k \in Up(c, up2), up2[k].op \in {"header", "body"} PROVE HasCause(c, up2, k, disc)
    <3>1. CASE k \in Up(c, up)
      BY <1>2, <2>1, <2>3, <3>1 DEF Protocol, Course, StrayHasCause
    <3>2. CASE k = Len(up) + 1
      BY <1>2, <2>1, <2>2, <2>3, <3>2
    <3> QED
      BY <1>2, <3>1, <3>2
  <2>4. ASSUME v2.owes # 0 PROVE HasCause(c, up2, Len(up2) + 1, disc)
    <3>1. CASE f.op = "publish"
      <4>1. Len(up) + 1 < Len(up2) + 1
        BY <1>2
      <4> QED
        BY <1>2, <3>1, <4>1 DEF HasCause
    <3>2. CASE f.op = "header"
      <4>1. HasCause(c, up, Len(up) + 1, disc)
        BY <2>2, <3>2
      <4>2. CASE disc
        BY <4>2 DEF HasCause
      <4>3. ASSUME NEW j \in Up(c, up), j < Len(up) + 1, up[j].op = "publish" PROVE HasCause(c, up2, Len(up2) + 1, disc)
        <5>1. j \in Up(c, up2) /\ j < Len(up2) + 1 /\ up2[j].op = "publish"
          BY <1>2, <4>3
        <5> QED
          BY <5>1 DEF HasCause
      <4> QED
        BY <4>1, <4>2, <4>3 DEF HasCause
    <3> QED
      BY <2>4, <3>1, <3>2 DEF Says
  <2> QED
    BY <2>3, <2>4 DEF StrayHasCause
<1> QED
  BY <1>3, <1>4, <1>7, <1>8, <1>9, <1>10, <1>11, <1>12, <1>13 DEF Protocol, Course

\* Channel.Open, on a channel it holds closed.
LEMMA SayOpen ==
  ASSUME NEW c, NEW up, NEW down, NEW now, NEW v, NEW prist, NEW torn, NEW stale, NEW disc, NEW f, NEW up2, NEW v2,
         Protocol(c, up, down, now, v, prist, torn, stale, disc), Pushed(up, f, up2), f.ch = c, f.op = "open",
         v.state = "closed", v2.state = "opening", v2.confirms = FALSE, v2.count = 0, v2.owes = 0
  PROVE  Protocol(c, up2, down, now, v2, prist, torn, stale, disc)
<1>1. /\ Len(up) \in Nat /\ Len(up2) = Len(up) + 1
      /\ \A k \in Up(c, up) : k \in Nat /\ k >= 1 /\ k <= Len(up) /\ k \in Up(c, up2) /\ up2[k] = up[k]
      /\ \A k \in Up(c, up2) : k \in Up(c, up) \/ k = Len(up) + 1
      /\ Len(up) + 1 \in Up(c, up2)
      /\ up2[Len(up) + 1] = f /\ Mine(f, c)
  BY PushUp DEF Mine
<1>2. Replayed(c, up2, now, v2)
  <2>1. PICK st : Replays(c, up, now, v, st)
    BY DEF Protocol, Course, Replayed
  <2>2. st[Len(up)] = NoRoom
    BY <2>1 DEF Replays, Agrees
  <2>3. StepAt(c, f, NoRoom, Fresh)
    BY <1>1 DEF StepAt, Due, After, NoRoom, Fresh
  <2>4. Fresh \in Room /\ Agrees(v2, Fresh, now)
    BY DEF Agrees, Fresh, Room
  <2> QED
    BY <2>1, <2>2, <2>3, <2>4, PushReplay
<1>3. BothEnds(c, up2, down, now, v2)
  <2> SUFFICES ASSUME now = Shut PROVE BothEnds(c, up2, down, now, v2)
    BY DEF BothEnds
  <2>1. PICK k \in Up(c, up) : /\ Down(c, down) = {} /\ up[k].op = "closeOk"
                               /\ \A j \in Up(c, up) : /\ j < k => up[j].op \notin Anew
                                                       /\ j > k => up[j].op = "open"
    BY DEF Protocol, Course, BothEnds
  <2>2. k \in Up(c, up2) /\ up2[k].op = "closeOk"
    BY <1>1, <2>1
  <2>3. ASSUME NEW j \in Up(c, up2) PROVE (j < k => up2[j].op \notin Anew) /\ (j > k => up2[j].op = "open")
    BY <1>1, <2>1
  <2> QED
    BY <2>1, <2>2, <2>3 DEF BothEnds
<1>4. CloseOks(c, down) = {}
  BY DEF Protocol, Course, CloseOkLast
<1>5. ASSUME NEW i, Torn(c, up, down, now, v, prist, i) PROVE Torn(c, up2, down, now, v2, prist, i)
  <2>1. \A k \in Up(c, up2) : up2[k].op \in Anew
    BY <1>1, <1>5 DEF Torn, Anew
  <2> QED
    BY <1>5, <2>1 DEF Torn
<1>6. /\ StaleCloses(c, up2, down, now, v2, prist, stale) /\ Teardown(c, up2, down, now, v2, prist, torn)
      /\ CloseOkLast(c, up2, down, now, v2)
  BY <1>4, <1>5 DEF Protocol, Course, StaleCloses, Teardown, CloseOkLast
<1>7. now # Shut => (\A k \in Up(c, up2) : up2[k].op \in Anew) /\ (now.at = "usable" => stale /\ prist)
  BY <1>1 DEF Protocol, Course, Attended, NoSurprise, Anew
<1>8. BegunAnew(c, up2, now, v2, prist, stale)
  <2>1. ASSUME now # Shut, NEW k \in Up(c, up2), up2[k].op = "closeOk" PROVE stale
    <3>1. k \in Up(c, up) /\ up2[k] = up[k]
      BY <1>1, <2>1
    <3> QED
      BY <2>1, <3>1 DEF Protocol, Course, BegunAnew, Anew
  <2>2. ASSUME NEW j \in Up(c, up), up[j].op = "open" PROVE stale
    BY <2>2 DEF Protocol, Course, BegunAnew
  <2>3. ASSUME NEW k \in Up(c, up2), NEW j \in Up(c, up2), j < k, up2[j].op = "open" PROVE stale
    <3>1. j \in Up(c, up) /\ up2[j] = up[j]
      BY <1>1, <2>3
    <3> QED
      BY <2>2, <2>3, <3>1
  <2> QED
    BY <1>7, <2>1, <2>3 DEF BegunAnew
<1>9. LastWord(c, up2, now, v2)
  BY <1>7 DEF LastWord, Anew
<1>10. NoSurprise(c, down, now, v2, stale) /\ Attended(c, up2, now, v2, prist)
  BY <1>7 DEF NoSurprise, Attended
<1>11. Greeted(c, up2, down, stale)
  BY DEF Protocol, Course, Greeted, NoSurprise
<1>12. InPieces(c, up2, v2)
  <2>1. ASSUME NEW k \in Up(c, up2)
        PROVE  /\ up2[k].op = "header" => Follows(c, up2, k, "publish")
               /\ up2[k].op = "body" => Follows(c, up2, k, "header")
    <3>1. CASE k \in Up(c, up)
      <4>1. k \in Nat /\ k <= Len(up) + 1 /\ up2[k] = up[k]
        BY <1>1, <3>1
      <4> QED
        BY <3>1, <4>1, PushFollows DEF Protocol, Course, InPieces
    <3> QED
      BY <1>1, <3>1
  <2> QED
    BY <2>1 DEF InPieces
<1>13. StrayHasCause(c, up2, now, v2, disc)
  <2>1. ASSUME NEW k, HasCause(c, up, k, disc) PROVE HasCause(c, up2, k, disc)
    BY <1>1, <2>1 DEF HasCause
  <2> QED
    BY <1>1, <2>1 DEF Protocol, Course, StrayHasCause
<1> QED
  BY <1>2, <1>3, <1>6, <1>8, <1>9, <1>10, <1>11, <1>12, <1>13 DEF Protocol, Course

----------------------------------------------------------------------------
(* The client reads a frame *)

LEMMA PopDown ==
  ASSUME NEW c, NEW down, NEW down2, Popped(down, down2)
  PROVE  /\ Len(down) \in Nat /\ Len(down2) + 1 = Len(down)
         /\ \A i \in Down(c, down2) : i \in Nat /\ i >= 1 /\ i + 1 \in Down(c, down) /\ down2[i] = down[i + 1]
         /\ \A i \in Down(c, down) : i \in Nat /\ i >= 1 /\ (i # 1 => i - 1 \in Down(c, down2) /\ down2[i - 1] = down[i])
BY DEF Popped, Down

LEMMA PopDownKinds ==
  ASSUME NEW c, NEW down, NEW down2, Popped(down, down2)
  PROVE  /\ \A i \in Closes(c, down2) : i + 1 \in Closes(c, down) /\ i \in Down(c, down2)
         /\ \A i \in Closes(c, down) : i # 1 => i - 1 \in Closes(c, down2)
         /\ \A i \in CloseOks(c, down2) : i + 1 \in CloseOks(c, down) /\ i \in Down(c, down2)
         /\ \A i \in CloseOks(c, down) : i # 1 => i - 1 \in CloseOks(c, down2)
<1>1. /\ \A i \in Down(c, down2) : i \in Nat /\ i >= 1 /\ i + 1 \in Down(c, down) /\ down2[i] = down[i + 1]
      /\ \A i \in Down(c, down) : i \in Nat /\ i >= 1 /\ (i # 1 => i - 1 \in Down(c, down2) /\ down2[i - 1] = down[i])
  BY PopDown
<1>2. ASSUME NEW i \in Closes(c, down2) PROVE i + 1 \in Closes(c, down) /\ i \in Down(c, down2)
  BY <1>1 DEF Closes
<1>3. ASSUME NEW i \in Closes(c, down), i # 1 PROVE i - 1 \in Closes(c, down2)
  BY <1>1, <1>3 DEF Closes
<1>4. ASSUME NEW i \in CloseOks(c, down2) PROVE i + 1 \in CloseOks(c, down) /\ i \in Down(c, down2)
  BY <1>1 DEF CloseOks
<1>5. ASSUME NEW i \in CloseOks(c, down), i # 1 PROVE i - 1 \in CloseOks(c, down2)
  BY <1>1, <1>5 DEF CloseOks
<1> QED
  BY <1>2, <1>3, <1>4, <1>5

\* What it believes of the channel, its deliveries aside.
SameView(v, v2) == v2.state = v.state /\ v2.confirms = v.confirms /\ v2.count = v.count /\ v2.owes = v.owes

LEMMA PopDownTorn ==
  ASSUME NEW c, NEW up, NEW down, NEW now, NEW v, NEW prist, NEW i \in Nat, NEW down2, NEW v2,
         Popped(down, down2), Torn(c, up, down, now, v, prist, i + 1), v2.state = v.state,
         1 \in CloseOks(c, down) => v.state # "closing"
  PROVE  Torn(c, up, down2, now, v2, prist, i)
<1>1. /\ \A j \in Down(c, down2) : j \in Nat /\ j >= 1 /\ j + 1 \in Down(c, down)
      /\ \A j \in Down(c, down) : j \in Nat
  BY PopDown
<1>2. /\ \A j \in Closes(c, down) : j # 1 => j - 1 \in Closes(c, down2)
      /\ \A j \in CloseOks(c, down) : j # 1 => j - 1 \in CloseOks(c, down2)
  BY PopDownKinds
<1>3. CASE v.state = "closing" /\ \E j \in CloseOks(c, down) : j < i + 1
  <2>1. PICK j \in CloseOks(c, down) : j < i + 1
    BY <1>3
  <2>2. j - 1 \in CloseOks(c, down2) /\ j \in Nat
    BY <1>1, <1>2, <1>3, <2>1 DEF CloseOks
  <2>3. j - 1 < i
    BY <2>1, <2>2
  <2> QED
    BY <1>3, <2>2, <2>3 DEF Torn
<1>4. CASE v.state \in {"closed", "opening"} /\ \A j \in Down(c, down) : j < i + 1 => j \in Closes(c, down)
  <2>1. ASSUME NEW j \in Down(c, down2), j < i PROVE j \in Closes(c, down2)
    <3>1. j + 1 \in Closes(c, down) /\ j + 1 # 1 /\ (j + 1) - 1 = j
      BY <1>1, <1>4, <2>1
    <3> QED
      BY <1>2, <3>1
  <2> QED
    BY <1>4, <2>1 DEF Torn
<1> QED
  BY <1>3, <1>4 DEF Torn

\* A frame of another channel, one on a channel it holds closed, or one that
\* neither opens nor closes.
LEMMA HearOther ==
  ASSUME NEW c, NEW up, NEW down, NEW now, NEW v, NEW prist, NEW torn, NEW stale, NEW disc, NEW down2, NEW v2,
         Protocol(c, up, down, now, v, prist, torn, stale, disc), Popped(down, down2), SameView(v, v2),
         down[1].ch = c /\ v.state # "closed" => down[1].op \notin {"close", "closeOk"}
  PROVE  Protocol(c, up, down2, now, v2, prist, torn, stale, disc)
<1>1. /\ Len(down) \in Nat /\ Len(down2) + 1 = Len(down)
      /\ \A i \in Down(c, down2) : i \in Nat /\ i >= 1 /\ i + 1 \in Down(c, down) /\ down2[i] = down[i + 1]
      /\ \A i \in Down(c, down) : i \in Nat /\ i >= 1 /\ (i # 1 => i - 1 \in Down(c, down2) /\ down2[i - 1] = down[i])
  BY PopDown
<1>2. /\ \A i \in Closes(c, down2) : i + 1 \in Closes(c, down) /\ i \in Down(c, down2)
      /\ \A i \in Closes(c, down) : i # 1 => i - 1 \in Closes(c, down2)
      /\ \A i \in CloseOks(c, down2) : i + 1 \in CloseOks(c, down) /\ i \in Down(c, down2)
      /\ \A i \in CloseOks(c, down) : i # 1 => i - 1 \in CloseOks(c, down2)
  BY PopDownKinds
<1>3. 1 \in Closes(c, down) \/ 1 \in CloseOks(c, down) => v.state = "closed"
  BY DEF Closes, CloseOks, Down
<1>4. Replayed(c, up, now, v2)
  <2>1. PICK st : Replays(c, up, now, v, st)
    BY DEF Protocol, Course, Replayed
  <2>2. Agrees(v2, st[Len(up)], now)
    BY <2>1 DEF Replays, Agrees, SameView
  <2> QED
    BY <2>1, <2>2 DEF Replays, Replayed
<1>5. BothEnds(c, up, down2, now, v2)
  <2> SUFFICES ASSUME now = Shut PROVE BothEnds(c, up, down2, now, v2)
    BY DEF BothEnds
  <2>1. CASE /\ v.state \in {"open", "closing"}
             /\ \A k \in Up(c, up) : up[k].op \notin Anew
             /\ \E i \in Closes(c, down) : \A j \in Down(c, down) : j <= i /\ (j \in Closes(c, down) => j = i)
    <3>1. PICK i \in Closes(c, down) : \A j \in Down(c, down) : j <= i /\ (j \in Closes(c, down) => j = i)
      BY <2>1
    <3>2. i # 1 /\ i \in Nat /\ i - 1 \in Closes(c, down2)
      BY <1>1, <1>2, <1>3, <2>1 DEF Closes
    <3>3. ASSUME NEW j \in Down(c, down2) PROVE j <= i - 1 /\ (j \in Closes(c, down2) => j = i - 1)
      <4>1. j \in Nat /\ j + 1 \in Down(c, down) /\ (j \in Closes(c, down2) => j + 1 \in Closes(c, down))
        BY <1>1, <1>2
      <4> QED
        BY <3>1, <3>2, <4>1
    <3> QED
      BY <2>1, <3>2, <3>3 DEF BothEnds, SameView
  <2>2. CASE v.state \in {"closed", "opening"} /\ Down(c, down) = {}
    <3>1. Down(c, down2) = {}
      BY <1>1, <2>2
    <3> QED
      BY <2>2, <3>1 DEF Protocol, Course, BothEnds, SameView
  <2> QED
    BY <2>1, <2>2 DEF Protocol, Course, BothEnds
<1>6. 1 \in CloseOks(c, down) => v.state # "closing"
  BY <1>3
<1>7. StaleCloses(c, up, down2, now, v2, prist, stale)
  <2> SUFFICES ASSUME now # Shut, NEW i \in Closes(c, down2) PROVE stale /\ Torn(c, up, down2, now, v2, prist, i)
    BY DEF StaleCloses
  <2>1. i \in Nat /\ i + 1 \in Closes(c, down)
    BY <1>1, <1>2
  <2>2. stale /\ Torn(c, up, down, now, v, prist, i + 1)
    BY <2>1 DEF Protocol, Course, StaleCloses
  <2> QED
    BY <1>6, <2>1, <2>2, PopDownTorn DEF SameView
<1>8. Teardown(c, up, down2, now, v2, prist, torn)
  <2> SUFFICES ASSUME torn PROVE now = NoRoom /\ Torn(c, up, down2, now, v2, prist, Len(down2) + 1)
    BY DEF Teardown
  <2>1. now = NoRoom /\ Torn(c, up, down, now, v, prist, Len(down) + 1)
    BY DEF Protocol, Course, Teardown
  <2>2. Len(down2) + 1 \in Nat /\ (Len(down2) + 1) + 1 = Len(down) + 1
    BY <1>1 DEF Popped
  <2> QED
    BY <1>6, <2>1, <2>2, PopDownTorn DEF SameView
<1>9. CloseOkLast(c, up, down2, now, v2)
  <2> SUFFICES ASSUME NEW i \in CloseOks(c, down2)
               PROVE  /\ v2.state = "closing" /\ now = NoRoom /\ Up(c, up) = {}
                      /\ \A j \in Down(c, down2) : /\ j > i => j \in Closes(c, down2)
                                                   /\ j \in CloseOks(c, down2) => j = i
    BY DEF CloseOkLast
  <2>1. i \in Nat /\ i + 1 \in CloseOks(c, down)
    BY <1>1, <1>2
  <2>2. /\ v.state = "closing" /\ now = NoRoom /\ Up(c, up) = {}
        /\ \A j \in Down(c, down) : /\ j > i + 1 => j \in Closes(c, down)
                                    /\ j \in CloseOks(c, down) => j = i + 1
    BY <2>1 DEF Protocol, Course, CloseOkLast
  <2>3. ASSUME NEW j \in Down(c, down2)
        PROVE  (j > i => j \in Closes(c, down2)) /\ (j \in CloseOks(c, down2) => j = i)
    <3>1. j \in Nat /\ j >= 1 /\ j + 1 \in Down(c, down) /\ (j + 1) - 1 = j /\ j + 1 # 1
      BY <1>1
    <3>2. j > i => j + 1 \in Closes(c, down)
      BY <2>1, <2>2, <3>1
    <3>3. j \in CloseOks(c, down2) => j + 1 \in CloseOks(c, down)
      BY <1>2
    <3>4. j \in CloseOks(c, down2) => j + 1 = i + 1
      BY <2>2, <3>1, <3>3
    <3>5. j + 1 \in Closes(c, down) => j \in Closes(c, down2)
      BY <1>2, <3>1
    <3> QED
      BY <2>1, <3>1, <3>2, <3>4, <3>5
  <2> QED
    BY <2>2, <2>3 DEF SameView
<1>10. BegunAnew(c, up, now, v2, prist, stale) /\ LastWord(c, up, now, v2) /\ Attended(c, up, now, v2, prist)
  BY DEF Protocol, Course, BegunAnew, LastWord, Attended, SameView
<1>11. NoSurprise(c, down2, now, v2, stale)
  BY <1>1 DEF Protocol, Course, NoSurprise, SameView
<1>12. Greeted(c, up, down2, stale)
  BY <1>1 DEF Protocol, Course, Greeted
<1>13. InPieces(c, up, v2) /\ StrayHasCause(c, up, now, v2, disc)
  BY DEF Protocol, Course, InPieces, StrayHasCause, SameView
<1> QED
  BY <1>4, <1>5, <1>7, <1>8, <1>9, <1>10, <1>11, <1>12, <1>13 DEF Protocol, Course

\* Open-Ok, on a channel it is opening.
LEMMA HearOpenOk ==
  ASSUME NEW c, NEW up, NEW down, NEW now, NEW v, NEW prist, NEW torn, NEW stale, NEW disc, NEW down2, NEW v2,
         Protocol(c, up, down, now, v, prist, torn, stale, disc), Popped(down, down2),
         down[1].ch = c, down[1].op = "openOk", v.state = "opening", v2.state = "open",
         v2.confirms = v.confirms, v2.count = v.count, v2.owes = v.owes, v.confirms \in BOOLEAN
  PROVE  Protocol(c, up, down2, now, v2, prist, torn, stale, disc)
<1>1. \A i \in Down(c, down2) : i \in Nat /\ i >= 1 /\ i + 1 \in Down(c, down) /\ down2[i] = down[i + 1]
  BY PopDown
<1>2. 1 \in Down(c, down) /\ 1 \notin Closes(c, down) /\ Len(down) \in Nat /\ Len(down) > 0
  BY DEF Down, Popped, Closes
<1>3. now # Shut
  BY <1>2 DEF Protocol, Course, BothEnds
<1>4. Closes(c, down) = {}
  <2> SUFFICES ASSUME NEW i \in Closes(c, down) PROVE FALSE
    OBVIOUS
  <2>1. i \in Nat /\ i >= 1 /\ i # 1
    BY <1>2 DEF Closes, Down
  <2>2. Torn(c, up, down, now, v, prist, i)
    BY <1>3 DEF Protocol, Course, StaleCloses
  <2> QED
    BY <1>2, <2>1, <2>2 DEF Torn
<1>5. ~torn
  <2> SUFFICES ASSUME torn PROVE FALSE
    OBVIOUS
  <2>1. Torn(c, up, down, now, v, prist, Len(down) + 1) /\ 1 < Len(down) + 1
    BY <1>2 DEF Protocol, Course, Teardown
  <2> QED
    BY <1>2, <2>1 DEF Torn
<1>6. CloseOks(c, down) = {}
  BY DEF Protocol, Course, CloseOkLast
<1>7. Closes(c, down2) = {} /\ CloseOks(c, down2) = {}
  <2>1. /\ \A i \in Closes(c, down2) : i + 1 \in Closes(c, down)
        /\ \A i \in CloseOks(c, down2) : i + 1 \in CloseOks(c, down)
    BY PopDownKinds
  <2> QED
    BY <1>4, <1>6, <2>1
<1>8. Replayed(c, up, now, v2)
  <2>1. PICK st : Replays(c, up, now, v, st)
    BY DEF Protocol, Course, Replayed
  <2>2. Agrees(v2, st[Len(up)], now)
    BY <1>3, <2>1 DEF Replays, Agrees, Fresh
  <2> QED
    BY <2>1, <2>2 DEF Replays, Replayed
<1>9. /\ BothEnds(c, up, down2, now, v2) /\ StaleCloses(c, up, down2, now, v2, prist, stale)
      /\ Teardown(c, up, down2, now, v2, prist, torn) /\ CloseOkLast(c, up, down2, now, v2)
      /\ StrayHasCause(c, up, now, v2, disc) /\ NoSurprise(c, down2, now, v2, stale)
      /\ Attended(c, up, now, v2, prist)
  BY <1>3, <1>5, <1>7
     DEF BothEnds, StaleCloses, Teardown, CloseOkLast, StrayHasCause, NoSurprise, Attended
<1>10. BegunAnew(c, up, now, v2, prist, stale)
  <2>1. ASSUME NEW k \in Up(c, up), up[k].op = "open" PROVE stale
    BY <1>2, <2>1 DEF Protocol, Course, Greeted
  <2> QED
    BY <2>1 DEF Protocol, Course, BegunAnew
<1>11. LastWord(c, up, now, v2) /\ InPieces(c, up, v2)
  BY <1>3 DEF Protocol, Course, LastWord, InPieces
<1>12. Greeted(c, up, down2, stale)
  BY <1>1 DEF Protocol, Course, Greeted
<1> QED
  BY <1>8, <1>9, <1>10, <1>11, <1>12 DEF Protocol, Course

\* Close-Ok.
LEMMA HearCloseOk ==
  ASSUME NEW c, NEW up, NEW down, NEW now, NEW v, NEW prist, NEW torn, NEW stale, NEW disc, NEW down2, NEW v2,
         Protocol(c, up, down, now, v, prist, torn, stale, disc), Popped(down, down2), Len(up) \in Nat,
         down[1].ch = c, down[1].op = "closeOk", v2.state = "closed", v2.owes = 0
  PROVE  Protocol(c, up, down2, now, v2, prist, torn, stale, disc)
<1>1. /\ Len(down) \in Nat /\ Len(down2) + 1 = Len(down)
      /\ \A i \in Down(c, down2) : i \in Nat /\ i >= 1 /\ i + 1 \in Down(c, down) /\ down2[i] = down[i + 1]
  BY PopDown
<1>2. 1 \in CloseOks(c, down)
  BY DEF Down, Popped, CloseOks
<1>3. /\ v.state = "closing" /\ now = NoRoom /\ Up(c, up) = {}
      /\ \A j \in Down(c, down) : (j > 1 => j \in Closes(c, down)) /\ (j \in CloseOks(c, down) => j = 1)
  BY <1>2 DEF Protocol, Course, CloseOkLast
<1>4. now # Shut /\ now.at = "gone"
  BY <1>3 DEF NoRoom, Shut
<1>5. \A j \in Down(c, down2) : j \in Closes(c, down2) /\ stale
  <2> SUFFICES ASSUME NEW j \in Down(c, down2) PROVE j \in Closes(c, down2) /\ stale
    OBVIOUS
  <2>1. j \in Nat /\ j >= 1 /\ j + 1 \in Down(c, down) /\ j + 1 > 1 /\ j + 1 # 1 /\ (j + 1) - 1 = j
    BY <1>1
  <2>2. j + 1 \in Closes(c, down)
    BY <1>3, <2>1
  <2>3. \A i \in Closes(c, down) : i # 1 => i - 1 \in Closes(c, down2)
    BY PopDownKinds
  <2> QED
    BY <1>4, <2>1, <2>2, <2>3 DEF Protocol, Course, StaleCloses
<1>6. CloseOks(c, down2) = {}
  <2> SUFFICES ASSUME NEW i \in CloseOks(c, down2) PROVE FALSE
    OBVIOUS
  <2>1. i \in Nat /\ i >= 1 /\ i + 1 \in Down(c, down) /\ i + 1 \in CloseOks(c, down)
    <3>1. i + 1 \in CloseOks(c, down) /\ i \in Down(c, down2)
      BY PopDownKinds
    <3> QED
      BY <1>1, <3>1
  <2>2. i + 1 = 1
    BY <1>3, <2>1
  <2> QED
    BY <2>1, <2>2
<1>7. Replayed(c, up, now, v2)
  <2>1. PICK st : Replays(c, up, now, v, st)
    BY DEF Protocol, Course, Replayed
  <2>2. st[0] = st[Len(up)]
    <3>1. \A i \in (0 + 1) .. Len(up) : ~Mine(up[i], c)
      BY <1>3 DEF Up
    <3>2. 0 \in 0 .. Len(up) /\ Len(up) \in 0 .. Len(up) /\ 0 <= Len(up)
      OBVIOUS
    <3> QED
      BY <2>1, <3>1, <3>2 DEF Replays, Steady
  <2>3. Agrees(v2, st[Len(up)], now)
    BY <1>3, <2>1, <2>2 DEF Replays, Agrees
  <2> QED
    BY <2>1, <2>3 DEF Replays, Replayed
<1>8. \A i : Torn(c, up, down2, now, v2, prist, i)
  BY <1>3, <1>4, <1>5 DEF Torn
<1>9. StaleCloses(c, up, down2, now, v2, prist, stale) /\ Teardown(c, up, down2, now, v2, prist, torn)
  BY <1>3, <1>5, <1>8 DEF StaleCloses, Teardown, Closes
<1>10. /\ BothEnds(c, up, down2, now, v2) /\ CloseOkLast(c, up, down2, now, v2)
      /\ StrayHasCause(c, up, now, v2, disc) /\ Greeted(c, up, down2, stale)
      /\ BegunAnew(c, up, now, v2, prist, stale) /\ LastWord(c, up, now, v2)
      /\ Attended(c, up, now, v2, prist)
  BY <1>3, <1>4, <1>6
     DEF BothEnds, CloseOkLast, StrayHasCause, Greeted, BegunAnew, LastWord, Attended
<1>11. NoSurprise(c, down2, now, v2, stale)
  BY <1>4, <1>5 DEF NoSurprise
<1>12. InPieces(c, up, v2)
  BY <1>3 DEF InPieces
<1> QED
  BY <1>7, <1>9, <1>10, <1>11, <1>12 DEF Protocol, Course

\* Channel.Close: the channel is closed, and the answer is on its way.
LEMMA HearClose ==
  ASSUME NEW c, NEW up, NEW down, NEW now, NEW v, NEW prist, NEW torn, NEW stale, NEW disc, NEW down2, NEW v2,
         NEW f, NEW up2,
         Protocol(c, up, down, now, v, prist, torn, stale, disc), Popped(down, down2), Pushed(up, f, up2),
         down[1].ch = c, down[1].op = "close", v.state # "closed", v2.state = "closed", v2.owes = 0,
         f.ch = c, f.op = "closeOk"
  PROVE  Protocol(c, up2, down2, now, v2, prist, torn, stale, disc)
<1>1. /\ Len(down) \in Nat /\ Len(down2) + 1 = Len(down) /\ Len(down2) \in Nat
      /\ \A i \in Down(c, down2) : i \in Nat /\ i >= 1 /\ i + 1 \in Down(c, down) /\ down2[i] = down[i + 1]
  <2>1. Len(down2) \in Nat
    BY DEF Popped
  <2> QED
    BY <2>1, PopDown
<1>2. /\ Len(up) \in Nat /\ Len(up2) = Len(up) + 1
      /\ \A k \in Up(c, up) : k \in Nat /\ k >= 1 /\ k <= Len(up) /\ k \in Up(c, up2) /\ up2[k] = up[k]
      /\ \A k \in Up(c, up2) : k \in Up(c, up) \/ k = Len(up) + 1
      /\ Len(up) + 1 \in Up(c, up2)
      /\ up2[Len(up) + 1] = f /\ Mine(f, c)
  BY PushUp DEF Mine
<1>3. 1 \in Closes(c, down) /\ 1 \in Down(c, down)
  BY DEF Down, Popped, Closes
<1>4. InPieces(c, up2, v2)
  <2>1. ASSUME NEW k \in Up(c, up2)
        PROVE  /\ up2[k].op = "header" => Follows(c, up2, k, "publish")
               /\ up2[k].op = "body" => Follows(c, up2, k, "header")
    <3>1. CASE k \in Up(c, up)
      <4>1. k \in Nat /\ k <= Len(up) + 1 /\ up2[k] = up[k]
        BY <1>2, <3>1
      <4> QED
        BY <3>1, <4>1, PushFollows DEF Protocol, Course, InPieces
    <3> QED
      BY <1>2, <3>1
  <2> QED
    BY <2>1 DEF InPieces
<1>5. PICK st : Replays(c, up, now, v, st)
  BY DEF Protocol, Course, Replayed
<1>6. ASSUME st[Len(up)].at # "gone", st[Len(up)].at = "usable" => st[Len(up)].owes = 0
      PROVE  Replayed(c, up2, now, v2)
  <2>1. StepAt(c, f, st[Len(up)], NoRoom)
    BY <1>2, <1>6 DEF StepAt, Due, After
  <2>2. NoRoom \in Room /\ Agrees(v2, NoRoom, now)
    BY DEF Agrees, NoRoom, Room
  <2> QED
    BY <1>5, <2>1, <2>2, PushReplay
<1>7. CASE now = Shut
  <2>1. /\ v.state \in {"open", "closing"}
        /\ \A k \in Up(c, up) : up[k].op \notin Anew
        /\ \E i \in Closes(c, down) : \A j \in Down(c, down) : j <= i /\ (j \in Closes(c, down) => j = i)
    BY <1>3, <1>7 DEF Protocol, Course, BothEnds
  <2>2. \A j \in Down(c, down) : j <= 1
    BY <1>3, <2>1
  <2>3. Down(c, down2) = {}
    <3> SUFFICES ASSUME NEW j \in Down(c, down2) PROVE FALSE
      OBVIOUS
    <3>1. j \in Nat /\ j >= 1 /\ j + 1 <= 1
      BY <1>1, <2>2
    <3> QED
      BY <3>1
  <2>4. Closes(c, down2) = {} /\ CloseOks(c, down2) = {}
    BY <2>3 DEF Closes, CloseOks
  <2>5. ~torn
    BY <1>7 DEF Protocol, Course, Teardown, NoRoom, Shut
  <2>6. Replayed(c, up2, now, v2)
    <3>1. st[Len(up)] = Shut
      BY <1>5, <1>7, <2>1 DEF Replays, Agrees
    <3> QED
      BY <1>6, <3>1 DEF Shut
  <2>7. BothEnds(c, up2, down2, now, v2)
    <3>1. ASSUME NEW j \in Up(c, up2)
          PROVE  (j < Len(up) + 1 => up2[j].op \notin Anew) /\ (j > Len(up) + 1 => up2[j].op = "open")
      BY <1>2, <2>1
    <3> QED
      BY <1>2, <2>3, <3>1 DEF BothEnds
  <2>8. \A k \in Up(c, up2) : up2[k].op # "open"
    BY <1>2, <2>1 DEF Anew
  <2>9. /\ StaleCloses(c, up2, down2, now, v2, prist, stale) /\ Teardown(c, up2, down2, now, v2, prist, torn)
        /\ CloseOkLast(c, up2, down2, now, v2) /\ LastWord(c, up2, now, v2) /\ Attended(c, up2, now, v2, prist)
        /\ BegunAnew(c, up2, now, v2, prist, stale) /\ Greeted(c, up2, down2, stale)
    BY <1>7, <2>4, <2>5, <2>8
       DEF StaleCloses, Teardown, CloseOkLast, LastWord, Attended, BegunAnew, Greeted
  <2>10. NoSurprise(c, down2, now, v2, stale)
    BY <1>7, <2>3 DEF NoSurprise, Shut
  <2>11. StrayHasCause(c, up2, now, v2, disc)
    <3>1. ASSUME NEW k, HasCause(c, up, k, disc) PROVE HasCause(c, up2, k, disc)
      BY <1>2, <3>1 DEF HasCause
    <3> QED
      BY <1>2, <3>1 DEF Protocol, Course, StrayHasCause
  <2> QED
    BY <1>4, <2>6, <2>7, <2>9, <2>10, <2>11 DEF Protocol, Course
<1>8. CASE now # Shut
  <2>1. stale /\ Torn(c, up, down, now, v, prist, 1)
    BY <1>3, <1>8 DEF Protocol, Course, StaleCloses
  <2>2. \A j \in CloseOks(c, down) : j \in Nat /\ j >= 1
    BY <1>1 DEF CloseOks, Down
  <2>3. v.state = "opening"
    BY <2>1, <2>2 DEF Torn
  <2>4. (\A k \in Up(c, up2) : up2[k].op \in Anew) /\ (now.at = "usable" => prist)
    BY <1>2, <2>1 DEF Torn, Anew
  <2>5. CloseOks(c, down2) = {}
    <3>1. CloseOks(c, down) = {}
      BY <2>3 DEF Protocol, Course, CloseOkLast
    <3>2. \A i \in CloseOks(c, down2) : i + 1 \in CloseOks(c, down)
      BY PopDownKinds
    <3> QED
      BY <3>1, <3>2
  <2>6. Replayed(c, up2, now, v2)
    <3>1. st[Len(up)] = Fresh
      BY <1>5, <2>3 DEF Replays, Agrees
    <3> QED
      BY <1>6, <3>1 DEF Fresh
  <2>7. ASSUME NEW i \in Nat, Torn(c, up, down, now, v, prist, i + 1) PROVE Torn(c, up2, down2, now, v2, prist, i)
    <3>1. ASSUME NEW j \in Down(c, down2), j < i PROVE j \in Closes(c, down2)
      <4>1. j \in Nat /\ j >= 1 /\ j + 1 \in Down(c, down) /\ j + 1 < i + 1 /\ (j + 1) - 1 = j /\ j + 1 # 1
        BY <1>1, <3>1
      <4>2. j + 1 \in Closes(c, down)
        BY <2>3, <2>7, <4>1 DEF Torn
      <4>3. \A m \in Closes(c, down) : m # 1 => m - 1 \in Closes(c, down2)
        BY PopDownKinds
      <4> QED
        BY <4>1, <4>2, <4>3
    <3> QED
      BY <2>4, <3>1 DEF Torn
  <2>8. StaleCloses(c, up2, down2, now, v2, prist, stale)
    <3> SUFFICES ASSUME NEW i \in Closes(c, down2) PROVE Torn(c, up2, down2, now, v2, prist, i)
      BY <2>1 DEF StaleCloses
    <3>1. i + 1 \in Closes(c, down) /\ i \in Down(c, down2)
      BY PopDownKinds
    <3>2. i \in Nat /\ Torn(c, up, down, now, v, prist, i + 1)
      BY <1>1, <1>8, <3>1 DEF Protocol, Course, StaleCloses
    <3> QED
      BY <2>7, <3>2
  <2>9. Teardown(c, up2, down2, now, v2, prist, torn)
    <3> SUFFICES ASSUME torn PROVE now = NoRoom /\ Torn(c, up2, down2, now, v2, prist, Len(down2) + 1)
      BY DEF Teardown
    <3>1. now = NoRoom /\ Torn(c, up, down, now, v, prist, Len(down) + 1)
      BY DEF Protocol, Course, Teardown
    <3>2. Len(down2) + 1 \in Nat /\ (Len(down2) + 1) + 1 = Len(down) + 1
      BY <1>1
    <3> QED
      BY <2>7, <3>1, <3>2
  <2>10. /\ CloseOkLast(c, up2, down2, now, v2) /\ BothEnds(c, up2, down2, now, v2)
         /\ StrayHasCause(c, up2, now, v2, disc) /\ NoSurprise(c, down2, now, v2, stale)
         /\ Greeted(c, up2, down2, stale) /\ Attended(c, up2, now, v2, prist)
    BY <1>8, <2>1, <2>4, <2>5 DEF CloseOkLast, BothEnds, StrayHasCause, NoSurprise, Greeted, Attended
  <2>11. BegunAnew(c, up2, now, v2, prist, stale) /\ LastWord(c, up2, now, v2)
    BY <2>1, <2>4 DEF BegunAnew, LastWord, Anew
  <2> QED
    BY <1>4, <2>6, <2>8, <2>9, <2>10, <2>11 DEF Protocol, Course
<1> QED
  BY <1>7, <1>8

----------------------------------------------------------------------------
(* Sequences and frames *)

LEMMA SendOne ==
  ASSUME NEW S, NEW s \in Seq(S), NEW g \in S
  PROVE  s \o <<g>> \in Seq(S) /\ Pushed(s, g, s \o <<g>>)
BY DEF Pushed

LEMMA AppendOne ==
  ASSUME NEW S, NEW s \in Seq(S), NEW g \in S
  PROVE  Append(s, g) \in Seq(S) /\ Pushed(s, g, Append(s, g))
BY DEF Pushed

LEMMA SendTwo ==
  ASSUME NEW S, NEW s \in Seq(S), NEW g \in S, NEW h \in S
  PROVE  s \o (<<g>> \o <<h>>) = (s \o <<g>>) \o <<h>>
OBVIOUS

LEMMA NoneThenOne ==
  ASSUME NEW h
  PROVE  <<>> \o <<h>> = <<h>>
OBVIOUS

LEMMA TakeOne ==
  ASSUME NEW S, NEW s \in Seq(S), s # <<>>
  PROVE  /\ Popped(s, Tail(s)) /\ Head(s) = s[1] /\ s[1] \in S /\ Tail(s) \in Seq(S)
         /\ Len(s) \in Nat /\ Len(s) > 0
BY DEF Popped

LEMMA FrameType ==
  ASSUME NEW kind \in Kinds, NEW ch \in Channel \cup {0}
  PROVE  Frame(kind, ch) \in TaskType
BY DEF Frame, Blank, TaskType

LEMMA FrameFields ==
  ASSUME NEW kind, NEW ch
  PROVE  /\ Frame(kind, ch).op = kind /\ Frame(kind, ch).ch = ch /\ Frame(kind, ch).noWait = TRUE
         /\ Frame(kind, ch).tag = NoTag /\ Frame(kind, ch).dtag = 0 /\ Frame(kind, ch).noAck = FALSE
         /\ Frame(kind, ch).ord = 0 /\ Frame(kind, ch).size = 0 /\ Frame(kind, ch).broken = FALSE
         /\ Frame(kind, ch).named = FALSE /\ Frame(kind, ch).multiple = FALSE
         /\ Frame(kind, ch).mandatory = FALSE
BY DEF Frame, Blank

LEMMA BlankFields == Blank \in TaskType /\ Blank.op = "none" /\ Blank.ch = 0
<1>1. Blank.op = "none" /\ Blank.ch = 0
  BY DEF Blank
<1>2. Blank \in TaskType
  BY DEF Blank, TaskType, Kinds
<1> QED
  BY <1>1, <1>2

\* cancelConsumers leaves no consumer out.
LEMMA CancelsAll ==
  ASSUME NEW ch \in Channel, IsFiniteSet(channels[ch].consumers), channels[ch].consumers \subseteq Tag
  PROVE  /\ Cancels(ch) \in Seq(TaskType)
         /\ \A i \in 1 .. Len(Cancels(ch)) :
              /\ Cancels(ch)[i].op = "cancel" /\ Cancels(ch)[i].ch = ch /\ Cancels(ch)[i].noWait = TRUE
              /\ Cancels(ch)[i].tag \in channels[ch].consumers
         /\ \A tag \in channels[ch].consumers : \E i \in 1 .. Len(Cancels(ch)) : Cancels(ch)[i].tag = tag
<1> DEFINE S == channels[ch].consumers
           n == Cardinality(S)
           tags == InOrder(S)
<1>1. n \in Nat /\ ExistsBijection(1 .. n, S)
  BY FS_CardinalityType
<1>2. \E s \in [1 .. n -> S] : \A i, j \in DOMAIN s : s[i] = s[j] => i = j
  <2>1. PICK b : b \in Bijection(1 .. n, S)
    BY <1>1 DEF ExistsBijection
  <2>2. b \in [1 .. n -> S] /\ \A i, j \in 1 .. n : b[i] = b[j] => i = j
    BY <2>1 DEF Bijection, Injection, IsInjective
  <2> QED
    BY <2>2
<1>3. tags \in [1 .. n -> S] /\ \A i, j \in DOMAIN tags : tags[i] = tags[j] => i = j
  BY <1>2 DEF InOrder
<1>4. tags \in Injection(1 .. n, S)
  BY <1>3 DEF Injection, IsInjective
<1>5. IsFiniteSet(1 .. n) /\ Cardinality(1 .. n) = n
  BY <1>1, FS_Interval
<1>6. tags \in Surjection(1 .. n, S)
  BY <1>4, <1>5, FS_Injection
<1>7. \A tag \in S : \E i \in 1 .. n : tags[i] = tag
  BY <1>6 DEF Surjection
<1> HIDE DEF n, tags
<1>8. Cancels(ch) = [i \in 1 .. n |-> [Frame("cancel", ch) EXCEPT !.tag = tags[i], !.named = TRUE]]
  <2>1. DOMAIN tags = 1 .. n
    BY <1>3
  <2> QED
    BY <2>1 DEF Cancels, tags
<1>9. ASSUME NEW i \in 1 .. n
      PROVE  LET g == [Frame("cancel", ch) EXCEPT !.tag = tags[i], !.named = TRUE]
             IN g \in TaskType /\ g.op = "cancel" /\ g.ch = ch /\ g.noWait = TRUE /\ g.tag = tags[i]
  <2>1. tags[i] \in Tag
    BY <1>3
  <2> QED
    BY <2>1 DEF Frame, Blank, TaskType, Kinds
<1>10. Len(Cancels(ch)) = n /\ Cancels(ch) \in Seq(TaskType)
  <2> DEFINE g(i) == [Frame("cancel", ch) EXCEPT !.tag = tags[i], !.named = TRUE]
  <2>1. \A i \in 1 .. n : g(i) \in TaskType
    BY <1>9
  <2>2. Cancels(ch) = [i \in 1 .. n |-> g(i)]
    BY <1>8
  <2> HIDE DEF g
  <2>3. Cancels(ch) \in [1 .. n -> TaskType]
    BY <2>1, <2>2
  <2> QED
    BY <1>1, <2>3
<1>11. \A i \in 1 .. n : /\ Cancels(ch)[i].op = "cancel" /\ Cancels(ch)[i].ch = ch
                         /\ Cancels(ch)[i].noWait = TRUE /\ Cancels(ch)[i].tag = tags[i]
  BY <1>8, <1>9
<1>12. \A i \in 1 .. n : tags[i] \in S
  BY <1>3
<1> QED
  BY <1>7, <1>10, <1>11, <1>12

----------------------------------------------------------------------------
(* The session at work *)

ChannelType == [live : BOOLEAN, closing : BOOLEAN, confirms : BOOLEAN, published : Nat, consumers : SUBSET Tag]
PendingType == [ch : Channel \cup {0}, mandatory : BOOLEAN, ord : Nat, size : {0, 1}, got : {0, 1}]
ViewType == [state : {"closed", "opening", "open", "closing"}, confirms : BOOLEAN, count : Nat, owes : 0 .. 2,
             holds : SUBSET Nat]
Endings == {"no", "handshake", "left", "bye", "dropped", "refused", "broken frame", "unknown frame",
            "second publish", "channel already open", "channel never opened", "stray content", "body too long"}
HistoryType == [ended : Endings, frames : Nat, discarded : SUBSET Channel, leaked : SUBSET (Tag \cup {NoTag}),
                blurred : SUBSET Nat, stale : BOOLEAN, surprised : BOOLEAN]

ChannelsOK ==
  /\ channels \in [Channel -> ChannelType]
  /\ \A c \in Channel : (Live(c) \/ channels[c] = Gone) /\ IsFiniteSet(channels[c].consumers)
TasksOK == staged \in Seq(TaskType) /\ active \in TaskType /\ pending \in PendingType
OutboxOK == waiting \in Seq(TaskType) /\ taken \in Seq(TaskType) /\ woken \in BOOLEAN /\ pushing \in BOOLEAN
BrokerOK ==
  /\ lastTag \in 0 .. MaxTag /\ fromQueue \subseteq 1 .. lastTag
  /\ subscribed \subseteq [tag : Tag, ch : Channel, noAck : BOOLEAN]
  /\ held \subseteq [dtag : 1 .. lastTag, ch : Channel]
ToServerOK ==
  /\ toServer \in Seq(TaskType)
  /\ \A k \in 1 .. Len(toServer) : /\ toServer[k].ch \in Channel
                                   /\ toServer[k].op = "consume" => toServer[k].tag \in Tag
\* Basic.Ack to the client: it carries the number of its publish.
Truthful(f) == f.op = "confirm" => f.dtag = f.ord
ToClientOK == toClient \in Seq(TaskType) /\ \A i \in 1 .. Len(toClient) : Truthful(toClient[i])
Shapes ==
  /\ phase \in {"accepting", "new", "loop", "writing", "select", "serving", "over"}
  /\ ChannelsOK /\ TasksOK /\ OutboxOK /\ BrokerOK /\ ToServerOK /\ ToClientOK
  /\ view \in [Channel -> ViewType] /\ \A c \in Channel : view[c].confirms \/ view[c].count = 0
  /\ history \in HistoryType

\* What the session is at: operations decoded, and the one that is served.
Doing(t) == (t = active \/ \E i \in 1 .. Len(staged) : t = staged[i]) /\ t.op \notin {"none", "connect"}
TaskOn(c) == \E t : Doing(t) /\ t.ch = c
Shutting(c) == channels[c].live /\ channels[c].closing

\* The number a publish carries, if its channel confirms.
Counted(n, c) ==
  (n > 0 <=> channels[c].confirms) /\ (n > 0 => n = channels[c].published + 1)

\* One operation at a time on a channel at work; on the others only the
\* cancellations of consumers that are being let go.
InPlace(t) ==
  /\ t.ch \in Channel
  /\ t.op # "cancel" => Usable(t.ch)
  /\ t.op = "cancel" /\ ~Usable(t.ch) => t.noWait
  /\ t.op = "consume" => t.tag \in Tag
  /\ t.op = "publish" => Counted(t.ord, t.ch)
  /\ Usable(t.ch) => staged = <<>> \/ (Len(staged) = 1 /\ active = Blank)
PendingHere ==
  pending.ch # 0 => /\ pending.ch \in Channel /\ Usable(pending.ch) /\ ~TaskOn(pending.ch) /\ pending.got = 0
                    /\ Counted(pending.ord, pending.ch)
WorkInPlace ==
  /\ staged # <<>> => phase \in {"loop", "serving"}
  /\ phase # "serving" => active = Blank
  /\ phase = "serving" => active.op # "none"
  /\ active.op = "connect" => active.ch = 0 /\ staged = <<>>
  /\ \A i \in 1 .. Len(staged) : staged[i].op \notin {"none", "connect"}
  /\ \A t : Doing(t) => InPlace(t)
  /\ PendingHere

\* The session's account of a channel.
Owed(c) == IF pending.ch # c THEN 0 ELSE IF pending.size = 0 THEN 2 ELSE 1
Accepted(c) ==
  IF \/ pending.ch = c /\ pending.ord > 0
     \/ \E t : Doing(t) /\ t.op = "publish" /\ t.ch = c /\ t.ord > 0
  THEN 1 ELSE 0
Now(c) ==
  IF ~channels[c].live THEN NoRoom
  ELSE IF channels[c].closing THEN Shut
  ELSE [at |-> "usable", confirms |-> channels[c].confirms,
        count |-> channels[c].published + Accepted(c), owes |-> Owed(c)]
Pristine(c) == channels[c] = [Gone EXCEPT !.live = TRUE] /\ ~TaskOn(c) /\ pending.ch # c
Tearing(c) == ~Live(c) /\ \E t : Doing(t) /\ t.op = "cancel" /\ t.ch = c
Discarded == history.discarded # {}
InProtocol(c) ==
  Protocol(c, toServer, toClient, Now(c), view[c], Pristine(c), Tearing(c), history.stale, Discarded)
ProtocolKept == \A c \in Channel : InProtocol(c)

\* A delivery tag the client may still settle on the channel: if the broker
\* holds it, it is the channel's, and its queue is remembered or was given up
\* for it.
Covers(t, h) == IF t.multiple THEN t.dtag = 0 \/ h.dtag <= t.dtag ELSE h.dtag = t.dtag
Known(T, c) ==
  \A h \in held : h.dtag = T =>
    /\ h.ch = c
    /\ T \in fromQueue \/ T \in history.blurred \/ \E t : Doing(t) /\ t.op = "settle" /\ t.ch = c /\ Covers(t, h)
Owned(f) == f.op \in {"deliver", "getOk"} /\ ~f.noAck
Settleable(T, c) ==
  /\ T # 0
  /\ \/ \E k \in Up(c, toServer) : toServer[k].op = "settle" /\ toServer[k].dtag = T
     \/ \E i \in Down(c, toClient) : Owned(toClient[i]) /\ toClient[i].dtag = T
     \/ T \in view[c].holds
HoldsNothing(c) ==
  view[c].state = "closed" \/ (Shutting(c) /\ view[c].state = "opening") => view[c].holds = {}
AllKnown(c) == \A T : Settleable(T, c) => T \in 1 .. lastTag /\ (~Shutting(c) => Known(T, c))
Named(t) == t.op = "settle" => /\ t.dtag <= lastTag
                               /\ (\E h \in held : h.dtag = t.dtag) => t.named \/ t.dtag \in history.blurred
Unwritten(d) == /\ d.op = "deliver" /\ d.ch \in Channel /\ d.dtag \in 1 .. lastTag
                /\ ~d.noAck => \A h \in held : h.dtag = d.dtag => h.ch = d.ch
InOutbox(d) == (\E i \in 1 .. Len(waiting) : d = waiting[i]) \/ \E i \in 1 .. Len(taken) : d = taken[i]
TagsKept ==
  /\ \A c \in Channel : HoldsNothing(c) /\ AllKnown(c)
  /\ \A t : Doing(t) => Named(t)
  /\ \A d : InOutbox(d) => Unwritten(d)

\* A consumer the broker knows.
Kept(s) ==
  \/ Usable(s.ch) /\ s.tag \in channels[s.ch].consumers
  \/ \E t : Doing(t) /\ t.op = "cancel" /\ t.tag = s.tag /\ ~Usable(t.ch)
  \/ s.tag \in history.leaked
NoneOrphaned == (\A s \in subscribed : Kept(s)) /\ \A s, r \in subscribed : s.tag = r.tag => s = r

\* A delivery that was pushed after the outbox was emptied wakes the session.
Woken == phase \in {"writing", "select"} /\ waiting # <<>> => woken \/ pushing

Running == Woken /\ WorkInPlace /\ ProtocolKept /\ TagsKept /\ NoneOrphaned
SessionInv ==
  /\ Shapes /\ RuleKeeperServed
  /\ phase \in {"accepting", "over"} => subscribed = {}
  /\ phase # "over" => Running

----------------------------------------------------------------------------
(* Shapes *)

LEMMA SendShape ==
  ASSUME ToClientOK, NEW g \in TaskType, Truthful(g), toClient' = toClient \o <<g>>
  PROVE  ToClientOK' /\ Pushed(toClient, g, toClient')
<1>1. toClient \in Seq(TaskType) /\ \A i \in 1 .. Len(toClient) : Truthful(toClient[i])
  BY DEF ToClientOK
<1>2. toClient' \in Seq(TaskType) /\ Pushed(toClient, g, toClient')
  BY <1>1, SendOne
<1>3. \A i \in 1 .. Len(toClient') : Truthful(toClient'[i])
  BY <1>1, <1>2 DEF Pushed
<1> QED
  BY <1>2, <1>3 DEF ToClientOK, Truthful

LEMMA SendPlain ==
  ASSUME ToClientOK, NEW kind \in Kinds, kind # "confirm", NEW ch \in Channel \cup {0}, toClient' = toClient \o <<Frame(kind, ch)>>
  PROVE  ToClientOK' /\ Pushed(toClient, Frame(kind, ch), toClient')
<1>1. Frame(kind, ch) \in TaskType /\ Truthful(Frame(kind, ch))
  BY FrameType, FrameFields DEF Truthful
<1> QED
  BY <1>1, SendShape

LEMMA SayShape ==
  ASSUME ToServerOK, NEW f \in TaskType, f.ch \in Channel, f.op = "consume" => f.tag \in Tag,
         toServer' = Append(toServer, f)
  PROVE  ToServerOK' /\ Pushed(toServer, f, toServer')
<1>1. toServer' \in Seq(TaskType) /\ Pushed(toServer, f, toServer')
  BY AppendOne DEF ToServerOK
<1>2. \A k \in 1 .. Len(toServer') : toServer'[k].ch \in Channel /\ (toServer'[k].op = "consume" => toServer'[k].tag \in Tag)
  BY <1>1 DEF ToServerOK, Pushed
<1> QED
  BY <1>1, <1>2 DEF ToServerOK

LEMMA ReadShape ==
  ASSUME ToServerOK, toServer # <<>>, toServer' = Tail(toServer)
  PROVE  /\ ToServerOK' /\ Popped(toServer, toServer') /\ Head(toServer) = toServer[1]
         /\ toServer[1] \in TaskType /\ toServer[1].ch \in Channel
         /\ toServer[1].op = "consume" => toServer[1].tag \in Tag
<1>1. /\ Popped(toServer, toServer') /\ Head(toServer) = toServer[1] /\ toServer[1] \in TaskType
      /\ toServer' \in Seq(TaskType) /\ Len(toServer) \in Nat /\ Len(toServer) > 0
  BY TakeOne DEF ToServerOK
<1>2. \A k \in 1 .. Len(toServer') : toServer'[k].ch \in Channel /\ (toServer'[k].op = "consume" => toServer'[k].tag \in Tag)
  BY <1>1 DEF ToServerOK, Popped
<1>3. 1 \in 1 .. Len(toServer)
  BY <1>1
<1> QED
  BY <1>1, <1>2, <1>3 DEF ToServerOK

LEMMA HearShape ==
  ASSUME ToClientOK, toClient # <<>>, toClient' = Tail(toClient)
  PROVE  /\ ToClientOK' /\ Popped(toClient, toClient') /\ Head(toClient) = toClient[1] /\ toClient[1] \in TaskType
<1>1. /\ Popped(toClient, toClient') /\ Head(toClient) = toClient[1] /\ toClient[1] \in TaskType
      /\ toClient' \in Seq(TaskType) /\ Len(toClient) \in Nat /\ Len(toClient) > 0
  BY TakeOne DEF ToClientOK
<1>2. \A i \in 1 .. Len(toClient') : Truthful(toClient'[i])
  BY <1>1 DEF ToClientOK, Popped
<1> QED
  BY <1>1, <1>2 DEF ToClientOK, Truthful

\* The end of a connection, for a reason that is allowed.
Allowed(why) ==
  /\ why \in Endings \ {"channel already open", "channel never opened", "body too long"}
  /\ why = "stray content" => Discarded

LEMMA OverKeeps ==
  ASSUME Shapes, RuleKeeperServed, NEW why, Allowed(why), Over(why), ToServerOK', ToClientOK'
  PROVE  SessionInv'
<1>1. /\ phase' = "over" /\ subscribed' = {} /\ held' = {} /\ lastTag' = lastTag
      /\ channels' = channels /\ staged' = staged /\ active' = active /\ pending' = pending /\ fromQueue' = fromQueue
      /\ waiting' = waiting /\ taken' = taken /\ woken' = woken /\ pushing' = pushing /\ view' = view
  BY DEF Over, sessionVars, outboxVars
<1>2. history' = [history EXCEPT !.ended = why]
  BY DEF Over
<1>3. /\ history' \in HistoryType /\ history'.ended = why /\ history'.discarded = history.discarded
      /\ history'.surprised = history.surprised /\ history'.stale = history.stale
  BY <1>2 DEF Shapes, HistoryType, Allowed
<1>4. RuleKeeperServed'
  BY <1>3 DEF RuleKeeperServed, EndedForCause, NothingAfterClose, Allowed, Discarded
<1>5. ChannelsOK' /\ TasksOK' /\ OutboxOK'
  BY <1>1 DEF Shapes, ChannelsOK, TasksOK, OutboxOK, Live
<1>6. BrokerOK'
  BY <1>1 DEF Shapes, BrokerOK
<1>7. Shapes'
  BY <1>1, <1>3, <1>5, <1>6 DEF Shapes
<1> QED
  BY <1>1, <1>4, <1>7 DEF SessionInv

----------------------------------------------------------------------------
(* Steps that leave a channel's account alone *)

SameWork == \A t : Doing(t)' <=> Doing(t)

LEMMA WorkSame ==
  ASSUME active' = active, staged' = staged
  PROVE  SameWork
BY DEF SameWork, Doing

LEMMA SameBooks ==
  ASSUME NEW c \in Channel, channels'[c] = channels[c],
         pending' = pending \/ (pending.ch # c /\ pending'.ch # c),
         \A t : t.ch = c => (Doing(t)' <=> Doing(t))
  PROVE  Now(c)' = Now(c) /\ (Pristine(c)' <=> Pristine(c)) /\ (Tearing(c)' <=> Tearing(c))
<1>1. Accepted(c)' = Accepted(c)
  BY DEF Accepted
<1>2. Owed(c)' = Owed(c)
  BY DEF Owed
<1>3. Now(c)' = Now(c)
  BY <1>1, <1>2 DEF Now
<1>4. TaskOn(c)' <=> TaskOn(c)
  BY DEF TaskOn
<1>5. Pristine(c)' <=> Pristine(c)
  BY <1>4 DEF Pristine
<1>6. Tearing(c)' <=> Tearing(c)
  BY DEF Tearing, Live
<1> QED
  BY <1>3, <1>5, <1>6

LEMMA SameProtocol ==
  ASSUME NEW c \in Channel, InProtocol(c), Now(c)' = Now(c),
         Pristine(c) => Pristine(c)', Tearing(c)' => Tearing(c),
         toServer' = toServer, toClient' = toClient, view'[c] = view[c],
         history.stale => history'.stale, Discarded => Discarded'
  PROVE  InProtocol(c)'
<1>1. Protocol(c, toServer, toClient, Now(c), view[c], Pristine(c)', Tearing(c)', history'.stale, Discarded')
  BY Weaken DEF InProtocol
<1> QED
  BY <1>1 DEF InProtocol

\* The session and both streams stay as they are.
Quiet ==
  /\ channels' = channels /\ pending' = pending /\ fromQueue' = fromQueue
  /\ toServer' = toServer /\ toClient' = toClient /\ view' = view /\ history' = history
  /\ SameWork
\* The broker may issue a tag or lose consumers.
BrokerMoves ==
  /\ lastTag' \in Nat /\ lastTag <= lastTag'
  /\ \A h \in held' : h \in held \/ h.dtag = lastTag + 1
  /\ subscribed' \subseteq subscribed

LEMMA KnownStays ==
  ASSUME NEW T, NEW c, Known(T, c), \A h \in held' : h.dtag = T => h \in held,
         T \in fromQueue => T \in fromQueue' \/ T \in history'.blurred,
         T \in history.blurred => T \in history'.blurred,
         \A t : Doing(t) /\ t.op = "settle" /\ t.ch = c => Doing(t)'
  PROVE  Known(T, c)'
BY DEF Known

LEMMA NamedStays ==
  ASSUME NEW t, Named(t), BrokerOK, lastTag' \in Nat, lastTag <= lastTag', t \in TaskType,
         \A h \in held' : h \in held \/ h.dtag = lastTag + 1,
         history.blurred \subseteq history'.blurred
  PROVE  Named(t)'
<1> SUFFICES ASSUME t.op = "settle" PROVE Named(t)'
  BY DEF Named
<1>1. t.dtag \in Nat /\ t.dtag <= lastTag /\ lastTag \in Nat
  BY DEF Named, BrokerOK, TaskType
<1>2. ASSUME NEW h \in held', h.dtag = t.dtag PROVE t.named \/ t.dtag \in history'.blurred
  <2>1. h \in held
    BY <1>1, <1>2
  <2> QED
    BY <1>2, <2>1 DEF Named
<1> QED
  BY <1>1, <1>2 DEF Named

LEMMA WorkTyped ==
  ASSUME TasksOK, NEW t, Doing(t)
  PROVE  t \in TaskType
BY DEF TasksOK, Doing

LEMMA QuietKeeps ==
  ASSUME Shapes, Running, Quiet, BrokerMoves
  PROVE  /\ ProtocolKept' /\ NoneOrphaned'
         /\ \A c \in Channel : HoldsNothing(c)' /\ AllKnown(c)'
         /\ \A t : Doing(t)' => Named(t)'
<1>1. ASSUME NEW c \in Channel PROVE InProtocol(c)'
  <2>1. Now(c)' = Now(c) /\ (Pristine(c)' <=> Pristine(c)) /\ (Tearing(c)' <=> Tearing(c))
    BY SameBooks DEF Quiet, SameWork
  <2>2. InProtocol(c)
    BY DEF Running, ProtocolKept
  <2> QED
    BY <2>1, <2>2, SameProtocol DEF Quiet, Discarded
<1>2. NoneOrphaned'
  <2>1. ASSUME NEW s \in subscribed' PROVE Kept(s)'
    <3>1. s \in subscribed /\ Kept(s)
      BY DEF Running, NoneOrphaned, BrokerMoves
    <3> QED
      BY <3>1 DEF Kept, Quiet, SameWork, Usable, Live
  <2> QED
    BY <2>1 DEF Running, NoneOrphaned, BrokerMoves
<1>3. lastTag \in Nat /\ lastTag' \in Nat /\ lastTag <= lastTag'
  BY DEF Shapes, BrokerOK, BrokerMoves
<1>4. ASSUME NEW c \in Channel PROVE HoldsNothing(c)' /\ AllKnown(c)'
  <2>1. HoldsNothing(c) /\ AllKnown(c)
    BY DEF Running, TagsKept
  <2>2. HoldsNothing(c)'
    BY <2>1 DEF HoldsNothing, Quiet, Shutting
  <2>3. ASSUME NEW T, Settleable(T, c)' PROVE T \in 1 .. lastTag' /\ (~Shutting(c)' => Known(T, c)')
    <3>1. Settleable(T, c)
      BY <2>3 DEF Settleable, Quiet
    <3>2. T \in 1 .. lastTag /\ (~Shutting(c)' => Known(T, c))
      BY <2>1, <3>1 DEF AllKnown, Shutting, Quiet
    <3>3. \A h \in held' : h.dtag = T => h \in held
      BY <1>3, <3>2 DEF BrokerMoves
    <3>4. Known(T, c) => Known(T, c)'
      BY <3>3, KnownStays DEF Quiet, SameWork
    <3> QED
      BY <1>3, <3>2, <3>4
  <2> QED
    BY <2>2, <2>3 DEF AllKnown
<1>5. ASSUME NEW t, Doing(t)' PROVE Named(t)'
  <2>1. Doing(t) /\ Named(t)
    BY <1>5 DEF Quiet, SameWork, Running, TagsKept
  <2>2. t \in TaskType
    BY <2>1, WorkTyped DEF Shapes
  <2> QED
    BY <1>3, <2>1, <2>2, NamedStays DEF Shapes, Quiet, BrokerMoves
<1> QED
  BY <1>1, <1>2, <1>4, <1>5 DEF ProtocolKept

LEMMA QuietDone ==
  ASSUME Shapes, Running, RuleKeeperServed, Quiet, BrokerMoves, Shapes', phase' # "over", Woken', WorkInPlace',
         phase' = "accepting" => subscribed' = {}, \A d : InOutbox(d)' => Unwritten(d)'
  PROVE  SessionInv'
<1>1. /\ ProtocolKept' /\ NoneOrphaned'
      /\ \A c \in Channel : HoldsNothing(c)' /\ AllKnown(c)'
      /\ \A t : Doing(t)' => Named(t)'
  BY QuietKeeps
<1>2. TagsKept'
  BY <1>1 DEF TagsKept
<1>3. RuleKeeperServed'
  BY DEF RuleKeeperServed, EndedForCause, NothingAfterClose, Quiet
<1> QED
  BY <1>1, <1>2, <1>3 DEF SessionInv, Running

LEMMA WorkStays ==
  ASSUME WorkInPlace, channels' = channels, pending' = pending, staged' = staged, active' = active,
         staged # <<>> => phase' \in {"loop", "serving"}, phase' = "serving" <=> phase = "serving"
  PROVE  WorkInPlace'
<1>1. SameWork
  BY WorkSame
<1>2. ASSUME NEW t, Doing(t)' PROVE InPlace(t)'
  <2>1. InPlace(t)
    BY <1>1, <1>2 DEF SameWork, WorkInPlace
  <2> QED
    BY <2>1 DEF InPlace, Usable, Live, Counted
<1>3. PendingHere'
  BY <1>1 DEF WorkInPlace, PendingHere, Usable, Live, Counted, TaskOn, SameWork
<1> QED
  BY <1>2, <1>3 DEF WorkInPlace

LEMMA OutboxStays ==
  ASSUME \A d : InOutbox(d) => Unwritten(d), held' = held, lastTag' = lastTag, \A d : InOutbox(d)' => InOutbox(d)
  PROVE  \A d : InOutbox(d)' => Unwritten(d)'
BY DEF Unwritten

\* The loop goes from one place to another.
LEMMA Moves ==
  ASSUME SessionInv, phase # "over", UNCHANGED <<sessionVars, brokerVars, toServer, toClient, view, history>>,
         phase' \in {"new", "loop", "writing", "select", "serving"},
         staged # <<>> => phase' \in {"loop", "serving"}, phase' = "serving" <=> phase = "serving",
         OutboxOK', \A d : InOutbox(d)' => InOutbox(d), Woken'
  PROVE  SessionInv'
<1>1. /\ channels' = channels /\ staged' = staged /\ active' = active /\ pending' = pending /\ fromQueue' = fromQueue
      /\ subscribed' = subscribed /\ held' = held /\ lastTag' = lastTag
      /\ toServer' = toServer /\ toClient' = toClient /\ view' = view /\ history' = history
  BY DEF sessionVars, brokerVars
<1>2. Shapes /\ Running /\ RuleKeeperServed
  BY DEF SessionInv
<1>3. Quiet
  BY <1>1, WorkSame DEF Quiet
<1>4. BrokerMoves
  BY <1>1, <1>2 DEF BrokerMoves, Shapes, BrokerOK
<1>5. Shapes'
  BY <1>1, <1>2 DEF Shapes, ChannelsOK, Live, TasksOK, BrokerOK, ToServerOK, ToClientOK
<1>6. WorkInPlace'
  BY <1>1, <1>2, WorkStays DEF Running
<1>7. \A d : InOutbox(d)' => Unwritten(d)'
  BY <1>1, <1>2, OutboxStays DEF Running, TagsKept
<1> QED
  BY <1>2, <1>3, <1>4, <1>5, <1>6, <1>7, QuietDone

LEMMA AcceptKeeps == ASSUME SessionInv, Accept PROVE SessionInv'
<1>1. Shapes /\ Running /\ RuleKeeperServed /\ phase = "accepting"
  BY DEF SessionInv, Accept
<1>2. CASE phase' = "new" /\ history' = history
  <2>1. staged = <<>>
    BY <1>1 DEF Running, WorkInPlace
  <2>2. UNCHANGED <<sessionVars, brokerVars, toServer, toClient, view, history>>
    BY <1>2 DEF Accept
  <2>3. OutboxOK' /\ (\A d : InOutbox(d)' => InOutbox(d)) /\ Woken'
    BY <1>1, <1>2 DEF Accept, outboxVars, Shapes, OutboxOK, InOutbox, Woken
  <2> QED
    BY <1>1, <1>2, <2>1, <2>2, <2>3, Moves
<1>3. CASE phase' = "over" /\ history' = [history EXCEPT !.ended = "handshake"]
  <2>1. subscribed = {}
    BY <1>1 DEF SessionInv
  <2>2. /\ channels' = channels /\ staged' = staged /\ active' = active /\ pending' = pending /\ fromQueue' = fromQueue
        /\ waiting' = waiting /\ taken' = taken /\ woken' = woken /\ pushing' = pushing
        /\ subscribed' = subscribed /\ held' = held /\ lastTag' = lastTag
        /\ toServer' = toServer /\ toClient' = toClient /\ view' = view
    BY DEF Accept, sessionVars, outboxVars, brokerVars
  <2>3. history' \in HistoryType /\ history'.ended = "handshake" /\ history'.discarded = history.discarded
        /\ history'.surprised = history.surprised /\ history'.stale = history.stale
    BY <1>1, <1>3 DEF Shapes, HistoryType, Endings
  <2>4. RuleKeeperServed'
    BY <1>1, <2>3 DEF RuleKeeperServed, EndedForCause, NothingAfterClose
  <2>5. Shapes'
    BY <1>1, <1>3, <2>2, <2>3 DEF Shapes, ChannelsOK, Live, TasksOK, OutboxOK, BrokerOK, ToServerOK, ToClientOK
  <2> QED
    BY <1>3, <2>1, <2>2, <2>4, <2>5 DEF SessionInv
<1> QED
  BY <1>2, <1>3 DEF Accept

LEMMA GreetKeeps == ASSUME SessionInv, Greet PROVE SessionInv'
<1>1. Shapes /\ Running /\ RuleKeeperServed /\ phase = "new" /\ phase' = "serving"
  BY DEF SessionInv, Greet
<1>2. /\ channels' = channels /\ staged' = staged /\ pending' = pending /\ fromQueue' = fromQueue
      /\ waiting' = waiting /\ taken' = taken /\ woken' = woken /\ pushing' = pushing
      /\ subscribed' = subscribed /\ held' = held /\ lastTag' = lastTag
      /\ toServer' = toServer /\ toClient' = toClient /\ view' = view /\ history' = history
  BY DEF Greet, outboxVars, brokerVars
<1>3. active' \in TaskType /\ active'.op = "connect" /\ active'.ch = 0
  BY DEF Greet, Frame, Blank, TaskType, Kinds
<1>4. active = Blank /\ staged = <<>>
  BY <1>1 DEF Running, WorkInPlace
<1>5. SameWork
  BY <1>2, <1>3, <1>4, BlankFields DEF SameWork, Doing
<1>6. Quiet /\ BrokerMoves
  BY <1>1, <1>2, <1>5 DEF Quiet, BrokerMoves, Shapes, BrokerOK
<1>7. Shapes'
  BY <1>1, <1>2, <1>3 DEF Shapes, ChannelsOK, Live, TasksOK, OutboxOK, BrokerOK, ToServerOK, ToClientOK
<1>8. WorkInPlace'
  <2>1. ASSUME NEW t, Doing(t) PROVE FALSE
    BY <1>4, <2>1, BlankFields DEF Doing
  <2>2. \A t : ~Doing(t)'
    BY <1>5, <2>1 DEF SameWork
  <2>3. PendingHere'
    BY <1>1, <1>2, <2>2 DEF Running, WorkInPlace, PendingHere, Usable, Live, Counted, TaskOn
  <2> QED
    BY <1>1, <1>2, <1>3, <1>4, <2>2, <2>3 DEF WorkInPlace
<1>9. Woken' /\ \A d : InOutbox(d)' => Unwritten(d)'
  BY <1>1, <1>2 DEF Woken, InOutbox, Unwritten, Running, TagsKept
<1> QED
  BY <1>1, <1>6, <1>7, <1>8, <1>9, QuietDone

LEMMA TakeStagedKeeps == ASSUME SessionInv, TakeStaged PROVE SessionInv'
<1>1. Shapes /\ Running /\ RuleKeeperServed /\ phase = "loop" /\ phase' = "serving" /\ staged # <<>>
  BY DEF SessionInv, TakeStaged
<1>2. /\ channels' = channels /\ pending' = pending /\ fromQueue' = fromQueue
      /\ waiting' = waiting /\ taken' = taken /\ woken' = woken /\ pushing' = pushing
      /\ subscribed' = subscribed /\ held' = held /\ lastTag' = lastTag
      /\ toServer' = toServer /\ toClient' = toClient /\ view' = view /\ history' = history
      /\ active' = Head(staged) /\ staged' = Tail(staged)
  BY DEF TakeStaged, outboxVars, brokerVars
<1>3. staged \in Seq(TaskType) /\ active = Blank
  BY <1>1 DEF Shapes, TasksOK, Running, WorkInPlace
<1>4. /\ Popped(staged, staged') /\ active' = staged[1] /\ staged[1] \in TaskType /\ staged' \in Seq(TaskType)
      /\ Len(staged) \in Nat /\ Len(staged) > 0
  BY <1>1, <1>2, <1>3, TakeOne
<1>5. SameWork
  <2>1. ASSUME NEW t, Doing(t) PROVE Doing(t)'
    <3>1. t.op \notin {"none", "connect"}
      BY <2>1 DEF Doing
    <3>2. PICK i \in 1 .. Len(staged) : t = staged[i]
      BY <1>3, <2>1, BlankFields DEF Doing
    <3>3. CASE i = 1
      BY <1>4, <3>1, <3>2, <3>3 DEF Doing
    <3>4. CASE i # 1
      <4>1. i - 1 \in 1 .. Len(staged') /\ staged'[i - 1] = staged[i]
        BY <1>4, <3>4 DEF Popped
      <4> QED
        BY <3>1, <3>2, <4>1 DEF Doing
    <3> QED
      BY <3>3, <3>4
  <2>2. ASSUME NEW t, Doing(t)' PROVE Doing(t)
    <3>1. t.op \notin {"none", "connect"}
      BY <2>2 DEF Doing
    <3>2. CASE t = active'
      BY <1>4, <3>1, <3>2 DEF Doing
    <3>3. ASSUME NEW i \in 1 .. Len(staged'), t = staged'[i] PROVE Doing(t)
      <4>1. i + 1 \in 1 .. Len(staged) /\ t = staged[i + 1]
        BY <1>4, <3>3 DEF Popped
      <4> QED
        BY <3>1, <4>1 DEF Doing
    <3> QED
      BY <2>2, <3>2, <3>3 DEF Doing
  <2> QED
    BY <2>1, <2>2 DEF SameWork
<1>6. Quiet /\ BrokerMoves
  BY <1>1, <1>2, <1>5 DEF Quiet, BrokerMoves, Shapes, BrokerOK
<1>7. Shapes'
  BY <1>1, <1>2, <1>4 DEF Shapes, ChannelsOK, Live, TasksOK, OutboxOK, BrokerOK, ToServerOK, ToClientOK
<1>8. WorkInPlace'
  <2>1. ASSUME NEW t, Doing(t)' PROVE InPlace(t)'
    <3>1. Doing(t) /\ InPlace(t)
      BY <1>1, <1>5, <2>1 DEF SameWork, Running, WorkInPlace
    <3>2. Usable(t.ch) => staged' = <<>>
      <4> SUFFICES ASSUME Usable(t.ch) PROVE staged' = <<>>
        OBVIOUS
      <4>1. Len(staged) = 1
        BY <1>1, <3>1 DEF InPlace
      <4> QED
        BY <1>4, <4>1 DEF Popped
    <3> QED
      BY <1>2, <3>1, <3>2 DEF InPlace, Usable, Live, Counted
  <2>2. PendingHere'
    BY <1>1, <1>2, <1>5 DEF Running, WorkInPlace, PendingHere, Usable, Live, Counted, TaskOn, SameWork
  <2>3. \A i \in 1 .. Len(staged) : staged[i].op \notin {"none", "connect"}
    BY <1>1 DEF Running, WorkInPlace
  <2>4. active'.op \notin {"none", "connect"}
    BY <1>4, <2>3
  <2>5. \A i \in 1 .. Len(staged') : staged'[i].op \notin {"none", "connect"}
    BY <1>4, <2>3 DEF Popped
  <2> QED
    BY <1>1, <2>1, <2>2, <2>4, <2>5 DEF WorkInPlace
<1>9. Woken' /\ \A d : InOutbox(d)' => Unwritten(d)'
  BY <1>1, <1>2 DEF Woken, InOutbox, Unwritten, Running, TagsKept
<1> QED
  BY <1>1, <1>6, <1>7, <1>8, <1>9, QuietDone

\* Taking what waits, going to sleep and waking up.
LEMMA LoopMoves == ASSUME SessionInv, Take \/ Wake \/ Beat PROVE SessionInv'
<1>1. Shapes /\ Running /\ phase \in {"loop", "select"}
  BY DEF SessionInv, Take, Wake, Beat
<1>2. phase = "select" => staged = <<>>
  BY <1>1 DEF Running, WorkInPlace
<1>3. UNCHANGED <<sessionVars, brokerVars, toServer, toClient, view, history>>
  BY DEF Take, Wake, Beat
<1>4. CASE Take
  <2>1. phase = "loop" /\ staged = <<>> /\ phase' \in {"writing", "select"} /\ taken' = waiting /\ waiting' = <<>>
        /\ woken' = woken /\ pushing' = pushing
    BY <1>4 DEF Take
  <2>2. OutboxOK' /\ Woken'
    BY <1>1, <2>1 DEF Shapes, OutboxOK, Woken
  <2>3. \A d : InOutbox(d)' => InOutbox(d)
    BY <2>1 DEF InOutbox
  <2> QED
    BY <1>1, <1>3, <2>1, <2>2, <2>3, Moves
<1>5. CASE Wake
  <2>1. phase = "select" /\ phase' = "loop" /\ woken' = FALSE /\ waiting' = waiting /\ taken' = taken /\ pushing' = pushing
    BY <1>5 DEF Wake
  <2>2. OutboxOK' /\ Woken' /\ \A d : InOutbox(d)' => InOutbox(d)
    BY <1>1, <2>1 DEF Shapes, OutboxOK, Woken, InOutbox
  <2> QED
    BY <1>1, <1>2, <1>3, <2>1, <2>2, Moves
<1>6. CASE Beat
  <2>1. phase = "select" /\ phase' = "loop" /\ UNCHANGED outboxVars
    BY <1>6 DEF Beat
  <2>2. OutboxOK' /\ Woken' /\ \A d : InOutbox(d)' => InOutbox(d)
    BY <1>1, <2>1 DEF Shapes, OutboxOK, Woken, outboxVars, InOutbox
  <2> QED
    BY <1>1, <1>2, <1>3, <2>1, <2>2, Moves
<1> QED
  BY <1>4, <1>5, <1>6

\* Another connection's publish, its signal, and the loss of the queue.
LEMMA BrokerKeeps == ASSUME SessionInv, Broker PROVE SessionInv'
<1>1. Shapes /\ Running /\ RuleKeeperServed /\ phase # "over" /\ phase' = phase
  BY DEF SessionInv, Broker, Push, Signal, QueueDeleted
<1>2. /\ channels' = channels /\ staged' = staged /\ active' = active /\ pending' = pending /\ fromQueue' = fromQueue
      /\ toServer' = toServer /\ toClient' = toClient /\ view' = view /\ history' = history
  BY DEF Broker, Push, Signal, QueueDeleted, sessionVars
<1>3. Quiet
  BY <1>2, WorkSame DEF Quiet
<1>4. WorkInPlace'
  BY <1>1, <1>2, WorkStays DEF Running, WorkInPlace
<1>5. lastTag \in Nat /\ held \subseteq [dtag : 1 .. lastTag, ch : Channel]
      /\ subscribed \subseteq [tag : Tag, ch : Channel, noAck : BOOLEAN] /\ MaxTag \in Nat
  BY <1>1, AmqpAssumption DEF Shapes, BrokerOK
<1>6. phase = "accepting" => subscribed = {}
  BY DEF SessionInv
<1>7. ASSUME NEW s \in subscribed, Push(s) PROVE SessionInv'
  <2> DEFINE d == [Frame("deliver", s.ch) EXCEPT !.tag = s.tag, !.dtag = lastTag + 1, !.noAck = s.noAck]
  <2>1. s.tag \in Tag /\ s.ch \in Channel /\ s.noAck \in BOOLEAN
    BY <1>5
  <2>2. d \in TaskType /\ d.op = "deliver" /\ d.ch = s.ch /\ d.dtag = lastTag + 1 /\ d.noAck = s.noAck
    <3>1. lastTag + 1 \in Nat
      BY <1>5
    <3> QED
      BY <2>1, <3>1 DEF Frame, Blank, TaskType, Kinds
  <2>3. /\ waiting' = Append(waiting, d) /\ taken' = taken /\ woken' = woken /\ pushing' = TRUE
        /\ subscribed' = subscribed /\ lastTag < MaxTag /\ lastTag' = lastTag + 1
        /\ held' = IF s.noAck THEN held ELSE held \cup {[dtag |-> lastTag + 1, ch |-> s.ch]}
    BY <1>7 DEF Push, PushAppend
  <2> HIDE DEF d
  <2>4. BrokerMoves
    <3>1. lastTag' \in Nat /\ lastTag <= lastTag' /\ subscribed' \subseteq subscribed
      BY <1>5, <2>3
    <3>2. \A h \in held' : h \in held \/ h = [dtag |-> lastTag + 1, ch |-> s.ch]
      BY <2>3
    <3> QED
      BY <3>1, <3>2 DEF BrokerMoves
  <2>5. waiting' \in Seq(TaskType) /\ Pushed(waiting, d, waiting') /\ OutboxOK'
    BY <1>1, <2>2, <2>3, AppendOne DEF Shapes, OutboxOK
  <2>6. BrokerOK'
    <3>1. lastTag' \in 0 .. MaxTag /\ fromQueue' \subseteq 1 .. lastTag'
      BY <1>1, <1>2, <1>5, <2>3 DEF Shapes, BrokerOK
    <3>2. held' \subseteq [dtag : 1 .. lastTag', ch : Channel]
      <4>1. \A h \in held : h \in [dtag : 1 .. lastTag', ch : Channel]
        BY <1>5, <2>3
      <4>2. [dtag |-> lastTag + 1, ch |-> s.ch] \in [dtag : 1 .. lastTag', ch : Channel]
        BY <1>5, <2>1, <2>3
      <4> QED
        BY <2>3, <4>1, <4>2
    <3> QED
      BY <1>5, <2>3, <3>1, <3>2 DEF BrokerOK
  <2>7. Shapes'
    BY <1>1, <1>2, <2>5, <2>6 DEF Shapes, ChannelsOK, Live, TasksOK, ToServerOK, ToClientOK
  <2>8. ASSUME NEW e, InOutbox(e)' PROVE Unwritten(e)'
    <3>1. InOutbox(e) \/ e = d
      BY <2>3, <2>5, <2>8 DEF InOutbox, Pushed
    <3>2. CASE InOutbox(e)
      <4>1. Unwritten(e)
        BY <1>1, <3>2 DEF Running, TagsKept
      <4>2. e.dtag \in 1 .. lastTag' /\ e.dtag # lastTag + 1
        BY <1>5, <2>3, <4>1 DEF Unwritten
      <4>3. \A h \in held' : h \in held \/ h.dtag = lastTag + 1
        BY <2>4 DEF BrokerMoves
      <4> QED
        BY <4>1, <4>2, <4>3 DEF Unwritten
    <3>3. CASE e = d
      <4>1. ASSUME NEW h \in held', h.dtag = lastTag + 1 PROVE h.ch = s.ch
        <5>1. h \notin held
          BY <1>5, <4>1
        <5>2. h = [dtag |-> lastTag + 1, ch |-> s.ch]
          BY <2>3, <5>1
        <5> QED
          BY <5>2
      <4>2. d.dtag \in 1 .. lastTag'
        BY <1>5, <2>2, <2>3
      <4> QED
        BY <2>1, <2>2, <3>3, <4>1, <4>2 DEF Unwritten
    <3> QED
      BY <3>1, <3>2, <3>3
  <2>9. Woken'
    BY <2>3 DEF Woken
  <2> QED
    BY <1>1, <1>3, <1>4, <1>6, <2>3, <2>4, <2>7, <2>8, <2>9, QuietDone
<1>8. CASE Signal
  <2>1. /\ waiting' = waiting /\ taken' = taken /\ woken' = TRUE /\ pushing' = FALSE
        /\ subscribed' = subscribed /\ held' = held /\ lastTag' = lastTag
    BY <1>8 DEF Signal, PushSignal, brokerVars
  <2>2. BrokerMoves
    BY <1>5, <2>1 DEF BrokerMoves
  <2>3. Shapes'
    BY <1>1, <1>2, <2>1 DEF Shapes, ChannelsOK, Live, TasksOK, OutboxOK, BrokerOK, ToServerOK, ToClientOK
  <2>4. Woken' /\ \A d : InOutbox(d)' => Unwritten(d)'
    BY <1>1, <2>1 DEF Woken, InOutbox, Unwritten, Running, TagsKept
  <2> QED
    BY <1>1, <1>3, <1>4, <1>6, <2>1, <2>2, <2>3, <2>4, QuietDone
<1>9. CASE QueueDeleted
  <2>1. /\ waiting' = waiting /\ taken' = taken /\ woken' = woken /\ pushing' = pushing
        /\ subscribed' = {} /\ held' = held /\ lastTag' = lastTag
    BY <1>9 DEF QueueDeleted, outboxVars
  <2>2. BrokerMoves
    BY <1>5, <2>1 DEF BrokerMoves
  <2>3. Shapes'
    BY <1>1, <1>2, <2>1 DEF Shapes, ChannelsOK, Live, TasksOK, OutboxOK, BrokerOK, ToServerOK, ToClientOK
  <2>4. Woken' /\ \A d : InOutbox(d)' => Unwritten(d)'
    BY <1>1, <2>1 DEF Woken, InOutbox, Unwritten, Running, TagsKept
  <2> QED
    BY <1>1, <1>3, <1>4, <2>1, <2>2, <2>3, <2>4, QuietDone
<1> QED
  BY <1>7, <1>8, <1>9 DEF Broker

\* The connection ends for a reason that is nobody's fault.
LEMMA EndsKeep ==
  ASSUME SessionInv, phase # "over", EndOfStream \/ DropConnection \/ RefuseConnection
  PROVE  SessionInv'
<1>1. Shapes /\ RuleKeeperServed
  BY DEF SessionInv
<1>2. ToServerOK'
  BY <1>1 DEF EndOfStream, DropConnection, RefuseConnection, Serving, Shapes, ToServerOK
<1>3. CASE EndOfStream
  <2>1. Allowed("left") /\ Over("left") /\ toClient' = toClient
    BY <1>3 DEF EndOfStream, Allowed, Endings
  <2>2. ToClientOK'
    BY <1>1, <2>1 DEF Shapes, ToClientOK
  <2> QED
    BY <1>1, <1>2, <2>1, <2>2, OverKeeps
<1>4. CASE DropConnection
  <2>1. Allowed("dropped") /\ Over("dropped") /\ toClient' = toClient
    BY <1>4 DEF DropConnection, Allowed, Endings
  <2>2. ToClientOK'
    BY <1>1, <2>1 DEF Shapes, ToClientOK
  <2> QED
    BY <1>1, <1>2, <2>1, <2>2, OverKeeps
<1>5. CASE RefuseConnection
  <2> DEFINE why == IF active.broken THEN "broken frame" ELSE "refused"
  <2>1. Over(why) /\ toClient' = toClient \o <<Frame("connectionClose", 0)>>
    BY <1>5 DEF RefuseConnection, Fatal, Send
  <2>2. Allowed(why)
    BY DEF Allowed, Endings
  <2>3. ToClientOK'
    BY <1>1, <2>1, SendPlain DEF Shapes, Kinds
  <2> HIDE DEF why
  <2> QED
    BY <1>1, <1>2, <2>1, <2>2, <2>3, OverKeeps
<1> QED
  BY <1>3, <1>4, <1>5

----------------------------------------------------------------------------
(* What a step leaves alone *)

LEMMA NowIs ==
  ASSUME NEW c \in Channel, ChannelsOK
  PROVE  /\ Now(c).at = "usable" <=> Usable(c)
         /\ Now(c) = Shut <=> Shutting(c)
         /\ Now(c).at = "gone" <=> ~Live(c)
         /\ ~Live(c) => Now(c) = NoRoom
         /\ Usable(c) => /\ Now(c).confirms = channels[c].confirms
                         /\ Now(c).count = channels[c].published + Accepted(c)
                         /\ Now(c).owes = Owed(c)
<1>1. channels[c].live \in BOOLEAN /\ channels[c].closing \in BOOLEAN
  BY DEF ChannelsOK, ChannelType
<1>2. CASE ~channels[c].live
  BY <1>2 DEF Now, NoRoom, Shut, Usable, Live, Shutting
<1>3. CASE channels[c].live /\ channels[c].closing
  BY <1>3 DEF Now, Shut, Usable, Live, Shutting
<1>4. CASE channels[c].live /\ ~channels[c].closing
  BY <1>4 DEF Now, Shut, Usable, Live, Shutting
<1> QED
  BY <1>1, <1>2, <1>3, <1>4

\* Streams the channel has no part in.
Elsewhere(c) == toClient' = toClient \/ \E g : g.ch # c /\ Pushed(toClient, g, toClient')

LEMMA ReadOther ==
  ASSUME NEW c \in Channel, InProtocol(c), history \in HistoryType, history' \in HistoryType,
         Popped(toServer, toServer'), ~Mine(toServer[1], c), Elsewhere(c),
         channels'[c] = channels[c], pending' = pending \/ (pending.ch # c /\ pending'.ch # c),
         \A t : t.ch = c => (Doing(t)' <=> Doing(t)), view' = view,
         history'.stale = history.stale, Discarded => Discarded'
  PROVE  InProtocol(c)'
<1>1. Now(c)' = Now(c) /\ (Pristine(c)' <=> Pristine(c)) /\ (Tearing(c)' <=> Tearing(c))
  BY SameBooks
<1>2. history.stale \in BOOLEAN /\ Discarded \in BOOLEAN /\ Discarded' \in BOOLEAN
  BY DEF HistoryType, Discarded
<1>3. Protocol(c, toServer, toClient, Now(c), view[c], Pristine(c), Tearing(c), history.stale, Discarded)
  BY DEF InProtocol
<1>4. Protocol(c, toServer', toClient, Now(c), view[c], Pristine(c), Tearing(c), history.stale, Discarded')
  BY <1>2, <1>3, PopSame
<1>5. Protocol(c, toServer', toClient', Now(c), view[c], Pristine(c), Tearing(c), history.stale, Discarded')
  <2>1. CASE toClient' = toClient
    BY <1>4, <2>1
  <2>2. ASSUME NEW g, g.ch # c, Pushed(toClient, g, toClient')
        PROVE  Protocol(c, toServer', toClient', Now(c), view[c], Pristine(c), Tearing(c), history.stale, Discarded')
    BY <1>4, <2>2, SendOther
  <2> QED
    BY <2>1, <2>2 DEF Elsewhere
<1>6. Protocol(c, toServer', toClient', Now(c), view[c], Pristine(c)', Tearing(c)', history.stale, Discarded')
  BY <1>1, <1>5, Weaken
<1> QED
  BY <1>1, <1>6 DEF InProtocol

LEMMA SettleableStays ==
  ASSUME NEW c, NEW T, Settleable(T, c)', view'[c].holds = view[c].holds,
         toServer' = toServer \/ Popped(toServer, toServer'),
         toClient' = toClient \/ \E g : Pushed(toClient, g, toClient') /\ (g.ch = c => ~Owned(g))
  PROVE  Settleable(T, c)
<1>1. T # 0
  BY DEF Settleable
<1>2. ASSUME NEW k \in Up(c, toServer'), toServer'[k].op = "settle", toServer'[k].dtag = T PROVE Settleable(T, c)
  <2>1. CASE toServer' = toServer
    BY <1>1, <1>2, <2>1 DEF Settleable
  <2>2. CASE Popped(toServer, toServer')
    <3>1. k + 1 \in Up(c, toServer) /\ toServer'[k] = toServer[k + 1]
      BY <1>2, <2>2, PopUp
    <3> QED
      BY <1>1, <1>2, <3>1 DEF Settleable
  <2> QED
    BY <2>1, <2>2
<1>3. ASSUME NEW i \in Down(c, toClient'), Owned(toClient'[i]), toClient'[i].dtag = T PROVE Settleable(T, c)
  <2>1. CASE toClient' = toClient
    BY <1>1, <1>3, <2>1 DEF Settleable
  <2>2. ASSUME NEW g, Pushed(toClient, g, toClient'), g.ch = c => ~Owned(g) PROVE Settleable(T, c)
    <3>1. /\ Len(toClient) \in Nat /\ toClient'[Len(toClient) + 1] = g
          /\ i \in Down(c, toClient) \/ (i = Len(toClient) + 1 /\ g.ch = c)
          /\ \A j \in Down(c, toClient) : toClient'[j] = toClient[j]
      BY <1>3, <2>2, PushDown
    <3>2. i \in Down(c, toClient) /\ toClient'[i] = toClient[i]
      BY <1>3, <2>2, <3>1
    <3> QED
      BY <1>1, <1>3, <3>2 DEF Settleable
  <2> QED
    BY <2>1, <2>2
<1> QED
  BY <1>1, <1>2, <1>3 DEF Settleable

LEMMA TagsStay ==
  ASSUME NEW c \in Channel, HoldsNothing(c), AllKnown(c), view'[c] = view[c], lastTag' = lastTag,
         Shutting(c) => Shutting(c)', Shutting(c)' => Shutting(c) \/ view[c].state # "opening",
         \A T : Settleable(T, c)' => Settleable(T, c),
         \A T : Settleable(T, c) /\ Known(T, c) /\ ~Shutting(c)' => Known(T, c)'
  PROVE  HoldsNothing(c)' /\ AllKnown(c)'
<1>1. HoldsNothing(c)'
  BY DEF HoldsNothing
<1>2. ASSUME NEW T, Settleable(T, c)' PROVE T \in 1 .. lastTag' /\ (~Shutting(c)' => Known(T, c)')
  BY <1>2 DEF AllKnown
<1> QED
  BY <1>1, <1>2 DEF AllKnown

----------------------------------------------------------------------------
(* One frame of the client *)

LEMMA Reading ==
  ASSUME SessionInv, phase = "select", toServer # <<>>, toServer' = Tail(toServer)
  PROVE  /\ Shapes /\ Running /\ RuleKeeperServed
         /\ staged = <<>> /\ active = Blank /\ \A t : ~Doing(t)
         /\ ToServerOK' /\ Popped(toServer, toServer') /\ Head(toServer) = toServer[1]
         /\ toServer[1] \in TaskType /\ toServer[1].ch \in Channel
         /\ toServer[1].op = "consume" => toServer[1].tag \in Tag
<1>1. Shapes /\ Running /\ RuleKeeperServed
  BY DEF SessionInv
<1>2. staged = <<>> /\ active = Blank
  BY <1>1 DEF Running, WorkInPlace
<1>3. \A t : ~Doing(t)
  BY <1>2, BlankFields DEF Doing
<1>4. /\ ToServerOK' /\ Popped(toServer, toServer') /\ Head(toServer) = toServer[1]
      /\ toServer[1] \in TaskType /\ toServer[1].ch \in Channel
      /\ toServer[1].op = "consume" => toServer[1].tag \in Tag
  BY <1>1, ReadShape DEF Shapes
<1> QED
  BY <1>1, <1>2, <1>3, <1>4

\* What the head of the stream may be.
LEMMA HeadFits ==
  ASSUME SessionInv, phase = "select", NEW c \in Channel, Popped(toServer, toServer'), Mine(toServer[1], c)
  PROVE  /\ Due(Now(c), toServer[1])
         /\ Live(c) \/ toServer[1].op = "open"
         /\ toServer[1].op = "open" => ~Live(c)
         /\ Usable(c) => (toServer[1].op = "header" <=> Owed(c) = 2) /\ (toServer[1].op = "body" <=> Owed(c) = 1)
         /\ Shutting(c) /\ toServer[1].op \in {"header", "body"} => Discarded
<1>1. InProtocol(c) /\ ChannelsOK
  BY DEF SessionInv, Running, ProtocolKept, Shapes
<1>2. Replayed(c, toServer, Now(c), view[c]) /\ StrayHasCause(c, toServer, Now(c), view[c], Discarded)
  BY <1>1 DEF InProtocol, Protocol, Course
<1>3. Len(toServer) \in Nat /\ Len(toServer) > 0
  BY DEF Popped
<1>4. Due(Now(c), toServer[1])
  BY <1>2, <1>3, HeadDue
<1>5. /\ Now(c).at = "usable" <=> Usable(c)
      /\ Now(c) = Shut <=> Shutting(c)
      /\ Now(c).at = "gone" <=> ~Live(c)
      /\ Usable(c) => Now(c).owes = Owed(c)
  BY <1>1, NowIs
<1>6. Shutting(c) /\ toServer[1].op \in {"header", "body"} => Discarded
  <2> SUFFICES ASSUME Shutting(c), toServer[1].op \in {"header", "body"} PROVE Discarded
    OBVIOUS
  <2>1. 1 \in Up(c, toServer) /\ \A j \in Up(c, toServer) : j \in 1 .. Len(toServer)
    BY <1>3 DEF Up
  <2>2. HasCause(c, toServer, 1, Discarded)
    BY <1>2, <1>5, <2>1 DEF StrayHasCause
  <2> QED
    BY <1>3, <2>1, <2>2 DEF HasCause
<1> QED
  BY <1>4, <1>5, <1>6 DEF Due

\* The connection is closed on the client, for a reason it gave itself.
LEMMA FatalKeeps ==
  ASSUME Shapes, RuleKeeperServed, NEW f, NEW why, Fatal(f, why), f.broken \/ Allowed(why), ToServerOK'
  PROVE  SessionInv'
<1> DEFINE reason == IF f.broken THEN "broken frame" ELSE why
<1>1. Over(reason) /\ toClient' = toClient \o <<Frame("connectionClose", 0)>>
  BY DEF Fatal, Send
<1>2. Allowed(reason)
  BY DEF Allowed, Endings
<1>3. ToClientOK'
  BY <1>1, SendPlain DEF Shapes, Kinds
<1> HIDE DEF reason
<1> QED
  BY <1>1, <1>2, <1>3, OverKeeps

LEMMA ContentKeeps ==
  ASSUME SessionInv, phase = "select", toServer # <<>>, toServer' = Tail(toServer),
         NEW f, f = toServer[1], f.op \in {"header", "body"}
  PROVE  /\ pending.ch # f.ch => (Fatal(f, "stray content") => SessionInv')
         /\ pending.ch = f.ch => /\ Usable(f.ch) /\ pending.got = 0
                                 /\ f.op = "header" <=> pending.size = 0
                                 /\ f.op = "body" <=> pending.size = 1
<1>1. /\ Shapes /\ Running /\ RuleKeeperServed /\ ToServerOK' /\ Popped(toServer, toServer') /\ f.ch \in Channel
  BY Reading
<1>2. Mine(toServer[1], f.ch)
  BY DEF Mine
<1>3. /\ Live(f.ch) \/ f.op = "open"
      /\ Usable(f.ch) => (f.op = "header" <=> Owed(f.ch) = 2) /\ (f.op = "body" <=> Owed(f.ch) = 1)
      /\ Shutting(f.ch) /\ f.op \in {"header", "body"} => Discarded
  BY <1>1, <1>2, HeadFits
<1>4. pending.ch # f.ch => Discarded
  BY <1>3 DEF Owed, Usable, Live, Shutting
<1>5. pending.ch # f.ch => (Fatal(f, "stray content") => SessionInv')
  BY <1>1, <1>4, FatalKeeps DEF Allowed, Endings
<1>6. f.ch # 0 /\ pending.size \in {0, 1}
  BY <1>1, AmqpAssumption DEF Shapes, TasksOK, PendingType
<1>7. pending.ch = f.ch => Usable(f.ch) /\ pending.got = 0
  BY <1>1, <1>6 DEF Running, WorkInPlace, PendingHere
<1> QED
  BY <1>3, <1>5, <1>6, <1>7 DEF Owed

\* The loop goes round with its books in order.
LEMMA RoundDone ==
  ASSUME SessionInv, phase # "over", Round, ToServerOK', ToClientOK', ChannelsOK',
         staged' \in Seq(TaskType), pending' \in PendingType, fromQueue' \subseteq fromQueue,
         history' \in HistoryType, history'.ended = history.ended, history'.surprised = history.surprised,
         history'.stale = history.stale, Discarded => Discarded',
         WorkInPlace', ProtocolKept', \A c \in Channel : HoldsNothing(c)' /\ AllKnown(c)',
         \A t : Doing(t)' => Named(t)', NoneOrphaned'
  PROVE  SessionInv'
<1>1. Shapes /\ Running /\ RuleKeeperServed
  BY DEF SessionInv
<1>2. /\ phase' = "loop" /\ active' = active /\ waiting' = waiting /\ taken' = taken /\ woken' = woken /\ pushing' = pushing
      /\ subscribed' = subscribed /\ held' = held /\ lastTag' = lastTag /\ view' = view
  BY DEF Round, outboxVars, brokerVars
<1>3. TasksOK' /\ OutboxOK' /\ BrokerOK'
  BY <1>1, <1>2 DEF Shapes, TasksOK, OutboxOK, BrokerOK
<1>4. Shapes'
  BY <1>1, <1>2, <1>3 DEF Shapes
<1>5. RuleKeeperServed'
  BY <1>1 DEF RuleKeeperServed, EndedForCause, NothingAfterClose, Discarded
<1>6. \A d : InOutbox(d)' => InOutbox(d)
  BY <1>2 DEF InOutbox
<1>7. \A d : InOutbox(d)' => Unwritten(d)'
  BY <1>1, <1>2, <1>6, OutboxStays DEF Running, TagsKept
<1>8. Woken'
  BY <1>2 DEF Woken
<1> QED
  BY <1>2, <1>4, <1>5, <1>7, <1>8 DEF SessionInv, Running, TagsKept

\* What is said to the client while a frame is read.
Replies(c) ==
  \/ toClient' = toClient
  \/ \E g \in TaskType : g.ch = c /\ ~Owned(g) /\ g.op # "confirm" /\ toClient' = toClient \o <<g>>
\* Tags that are forgotten for another channel's sake are noted.
Forgets(c) ==
  /\ fromQueue' \subseteq fromQueue /\ history.blurred \subseteq history'.blurred
  /\ \A h \in held : h.dtag \in fromQueue => h.dtag \in fromQueue' \/ h.ch = c \/ h.dtag \in history'.blurred

LEMMA RepliesShape ==
  ASSUME NEW c, Replies(c), ToClientOK
  PROVE  /\ ToClientOK'
         /\ toClient' = toClient \/ \E g : Pushed(toClient, g, toClient') /\ g.ch = c /\ ~Owned(g)
<1>1. CASE toClient' = toClient
  BY <1>1 DEF ToClientOK
<1>2. ASSUME NEW g \in TaskType, g.ch = c, ~Owned(g), g.op # "confirm", toClient' = toClient \o <<g>>
      PROVE  ToClientOK' /\ Pushed(toClient, g, toClient')
  BY <1>2, SendShape DEF Truthful
<1> QED
  BY <1>1, <1>2 DEF Replies

LEMMA ReadDone ==
  ASSUME SessionInv, phase = "select", toServer # <<>>, toServer' = Tail(toServer), NEW b, b = toServer[1].ch,
         Round, ChannelsOK', staged' \in Seq(TaskType), pending' \in PendingType,
         history' \in HistoryType, history'.ended = history.ended, history'.surprised = history.surprised,
         history'.stale = history.stale, Discarded => Discarded', Replies(b), Forgets(b),
         \A c \in Channel : c # b => channels'[c] = channels[c],
         pending' = pending \/ (pending.ch \in {0, b} /\ pending'.ch \in {0, b}),
         \A t : Doing(t)' => t.ch = b /\ Named(t)',
         WorkInPlace', InProtocol(b)', HoldsNothing(b)' /\ AllKnown(b)', NoneOrphaned'
  PROVE  SessionInv'
<1>1. /\ Shapes /\ Running /\ RuleKeeperServed /\ \A t : ~Doing(t)
      /\ ToServerOK' /\ Popped(toServer, toServer') /\ b \in Channel
  BY Reading
<1>2. /\ ToClientOK'
      /\ toClient' = toClient \/ \E g : Pushed(toClient, g, toClient') /\ g.ch = b /\ ~Owned(g)
  BY <1>1, RepliesShape DEF Shapes
<1>3. subscribed' = subscribed /\ held' = held /\ lastTag' = lastTag /\ view' = view
  BY DEF Round, brokerVars
<1>4. 0 \notin Channel
  BY AmqpAssumption
<1>5. ASSUME NEW c \in Channel, c # b PROVE InProtocol(c)' /\ HoldsNothing(c)' /\ AllKnown(c)'
  <2>1. InProtocol(c) /\ HoldsNothing(c) /\ AllKnown(c) /\ history \in HistoryType
    BY <1>1 DEF Running, ProtocolKept, TagsKept, Shapes
  <2>2. ~Mine(toServer[1], c) /\ channels'[c] = channels[c]
    BY <1>5 DEF Mine
  <2>3. pending' = pending \/ (pending.ch # c /\ pending'.ch # c)
    BY <1>4, <1>5
  <2>4. \A t : t.ch = c => (Doing(t)' <=> Doing(t))
    BY <1>1, <1>5
  <2>5. Elsewhere(c)
    BY <1>2, <1>5 DEF Elsewhere
  <2>6. InProtocol(c)'
    BY <1>1, <1>3, <2>1, <2>2, <2>3, <2>4, <2>5, ReadOther
  <2>7. toClient' = toClient \/ \E g : Pushed(toClient, g, toClient') /\ (g.ch = c => ~Owned(g))
    BY <1>2
  <2>8. \A T : Settleable(T, c)' => Settleable(T, c)
    BY <1>1, <1>3, <2>7, SettleableStays
  <2>9. Shutting(c)' <=> Shutting(c)
    BY <2>2 DEF Shutting
  <2>10. ASSUME NEW T, Known(T, c) PROVE Known(T, c)'
    BY <1>1, <1>3, <1>5, <2>10 DEF Known, Forgets
  <2> QED
    BY <1>3, <2>1, <2>6, <2>8, <2>9, <2>10, TagsStay
<1>6. ProtocolKept' /\ \A c \in Channel : HoldsNothing(c)' /\ AllKnown(c)'
  BY <1>1, <1>5 DEF ProtocolKept
<1>7. fromQueue' \subseteq fromQueue
  BY DEF Forgets
<1> QED
  BY <1>1, <1>2, <1>6, <1>7, RoundDone

\* Nothing is forgotten, and the channel's own tags are as they were.
LEMMA ReadTags ==
  ASSUME SessionInv, phase = "select", toServer # <<>>, toServer' = Tail(toServer), NEW b, b = toServer[1].ch,
         Round, fromQueue' = fromQueue, history'.blurred = history.blurred, Replies(b),
         Shutting(b) => Shutting(b)', Shutting(b)' => Shutting(b) \/ view[b].state # "opening"
  PROVE  Forgets(b) /\ HoldsNothing(b)' /\ AllKnown(b)'
<1>1. /\ Shapes /\ Running /\ \A t : ~Doing(t)
      /\ Popped(toServer, toServer') /\ b \in Channel
  BY Reading
<1>2. toClient' = toClient \/ \E g : Pushed(toClient, g, toClient') /\ g.ch = b /\ ~Owned(g)
  BY <1>1, RepliesShape DEF Shapes
<1>3. subscribed' = subscribed /\ held' = held /\ lastTag' = lastTag /\ view' = view
  BY DEF Round, brokerVars
<1>4. HoldsNothing(b) /\ AllKnown(b)
  BY <1>1 DEF Running, TagsKept
<1>5. \A T : Settleable(T, b)' => Settleable(T, b)
  BY <1>1, <1>2, <1>3, SettleableStays
<1>6. ASSUME NEW T, Known(T, b) PROVE Known(T, b)'
  BY <1>1, <1>3, <1>6 DEF Known
<1>7. HoldsNothing(b)' /\ AllKnown(b)'
  BY <1>1, <1>3, <1>4, <1>5, <1>6, TagsStay
<1> QED
  BY <1>7 DEF Forgets

\* Between a message's pieces nothing else is read on their channel.
LEMMA Unpending ==
  ASSUME SessionInv, phase = "select", toServer # <<>>, toServer' = Tail(toServer), NEW f, f = toServer[1],
         f.op \notin {"header", "body", "bye"}
  PROVE  pending.ch # f.ch /\ Mine(f, f.ch)
<1>1. Running /\ Popped(toServer, toServer') /\ f.ch \in Channel /\ f.ch # 0
  BY Reading, AmqpAssumption
<1>2. Mine(f, f.ch)
  BY DEF Mine
<1>3. Usable(f.ch) => Owed(f.ch) # 2 /\ Owed(f.ch) # 1
  BY <1>1, <1>2, HeadFits
<1>4. pending.ch = f.ch => Usable(f.ch)
  BY <1>1 DEF Running, WorkInPlace, PendingHere
<1> QED
  BY <1>2, <1>3, <1>4 DEF Owed

LEMMA NoneStaged ==
  ASSUME \A t : ~Doing(t), active' = active, staged' = staged
  PROVE  \A t : ~Doing(t)'
BY DEF Doing

LEMMA OneStaged ==
  ASSUME staged = <<>>, active = Blank, active' = active, NEW t \in TaskType, staged' = Append(staged, t),
         t.op \notin {"none", "connect"}
  PROVE  /\ staged' \in Seq(TaskType) /\ Len(staged') = 1 /\ staged'[1] = t
         /\ \A s : Doing(s)' <=> s = t
<1>1. staged' \in Seq(TaskType) /\ Len(staged') = 1 /\ staged'[1] = t
  OBVIOUS
<1>2. \A s : Doing(s)' <=> s = t
  BY <1>1, BlankFields DEF Doing
<1> QED
  BY <1>1, <1>2

LEMMA StillKept ==
  ASSUME NoneOrphaned, \A t : ~Doing(t), subscribed' = subscribed, history.leaked \subseteq history'.leaked,
         \A s \in subscribed : Usable(s.ch) /\ s.tag \in channels[s.ch].consumers => Kept(s)'
  PROVE  NoneOrphaned'
<1>1. ASSUME NEW s \in subscribed PROVE Kept(s)'
  <2>1. Kept(s)
    BY DEF NoneOrphaned
  <2> QED
    BY <2>1 DEF Kept
<1> QED
  BY <1>1 DEF NoneOrphaned

LEMMA KeptAlike ==
  ASSUME NEW s \in subscribed, Usable(s.ch), s.tag \in channels[s.ch].consumers, Usable(s.ch)',
         channels'[s.ch].consumers = channels[s.ch].consumers
  PROVE  Kept(s)'
BY DEF Kept

\* Nothing is staged: only what is said of the channels is left to show.
LEMMA IdleWork ==
  ASSUME WorkInPlace, \A t : ~Doing(t)', staged = <<>>, active = Blank, staged' = staged, active' = active,
         phase' = "loop", PendingHere'
  PROVE  WorkInPlace'
<1>1. Len(staged) = 0 /\ Blank.op # "connect"
  BY DEF Blank
<1> QED
  BY <1>1 DEF WorkInPlace

LEMMA DiscardKeeps ==
  ASSUME SessionInv, phase = "select", toServer # <<>>, toServer' = Tail(toServer), NEW f, f = toServer[1],
         f.op \notin {"header", "body", "bye", "open", "closeOk"}, Discard(f)
  PROVE  SessionInv'
<1>1. /\ Shapes /\ Running /\ RuleKeeperServed /\ staged = <<>> /\ active = Blank /\ \A t : ~Doing(t)
      /\ Popped(toServer, toServer') /\ f.ch \in Channel
  BY Reading
<1>2. /\ Shutting(f.ch) /\ Round /\ channels' = channels /\ staged' = staged /\ pending' = pending
      /\ fromQueue' = fromQueue /\ toClient' = toClient
      /\ history' = [history EXCEPT !.discarded = IF f.op = "publish" THEN @ \cup {f.ch} ELSE @]
  BY DEF Discard, Shutting, Live
<1>3. /\ phase' = "loop" /\ active' = active /\ subscribed' = subscribed /\ held' = held /\ lastTag' = lastTag /\ view' = view
  BY <1>2 DEF Round, brokerVars
<1>4. /\ history' \in HistoryType /\ history'.ended = history.ended /\ history'.surprised = history.surprised
      /\ history'.stale = history.stale /\ history'.blurred = history.blurred /\ history'.leaked = history.leaked
      /\ history \in HistoryType
      /\ history'.discarded = IF f.op = "publish" THEN history.discarded \cup {f.ch} ELSE history.discarded
  BY <1>1, <1>2 DEF Shapes, HistoryType
<1>5. (Discarded => Discarded') /\ (f.op = "publish" => Discarded')
  BY <1>4 DEF Discarded
<1>6. \A t : ~Doing(t)'
  BY <1>1, <1>2, <1>3, NoneStaged
<1>7. Replies(f.ch) /\ (Shutting(f.ch)' <=> Shutting(f.ch))
  BY <1>2 DEF Replies, Shutting
<1>8. Forgets(f.ch) /\ HoldsNothing(f.ch)' /\ AllKnown(f.ch)'
  BY <1>2, <1>4, <1>7, ReadTags
<1>9. InProtocol(f.ch)'
  <2>1. Now(f.ch)' = Now(f.ch) /\ (Pristine(f.ch)' <=> Pristine(f.ch)) /\ (Tearing(f.ch)' <=> Tearing(f.ch))
    BY <1>1, <1>2, <1>6, SameBooks
  <2>2. Now(f.ch) = Shut
    BY <1>1, <1>2, NowIs DEF Shapes
  <2>3. Protocol(f.ch, toServer, toClient, Now(f.ch), view[f.ch], Pristine(f.ch), Tearing(f.ch), history.stale, Discarded)
    BY <1>1 DEF Running, ProtocolKept, InProtocol
  <2>4. history.stale \in BOOLEAN /\ Discarded \in BOOLEAN /\ Discarded' \in BOOLEAN /\ f.op \notin Anew
    BY <1>4 DEF HistoryType, Discarded, Anew
  <2>5. Protocol(f.ch, toServer', toClient, Now(f.ch), view[f.ch], Pristine(f.ch), Tearing(f.ch), history.stale, Discarded')
    BY <1>1, <1>5, <2>2, <2>3, <2>4, PopSame
  <2>6. Protocol(f.ch, toServer', toClient, Now(f.ch), view[f.ch], Pristine(f.ch)', Tearing(f.ch)', history.stale, Discarded')
    BY <2>1, <2>5, Weaken
  <2> QED
    BY <1>2, <1>3, <1>4, <2>1, <2>6 DEF InProtocol
<1>10. WorkInPlace'
  <2>1. PendingHere'
    BY <1>1, <1>2, <1>6 DEF Running, WorkInPlace, PendingHere, Usable, Live, Counted, TaskOn
  <2> QED
    BY <1>1, <1>2, <1>3, <1>6, <2>1, IdleWork DEF Running
<1>11. NoneOrphaned'
  <2>1. \A s \in subscribed : Usable(s.ch) => Usable(s.ch)'
    BY <1>2 DEF Usable, Live
  <2>2. \A s \in subscribed : Usable(s.ch) /\ s.tag \in channels[s.ch].consumers => Kept(s)'
    BY <1>2, <2>1, KeptAlike
  <2> QED
    BY <1>1, <1>3, <1>4, <2>2, StillKept DEF Running
<1>12. ChannelsOK' /\ staged' \in Seq(TaskType) /\ pending' \in PendingType
  BY <1>1, <1>2 DEF Shapes, ChannelsOK, Live, TasksOK
<1> QED
  BY <1>1, <1>2, <1>4, <1>5, <1>6, <1>7, <1>8, <1>9, <1>10, <1>11, <1>12, ReadDone

LEMMA OpenKeeps ==
  ASSUME SessionInv, phase = "select", toServer # <<>>, toServer' = Tail(toServer), NEW f, f = toServer[1],
         f.op = "open", OpenChannel(f)
  PROVE  SessionInv'
<1>1. /\ Shapes /\ Running /\ RuleKeeperServed /\ staged = <<>> /\ active = Blank /\ \A t : ~Doing(t)
      /\ Popped(toServer, toServer') /\ f.ch \in Channel
  BY Reading
<1>2. pending.ch # f.ch /\ Mine(f, f.ch)
  BY Unpending
<1>3. ~Live(f.ch)
  BY <1>1, <1>2, HeadFits
<1>4. /\ Round /\ toClient' = toClient \o <<Frame("openOk", f.ch)>>
      /\ channels' = [channels EXCEPT ![f.ch] = [Gone EXCEPT !.live = TRUE]]
      /\ staged' = staged /\ pending' = pending /\ fromQueue' = fromQueue /\ history' = history
  BY <1>3 DEF OpenChannel, Send
<1>5. /\ phase' = "loop" /\ active' = active /\ subscribed' = subscribed /\ held' = held /\ lastTag' = lastTag /\ view' = view
  BY <1>4 DEF Round, brokerVars
<1>6. /\ channels \in [Channel -> ChannelType] /\ channels'[f.ch] = [Gone EXCEPT !.live = TRUE]
      /\ \A c \in Channel : c # f.ch => channels'[c] = channels[c]
      /\ Usable(f.ch)'
  BY <1>1, <1>4 DEF Shapes, ChannelsOK, Usable, Live, Gone
<1>7. ChannelsOK'
  <2>1. [Gone EXCEPT !.live = TRUE] \in ChannelType /\ [Gone EXCEPT !.live = TRUE].live
        /\ [Gone EXCEPT !.live = TRUE].consumers = {}
    BY DEF Gone, ChannelType
  <2>2. channels' \in [Channel -> ChannelType]
    BY <1>4, <1>6, <2>1
  <2>3. \A c \in Channel : (channels'[c].live \/ channels'[c] = Gone) /\ IsFiniteSet(channels'[c].consumers)
    <3>1. ASSUME NEW c \in Channel, c # f.ch
          PROVE  (channels'[c].live \/ channels'[c] = Gone) /\ IsFiniteSet(channels'[c].consumers)
      BY <1>1, <1>6, <3>1 DEF Shapes, ChannelsOK, Live
    <3>2. channels'[f.ch].live /\ channels'[f.ch].consumers = {}
      BY <1>6, <2>1
    <3> QED
      BY <3>1, <3>2, FS_EmptySet
  <2> QED
    BY <2>2, <2>3 DEF ChannelsOK, Live
<1>8. \A t : ~Doing(t)'
  BY <1>1, <1>4, <1>5, NoneStaged
<1> DEFINE g == Frame("openOk", f.ch)
<1>9. g \in TaskType /\ g.op = "openOk" /\ g.ch = f.ch
  BY <1>1 DEF Frame, Blank, TaskType, Kinds
<1>10. toClient' = toClient \o <<g>>
  BY <1>4
<1> HIDE DEF g
<1>11. Replies(f.ch) /\ Pushed(toClient, g, toClient')
  BY <1>1, <1>9, <1>10, SendShape DEF Replies, Owned, Shapes, Truthful
<1>12. ~Shutting(f.ch) /\ ~Shutting(f.ch)'
  BY <1>3, <1>6 DEF Shutting, Live, Usable
<1>13. Forgets(f.ch) /\ HoldsNothing(f.ch)' /\ AllKnown(f.ch)'
  BY <1>4, <1>11, <1>12, ReadTags
<1>14. InProtocol(f.ch)'
  <2>1. Protocol(f.ch, toServer, toClient, Now(f.ch), view[f.ch], Pristine(f.ch), Tearing(f.ch), history.stale, Discarded)
    BY <1>1 DEF Running, ProtocolKept, InProtocol
  <2>2. history.stale \in BOOLEAN /\ Discarded \in BOOLEAN
    BY <1>1 DEF Shapes, HistoryType, Discarded
  <2>3. Pristine(f.ch)' /\ ~Tearing(f.ch)'
    BY <1>2, <1>4, <1>6, <1>8 DEF Pristine, TaskOn, Tearing
  <2>4. /\ Protocol(f.ch, toServer', toClient, Fresh, view[f.ch], Pristine(f.ch)', Tearing(f.ch)', history.stale, Discarded)
        /\ Unopened(f.ch, toServer', history.stale)
    <3>1. Mine(toServer[1], f.ch) /\ toServer[1].op = "open" /\ Popped(toServer, toServer')
      BY <1>1, <1>2
    <3>2. Course(f.ch, toServer', toClient, Fresh, view[f.ch], Pristine(f.ch)', history.stale, Discarded)
      BY <2>1, <2>2, <2>3, <3>1, PopOpen
    <3>3. Unopened(f.ch, toServer', history.stale)
      BY <2>1, <2>2, <3>1, PopOpenFirst
    <3>4. Teardown(f.ch, toServer', toClient, Fresh, view[f.ch], Pristine(f.ch)', Tearing(f.ch)')
      BY <2>3 DEF Teardown
    <3> QED
      BY <3>2, <3>3, <3>4 DEF Protocol
  <2>5. Protocol(f.ch, toServer', toClient', Fresh, view[f.ch], Pristine(f.ch)', Tearing(f.ch)', history.stale, Discarded)
    BY <1>9, <1>11, <2>4, SendOwn DEF Fresh
  <2>6. Now(f.ch)' = Fresh
    <3>1. Accepted(f.ch)' = 0 /\ Owed(f.ch)' = 0
      BY <1>2, <1>4, <1>8 DEF Accepted, Owed
    <3> QED
      BY <1>6, <3>1 DEF Now, Fresh, Gone
  <2> QED
    BY <1>4, <1>5, <2>5, <2>6 DEF InProtocol, Discarded
<1>15. WorkInPlace'
  <2>1. PendingHere'
    <3> SUFFICES ASSUME pending.ch # 0
                 PROVE  /\ pending.ch \in Channel /\ Usable(pending.ch)' /\ ~TaskOn(pending.ch)' /\ pending.got = 0
                        /\ Counted(pending.ord, pending.ch)'
      BY <1>4 DEF PendingHere, TaskOn, Usable, Live, Counted
    <3>1. pending.ch \in Channel /\ Usable(pending.ch) /\ pending.got = 0 /\ Counted(pending.ord, pending.ch)
      BY <1>1 DEF Running, WorkInPlace, PendingHere
    <3>2. channels'[pending.ch] = channels[pending.ch]
      BY <1>2, <1>6, <3>1
    <3> QED
      BY <1>4, <1>8, <3>1, <3>2 DEF TaskOn, Usable, Live, Counted
  <2> QED
    BY <1>1, <1>4, <1>5, <1>8, <2>1, IdleWork DEF Running
<1>16. NoneOrphaned'
  <2>1. ASSUME NEW s \in subscribed, Usable(s.ch), s.tag \in channels[s.ch].consumers PROVE Kept(s)'
    <3>1. s.ch \in Channel
      BY <1>1 DEF Shapes, BrokerOK
    <3>2. channels'[s.ch] = channels[s.ch]
      BY <1>3, <1>6, <2>1, <3>1 DEF Usable
    <3> QED
      BY <2>1, <3>2, KeptAlike DEF Usable, Live
  <2> QED
    BY <1>1, <1>4, <1>5, <2>1, StillKept DEF Running
<1>17. staged' \in Seq(TaskType) /\ pending' \in PendingType /\ history' \in HistoryType
  BY <1>1, <1>4 DEF Shapes, TasksOK
<1>18. Discarded => Discarded'
  BY <1>4 DEF Discarded
<1> QED
  BY <1>1, <1>4, <1>6, <1>7, <1>8, <1>11, <1>13, <1>14, <1>15, <1>16, <1>17, <1>18, ReadDone

\* Pending content stays in its place when its channel does.
LEMMA PendingStays ==
  ASSUME WorkInPlace, pending' = pending, \A t : Doing(t)' => t.ch # pending.ch,
         pending.ch \in Channel => channels'[pending.ch] = channels[pending.ch]
  PROVE  PendingHere'
<1> SUFFICES ASSUME pending.ch # 0
             PROVE  /\ pending.ch \in Channel /\ Usable(pending.ch)' /\ ~TaskOn(pending.ch)' /\ pending.got = 0
                    /\ Counted(pending.ord, pending.ch)'
  BY DEF PendingHere, TaskOn, Usable, Live, Counted
<1>1. pending.ch \in Channel /\ Usable(pending.ch) /\ pending.got = 0 /\ Counted(pending.ord, pending.ch)
  BY DEF WorkInPlace, PendingHere
<1>2. channels'[pending.ch] = channels[pending.ch]
  BY <1>1
<1> QED
  BY <1>1, <1>2 DEF TaskOn, Usable, Live, Counted

LEMMA GoneChannel ==
  ASSUME ChannelsOK, NEW b \in Channel, channels' = [channels EXCEPT ![b] = Gone]
  PROVE  ChannelsOK' /\ channels'[b] = Gone /\ ~Live(b)' /\ \A c \in Channel : c # b => channels'[c] = channels[c]
<1>1. channels \in [Channel -> ChannelType] /\ Gone \in ChannelType /\ ~Gone.live /\ Gone.consumers = {}
  BY DEF ChannelsOK, Gone, ChannelType
<1>2. channels' \in [Channel -> ChannelType] /\ channels'[b] = Gone /\ \A c \in Channel : c # b => channels'[c] = channels[c]
  BY <1>1
<1>3. ASSUME NEW c \in Channel, c # b
      PROVE  (channels'[c].live \/ channels'[c] = Gone) /\ IsFiniteSet(channels'[c].consumers)
  BY <1>2, <1>3 DEF ChannelsOK, Live
<1>4. channels'[b] = Gone /\ IsFiniteSet(channels'[b].consumers)
  BY <1>1, <1>2, FS_EmptySet
<1> QED
  BY <1>1, <1>2, <1>3, <1>4 DEF ChannelsOK, Live

LEMMA CloseOkKeeps ==
  ASSUME SessionInv, phase = "select", toServer # <<>>, toServer' = Tail(toServer), NEW f, f = toServer[1],
         f.op = "closeOk", CloseOk(f)
  PROVE  SessionInv'
<1>1. /\ Shapes /\ Running /\ RuleKeeperServed /\ staged = <<>> /\ active = Blank /\ \A t : ~Doing(t)
      /\ Popped(toServer, toServer') /\ f.ch \in Channel /\ ChannelsOK
  BY Reading DEF Shapes
<1>2. pending.ch # f.ch /\ Mine(f, f.ch)
  BY Unpending
<1>3. /\ Live(f.ch) /\ Round /\ channels' = [channels EXCEPT ![f.ch] = Gone]
      /\ staged' = staged /\ pending' = pending /\ fromQueue' = fromQueue /\ toClient' = toClient /\ history' = history
  BY DEF CloseOk
<1>4. /\ phase' = "loop" /\ active' = active /\ subscribed' = subscribed /\ held' = held /\ lastTag' = lastTag /\ view' = view
  BY <1>3 DEF Round, brokerVars
<1>5. ChannelsOK' /\ channels'[f.ch] = Gone /\ ~Live(f.ch)' /\ \A c \in Channel : c # f.ch => channels'[c] = channels[c]
  BY <1>1, <1>3, GoneChannel
<1>6. \A t : ~Doing(t)'
  BY <1>1, <1>3, <1>4, NoneStaged
<1>7. Replies(f.ch) /\ ~Shutting(f.ch)'
  BY <1>3, <1>5 DEF Replies, Shutting, Live
<1>8. /\ Course(f.ch, toServer', toClient, NoRoom, view[f.ch], Pristine(f.ch)', history.stale, Discarded)
      /\ Answered(f.ch, toServer', toClient, Now(f.ch), view[f.ch], Pristine(f.ch))
  <2>1. Protocol(f.ch, toServer, toClient, Now(f.ch), view[f.ch], Pristine(f.ch), Tearing(f.ch), history.stale, Discarded)
    BY <1>1 DEF Running, ProtocolKept, InProtocol
  <2>2. history.stale \in BOOLEAN /\ Discarded \in BOOLEAN
    BY <1>1 DEF Shapes, HistoryType, Discarded
  <2>3. Mine(toServer[1], f.ch) /\ toServer[1].op = "closeOk" /\ Popped(toServer, toServer')
    BY <1>1, <1>2
  <2> QED
    BY <2>1, <2>2, <2>3, PopCloseOk
<1>9. InProtocol(f.ch)'
  <2>1. ~Tearing(f.ch)' /\ Now(f.ch)' = NoRoom
    BY <1>5, <1>6 DEF Tearing, Now, Live
  <2>2. Teardown(f.ch, toServer', toClient, NoRoom, view[f.ch], Pristine(f.ch)', Tearing(f.ch)')
    BY <2>1 DEF Teardown
  <2> QED
    BY <1>3, <1>4, <1>8, <2>1, <2>2 DEF InProtocol, Protocol, Discarded
<1>10. (Usable(f.ch) => Pristine(f.ch)) /\ (Shutting(f.ch) => Now(f.ch) = Shut)
  BY <1>1, <1>8, NowIs DEF Answered
<1>11. Forgets(f.ch) /\ HoldsNothing(f.ch)' /\ AllKnown(f.ch)'
  <2>1. CASE ~Shutting(f.ch)
    BY <1>3, <1>7, <2>1, ReadTags
  <2>2. CASE Shutting(f.ch)
    <3>1. Down(f.ch, toClient) = {} /\ view[f.ch].state \in {"closed", "opening"}
          /\ \A k \in Up(f.ch, toServer') : toServer'[k].op = "open"
      BY <1>8, <1>10, <2>2 DEF Answered
    <3>2. view[f.ch].holds = {}
      BY <1>1, <2>2, <3>1 DEF Running, TagsKept, HoldsNothing
    <3>3. \A T : ~Settleable(T, f.ch)'
      BY <1>3, <1>4, <3>1, <3>2 DEF Settleable
    <3>4. HoldsNothing(f.ch)'
      BY <1>4, <3>2 DEF HoldsNothing
    <3> QED
      BY <1>3, <3>3, <3>4 DEF Forgets, AllKnown
  <2> QED
    BY <2>1, <2>2
<1>12. WorkInPlace'
  <2>1. PendingHere'
    BY <1>1, <1>2, <1>3, <1>5, <1>6, PendingStays DEF Running
  <2> QED
    BY <1>1, <1>3, <1>4, <1>6, <2>1, IdleWork DEF Running
<1>13. NoneOrphaned'
  <2>1. ASSUME NEW s \in subscribed, Usable(s.ch), s.tag \in channels[s.ch].consumers PROVE Kept(s)'
    <3>1. s.ch \in Channel
      BY <1>1 DEF Shapes, BrokerOK
    <3>2. s.ch # f.ch
      <4>1. Pristine(f.ch) => channels[f.ch].consumers = {}
        BY DEF Pristine, Gone
      <4> QED
        BY <1>10, <2>1, <4>1
    <3>3. channels'[s.ch] = channels[s.ch]
      BY <1>5, <3>1, <3>2
    <3> QED
      BY <2>1, <3>3, KeptAlike DEF Usable, Live
  <2> QED
    BY <1>1, <1>3, <1>4, <2>1, StillKept DEF Running
<1>14. staged' \in Seq(TaskType) /\ pending' \in PendingType /\ history' \in HistoryType
  BY <1>1, <1>3 DEF Shapes, TasksOK
<1>15. Discarded => Discarded'
  BY <1>3 DEF Discarded
<1> QED
  BY <1>1, <1>3, <1>5, <1>6, <1>7, <1>9, <1>11, <1>12, <1>13, <1>14, <1>15, ReadDone

LEMMA CloseKeeps ==
  ASSUME SessionInv, phase = "select", toServer # <<>>, toServer' = Tail(toServer), NEW f, f = toServer[1],
         f.op = "close", CloseChannel(f)
  PROVE  SessionInv'
<1>1. /\ Shapes /\ Running /\ RuleKeeperServed /\ staged = <<>> /\ active = Blank /\ \A t : ~Doing(t)
      /\ Popped(toServer, toServer') /\ f.ch \in Channel /\ ChannelsOK
  BY Reading DEF Shapes
<1>2. pending.ch # f.ch /\ Mine(f, f.ch)
  BY Unpending
<1>3. /\ Usable(f.ch) /\ Round /\ toClient' = toClient \o <<Frame("closeOk", f.ch)>>
      /\ staged' = staged \o Cancels(f.ch) /\ channels' = [channels EXCEPT ![f.ch] = Gone]
      /\ pending' = pending /\ fromQueue' = fromQueue /\ history' = history
  BY DEF CloseChannel, Send
<1>4. /\ phase' = "loop" /\ active' = active /\ subscribed' = subscribed /\ held' = held /\ lastTag' = lastTag /\ view' = view
  BY <1>3 DEF Round, brokerVars
<1>5. ChannelsOK' /\ channels'[f.ch] = Gone /\ ~Live(f.ch)' /\ \A c \in Channel : c # f.ch => channels'[c] = channels[c]
  BY <1>1, <1>3, GoneChannel
<1>6. IsFiniteSet(channels[f.ch].consumers) /\ channels[f.ch].consumers \subseteq Tag
  BY <1>1 DEF ChannelsOK, ChannelType
<1> DEFINE calls == Cancels(f.ch)
<1>7. /\ calls \in Seq(TaskType)
      /\ \A i \in 1 .. Len(calls) : calls[i].op = "cancel" /\ calls[i].ch = f.ch /\ calls[i].noWait = TRUE
                                    /\ calls[i].tag \in channels[f.ch].consumers
      /\ \A tag \in channels[f.ch].consumers : \E i \in 1 .. Len(calls) : calls[i].tag = tag
  BY <1>1, <1>6, CancelsAll
<1>8. staged' = calls
  BY <1>1, <1>3, <1>7
<1> HIDE DEF calls
<1>9. ASSUME NEW t, Doing(t)' PROVE t.op = "cancel" /\ t.ch = f.ch /\ t.noWait = TRUE
  BY <1>1, <1>4, <1>7, <1>8, <1>9, BlankFields DEF Doing
<1> DEFINE g == Frame("closeOk", f.ch)
<1>10. g \in TaskType /\ g.op = "closeOk" /\ g.ch = f.ch
  BY <1>1 DEF Frame, Blank, TaskType, Kinds
<1>11. toClient' = toClient \o <<g>>
  BY <1>3
<1> HIDE DEF g
<1>12. Replies(f.ch) /\ Pushed(toClient, g, toClient')
  BY <1>1, <1>10, <1>11, SendShape DEF Replies, Owned, Shapes, Truthful
<1>13. ~Shutting(f.ch) /\ ~Shutting(f.ch)'
  BY <1>3, <1>5 DEF Shutting, Live, Usable
<1>14. Forgets(f.ch) /\ HoldsNothing(f.ch)' /\ AllKnown(f.ch)'
  BY <1>3, <1>12, <1>13, ReadTags
<1>15. InProtocol(f.ch)'
  <2>1. Protocol(f.ch, toServer, toClient, Now(f.ch), view[f.ch], Pristine(f.ch), Tearing(f.ch), history.stale, Discarded)
    BY <1>1 DEF Running, ProtocolKept, InProtocol
  <2>2. history.stale \in BOOLEAN /\ Discarded \in BOOLEAN
    BY <1>1 DEF Shapes, HistoryType, Discarded
  <2>3. Mine(toServer[1], f.ch) /\ toServer[1].op = "close" /\ Popped(toServer, toServer') /\ Now(f.ch).at = "usable"
    BY <1>1, <1>2, <1>3, NowIs
  <2>4. Protocol(f.ch, toServer', toClient', NoRoom, view[f.ch], Pristine(f.ch)', Tearing(f.ch)', history.stale, Discarded)
    BY <1>10, <1>12, <2>1, <2>2, <2>3, PopClose
  <2>5. Now(f.ch)' = NoRoom
    BY <1>5 DEF Now, Live
  <2> QED
    BY <1>3, <1>4, <2>4, <2>5 DEF InProtocol, Discarded
<1>16. WorkInPlace'
  <2>1. PendingHere'
    BY <1>1, <1>2, <1>3, <1>5, <1>9, PendingStays DEF Running
  <2>2. ASSUME NEW t, Doing(t)' PROVE InPlace(t)'
    <3>1. t.op = "cancel" /\ t.ch \in Channel /\ t.noWait = TRUE /\ ~Usable(t.ch)'
      BY <1>1, <1>5, <1>9, <2>2 DEF Usable
    <3> QED
      BY <3>1 DEF InPlace, Usable, Live, Counted
  <2> QED
    BY <1>1, <1>4, <1>7, <1>8, <2>1, <2>2, BlankFields DEF WorkInPlace
<1>17. NoneOrphaned'
  <2>1. ASSUME NEW s \in subscribed, Usable(s.ch), s.tag \in channels[s.ch].consumers PROVE Kept(s)'
    <3>1. s.ch \in Channel
      BY <1>1 DEF Shapes, BrokerOK
    <3>2. CASE s.ch # f.ch
      <4>1. channels'[s.ch] = channels[s.ch]
        BY <1>5, <3>1, <3>2
      <4> QED
        BY <2>1, <4>1, KeptAlike DEF Usable, Live
    <3>3. CASE s.ch = f.ch
      <4>1. PICK t : (\E i \in 1 .. Len(calls) : t = calls[i]) /\ t.tag = s.tag /\ t.op = "cancel" /\ t.ch = f.ch
        <5>1. PICK i \in 1 .. Len(calls) : calls[i].tag = s.tag
          BY <1>7, <2>1, <3>3
        <5>2. calls[i].op = "cancel" /\ calls[i].ch = f.ch
          BY <1>7
        <5> QED
          BY <5>1, <5>2
      <4>2. Doing(t)'
        BY <1>8, <4>1 DEF Doing
      <4>3. ~Usable(t.ch)'
        BY <1>5, <4>1 DEF Usable
      <4> QED
        BY <4>1, <4>2, <4>3 DEF Kept
    <3> QED
      BY <3>2, <3>3
  <2> QED
    BY <1>1, <1>3, <1>4, <2>1, StillKept DEF Running
<1>18. staged' \in Seq(TaskType) /\ pending' \in PendingType /\ history' \in HistoryType
  BY <1>1, <1>3, <1>7, <1>8 DEF Shapes, TasksOK
<1>19. (Discarded => Discarded') /\ \A t : Doing(t)' => t.ch = f.ch /\ Named(t)'
  BY <1>3, <1>9 DEF Discarded, Named
<1> QED
  BY <1>1, <1>3, <1>5, <1>12, <1>14, <1>15, <1>16, <1>17, <1>18, <1>19, ReadDone

\* A frame of the channel's own business, with the channel at work.
LEMMA ReadCourse ==
  ASSUME SessionInv, phase # "over", NEW b \in Channel, Popped(toServer, toServer'), Mine(toServer[1], b),
         toServer[1].op \notin Anew \cup {"close"}, Usable(b)
  PROVE  Course(b, toServer', toClient, After(Now(b), toServer[1]), view[b], Pristine(b)', history.stale, Discarded)
<1>1. Shapes /\ Running /\ ChannelsOK
  BY DEF SessionInv, Shapes
<1>2. Protocol(b, toServer, toClient, Now(b), view[b], Pristine(b), Tearing(b), history.stale, Discarded)
  BY <1>1 DEF Running, ProtocolKept, InProtocol
<1>3. history.stale \in BOOLEAN /\ Discarded \in BOOLEAN
  BY <1>1 DEF Shapes, HistoryType, Discarded
<1>4. Now(b).at = "usable"
  BY <1>1, NowIs
<1> QED
  BY <1>2, <1>3, <1>4, PopUsable

\* A frame that is taken for what it is on a channel at work.
LEMMA ReadUsable ==
  ASSUME SessionInv, NEW b \in Channel, Popped(toServer, toServer'), Mine(toServer[1], b),
         toServer[1].op \notin Anew \cup {"close"}, Usable(b), Usable(b)', Now(b)' = After(Now(b), toServer[1]),
         phase = "select", view' = view, history'.stale = history.stale, Discarded' <=> Discarded,
         toClient' = toClient \/ \E g : /\ Pushed(toClient, g, toClient') /\ g.ch = b
                                        /\ g.op \notin {"close", "closeOk", "openOk"}
  PROVE  InProtocol(b)'
<1>1. Course(b, toServer', toClient, After(Now(b), toServer[1]), view[b], Pristine(b)', history.stale, Discarded)
  BY ReadCourse
<1>2. Now(b)'.at = "usable" /\ ~Tearing(b)'
  BY DEF Now, Usable, Live, Tearing
<1>3. Protocol(b, toServer', toClient, Now(b)', view[b], Pristine(b)', Tearing(b)', history.stale, Discarded)
  BY <1>1, <1>2 DEF Protocol, Teardown
<1>4. Protocol(b, toServer', toClient', Now(b)', view[b], Pristine(b)', Tearing(b)', history.stale, Discarded)
  <2>1. CASE toClient' = toClient
    BY <1>3, <2>1
  <2>2. ASSUME NEW g, Pushed(toClient, g, toClient'), g.ch = b, g.op \notin {"close", "closeOk", "openOk"}
        PROVE  Protocol(b, toServer', toClient', Now(b)', view[b], Pristine(b)', Tearing(b)', history.stale, Discarded)
    BY <1>2, <1>3, <2>2, SendOwn
  <2> QED
    BY <2>1, <2>2
<1> QED
  BY <1>4 DEF InProtocol, Discarded

\* On a channel that has no content to come and nothing staged.
LEMMA AtRest ==
  ASSUME SessionInv, NEW b \in Channel, pending.ch # b, \A t : ~Doing(t), Usable(b)
  PROVE  /\ Owed(b) = 0 /\ Accepted(b) = 0 /\ channels[b].published \in Nat
         /\ Now(b) = [at |-> "usable", confirms |-> channels[b].confirms, count |-> channels[b].published, owes |-> 0]
<1>1. channels[b] \in ChannelType
  BY DEF SessionInv, Shapes, ChannelsOK
<1>2. Owed(b) = 0 /\ Accepted(b) = 0
  BY DEF Owed, Accepted
<1> QED
  BY <1>1, <1>2 DEF Now, Usable, Live, ChannelType

\* The tasks of a channel at work have the rest of the session to themselves.
LEMMA OneTask ==
  ASSUME WorkInPlace, staged = <<>>, active = Blank, active' = active, NEW t \in TaskType, staged' = Append(staged, t),
         t.op \notin {"none", "connect"}, phase' = "loop", InPlace(t)', PendingHere'
  PROVE  WorkInPlace'
<1>1. /\ staged' \in Seq(TaskType) /\ Len(staged') = 1 /\ staged'[1] = t
      /\ \A s : Doing(s)' <=> s = t
  BY OneStaged
<1>2. \A s : Doing(s)' => InPlace(s)'
  BY <1>1
<1>3. \A i \in 1 .. Len(staged') : staged'[i].op \notin {"none", "connect"}
  BY <1>1
<1> QED
  BY <1>2, <1>3, BlankFields DEF WorkInPlace

LEMMA StageKeeps ==
  ASSUME SessionInv, phase = "select", toServer # <<>>, toServer' = Tail(toServer), NEW f, f = toServer[1],
         f.op \in {"call", "consume", "cancel", "get", "settle"}, Usable(f.ch), NEW t \in TaskType,
         t.op = f.op, t.ch = f.ch, t.tag = f.tag, Stage(t), pending' = pending, history' \in HistoryType,
         history'.ended = history.ended, history'.surprised = history.surprised, history'.stale = history.stale,
         history'.discarded = history.discarded, history'.leaked = history.leaked,
         Forgets(f.ch), HoldsNothing(f.ch)' /\ AllKnown(f.ch)', Named(t)'
  PROVE  SessionInv'
<1>1. /\ Shapes /\ Running /\ RuleKeeperServed /\ staged = <<>> /\ active = Blank /\ \A u : ~Doing(u)
      /\ Popped(toServer, toServer') /\ f.ch \in Channel /\ ChannelsOK /\ (f.op = "consume" => f.tag \in Tag)
  BY Reading DEF Shapes
<1>2. pending.ch # f.ch /\ Mine(f, f.ch)
  BY Unpending
<1>3. /\ Round /\ staged' = Append(staged, t) /\ channels' = channels /\ toClient' = toClient
  BY DEF Stage
<1>4. /\ phase' = "loop" /\ active' = active /\ subscribed' = subscribed /\ held' = held /\ lastTag' = lastTag /\ view' = view
  BY <1>3 DEF Round, brokerVars
<1>5. /\ staged' \in Seq(TaskType) /\ Len(staged') = 1 /\ staged'[1] = t
      /\ \A s : Doing(s)' <=> s = t
  BY <1>1, <1>3, <1>4, OneStaged
<1>6. Replies(f.ch) /\ Usable(f.ch)' /\ ChannelsOK'
  BY <1>1, <1>3 DEF Replies, Usable, Live, ChannelsOK
<1>7. Discarded' <=> Discarded
  BY DEF Discarded
<1>8. InProtocol(f.ch)'
  <2>1. /\ Owed(f.ch) = 0 /\ Accepted(f.ch) = 0 /\ channels[f.ch].published \in Nat
        /\ Now(f.ch) = [at |-> "usable", confirms |-> channels[f.ch].confirms, count |-> channels[f.ch].published, owes |-> 0]
    BY <1>1, <1>2, AtRest
  <2>2. Owed(f.ch)' = 0 /\ Accepted(f.ch)' = 0
    BY <1>2, <1>5 DEF Owed, Accepted
  <2>3. Now(f.ch)' = [at |-> "usable", confirms |-> channels[f.ch].confirms, count |-> channels[f.ch].published, owes |-> 0]
    BY <1>3, <1>6, <2>1, <2>2 DEF Now, Usable, Live
  <2>4. channels[f.ch].confirms \in BOOLEAN
    BY <1>1 DEF ChannelsOK, ChannelType
  <2>5. Now(f.ch)' = After(Now(f.ch), f)
    BY <2>1, <2>3, <2>4 DEF After
  <2>6. toServer[1].op \notin Anew \cup {"close"} /\ Mine(toServer[1], f.ch)
    BY <1>2 DEF Anew
  <2> QED
    BY <1>1, <1>3, <1>4, <1>6, <1>7, <2>5, <2>6, ReadUsable
<1>9. WorkInPlace'
  <2>1. PendingHere'
    BY <1>1, <1>2, <1>3, <1>5, PendingStays DEF Running
  <2>2. InPlace(t)'
    BY <1>1, <1>4, <1>5, <1>6 DEF InPlace, Usable, Live, Counted
  <2>3. t.op \notin {"none", "connect"}
    OBVIOUS
  <2> QED
    BY <1>1, <1>3, <1>4, <2>1, <2>2, <2>3, OneTask DEF Running
<1>10. NoneOrphaned'
  <2>1. \A s \in subscribed : Usable(s.ch) => Usable(s.ch)'
    BY <1>3 DEF Usable, Live
  <2>2. \A s \in subscribed : Usable(s.ch) /\ s.tag \in channels[s.ch].consumers => Kept(s)'
    BY <1>3, <2>1, KeptAlike
  <2> QED
    BY <1>1, <1>4, <2>2, StillKept DEF Running
<1>11. pending' \in PendingType
  BY <1>1 DEF Shapes, TasksOK
<1>12. \A s : Doing(s)' => s.ch = f.ch /\ Named(s)'
  BY <1>5
<1> QED
  BY <1>1, <1>3, <1>5, <1>6, <1>7, <1>8, <1>9, <1>10, <1>11, <1>12, ReadDone

LEMMA TaskFields ==
  ASSUME NEW f \in TaskType, NEW named \in BOOLEAN
  PROVE  /\ Task(f, named) \in TaskType /\ Task(f, named).op = f.op /\ Task(f, named).ch = f.ch
         /\ Task(f, named).tag = f.tag /\ Task(f, named).dtag = f.dtag /\ Task(f, named).multiple = f.multiple
         /\ Task(f, named).named = named
BY DEF Task, TaskType

LEMMA DecodeKeeps ==
  ASSUME SessionInv, phase = "select", toServer # <<>>, toServer' = Tail(toServer), NEW f, f = toServer[1],
         f.op \in {"call", "consume", "cancel", "get"}, Decode(f)
  PROVE  SessionInv'
<1> DEFINE named == f.op = "cancel" => f.tag \in channels[f.ch].consumers
<1>1. Shapes /\ f \in TaskType
  BY Reading
<1>2. Usable(f.ch) /\ Stage(Task(f, named)) /\ pending' = pending /\ fromQueue' = fromQueue /\ history' = history
  BY DEF Decode
<1>3. named \in BOOLEAN
  OBVIOUS
<1> HIDE DEF named
<1>4. PICK t : t = Task(f, named)
  OBVIOUS
<1>5. t \in TaskType /\ t.op = f.op /\ t.ch = f.ch /\ t.tag = f.tag /\ Stage(t)
  BY <1>1, <1>2, <1>3, <1>4, TaskFields
<1>6. Round /\ toClient' = toClient /\ channels' = channels
  BY <1>5 DEF Stage
<1>7. Forgets(f.ch) /\ HoldsNothing(f.ch)' /\ AllKnown(f.ch)'
  <2>1. Replies(f.ch) /\ (Shutting(f.ch)' <=> Shutting(f.ch))
    BY <1>6 DEF Replies, Shutting
  <2> QED
    BY <1>2, <1>6, <2>1, ReadTags
<1>8. Named(t)' /\ history' \in HistoryType
  BY <1>1, <1>2, <1>5 DEF Named, Shapes
<1> QED
  BY <1>2, <1>5, <1>7, <1>8, StageKeeps

\* An acknowledgement: what it names is known, and what it makes the session
\* forget is in its own hands or noted.
LEMMA SettleDecodeKeeps ==
  ASSUME SessionInv, phase = "select", toServer # <<>>, toServer' = Tail(toServer), NEW f, f = toServer[1],
         f.op = "settle", SettleDecode(f)
  PROVE  SessionInv'
<1> DEFINE named == f.dtag \in fromQueue
<1>1. /\ Shapes /\ Running /\ \A u : ~Doing(u) /\ f \in TaskType /\ f.ch \in Channel
      /\ Popped(toServer, toServer') /\ BrokerOK /\ staged = <<>> /\ active = Blank
  BY Reading DEF Shapes
<1>2. /\ Usable(f.ch) /\ Stage(Task(f, named)) /\ pending' = pending
      /\ fromQueue' = Forget(f.dtag, f.multiple)
      /\ history' = [history EXCEPT !.blurred = @ \cup
           {T \in fromQueue \ fromQueue' : \E h \in held : h.dtag = T /\ h.ch # f.ch}]
  BY DEF SettleDecode
<1>3. named \in BOOLEAN
  OBVIOUS
<1> HIDE DEF named
<1>4. PICK t : t = Task(f, named)
  OBVIOUS
<1>5. /\ t \in TaskType /\ t.op = f.op /\ t.ch = f.ch /\ t.tag = f.tag /\ t.dtag = f.dtag /\ t.multiple = f.multiple
      /\ t.named = named /\ Stage(t)
  BY <1>1, <1>2, <1>4, <1>3, TaskFields
<1>6. Round /\ toClient' = toClient /\ channels' = channels /\ staged' = Append(staged, t)
  BY <1>5 DEF Stage
<1>7. /\ active' = active /\ subscribed' = subscribed /\ held' = held /\ lastTag' = lastTag /\ view' = view
  BY <1>6 DEF Round, brokerVars
<1>8. /\ lastTag \in Nat /\ fromQueue \subseteq 1 .. lastTag /\ held \subseteq [dtag : 1 .. lastTag, ch : Channel]
      /\ f.dtag \in Nat /\ f.multiple \in BOOLEAN
  BY <1>1 DEF BrokerOK, TaskType
<1>9. fromQueue' \subseteq fromQueue
  BY <1>2 DEF Forget
<1>10. /\ history' \in HistoryType /\ history'.ended = history.ended /\ history'.surprised = history.surprised
      /\ history'.stale = history.stale /\ history'.discarded = history.discarded /\ history'.leaked = history.leaked
      /\ history'.blurred = history.blurred \cup
           {T \in fromQueue \ fromQueue' : \E h \in held : h.dtag = T /\ h.ch # f.ch}
  <2>1. history \in HistoryType
    BY <1>1 DEF Shapes
  <2>2. {T \in fromQueue \ fromQueue' : \E h \in held : h.dtag = T /\ h.ch # f.ch} \subseteq Nat
    BY <1>8
  <2> DEFINE lost == {T \in fromQueue \ fromQueue' : \E h \in held : h.dtag = T /\ h.ch # f.ch}
  <2>3. history' = [history EXCEPT !.blurred = @ \cup lost] /\ lost \subseteq Nat
    BY <1>2, <2>2
  <2> HIDE DEF lost
  <2>4. /\ history' \in HistoryType /\ history'.ended = history.ended /\ history'.surprised = history.surprised
        /\ history'.stale = history.stale /\ history'.discarded = history.discarded /\ history'.leaked = history.leaked
        /\ history'.blurred = history.blurred \cup lost
    BY <2>1, <2>3 DEF HistoryType
  <2> QED
    BY <2>4 DEF lost
<1>11. Forgets(f.ch)
  BY <1>9, <1>10 DEF Forgets
<1>12. t.op \notin {"none", "connect"}
  BY <1>5
<1>13. \A s : Doing(s)' <=> s = t
  BY <1>1, <1>5, <1>6, <1>7, <1>12, OneStaged
<1>14. ~Shutting(f.ch) /\ ~Shutting(f.ch)' /\ HoldsNothing(f.ch) /\ AllKnown(f.ch)
  BY <1>1, <1>2, <1>6 DEF Usable, Live, Shutting, Running, TagsKept
<1>15. HoldsNothing(f.ch)' /\ AllKnown(f.ch)'
  <2>1. \A T : Settleable(T, f.ch)' => Settleable(T, f.ch)
    BY <1>1, <1>6, <1>7, SettleableStays
  <2>2. ASSUME NEW T, Settleable(T, f.ch), Known(T, f.ch) PROVE Known(T, f.ch)'
    <3>1. ASSUME NEW h \in held, h.dtag = T
          PROVE  h.ch = f.ch /\ (T \in fromQueue' \/ T \in history'.blurred \/ Covers(t, h))
      <4>1. h.ch = f.ch /\ (T \in fromQueue \/ T \in history.blurred) /\ h.dtag \in Nat
        BY <1>1, <1>8, <2>2, <3>1 DEF Known
      <4>2. T \in fromQueue /\ T \notin fromQueue' => Covers(t, h)
        BY <1>2, <1>5, <1>8, <3>1, <4>1 DEF Forget, Covers
      <4> QED
        BY <1>10, <4>1, <4>2
    <3>2. Doing(t)' /\ t.op = "settle" /\ t.ch = f.ch
      BY <1>5, <1>13
    <3> QED
      BY <1>7, <3>1, <3>2 DEF Known
  <2> QED
    BY <1>1, <1>7, <1>14, <2>1, <2>2, TagsStay
<1>16. Named(t)'
  <2>1. Mine(f, f.ch) /\ 1 \in Up(f.ch, toServer)
    BY <1>1 DEF Mine, Up, Popped
  <2>2. f.dtag # 0 => Settleable(f.dtag, f.ch)
    BY <2>1 DEF Settleable
  <2>3. f.dtag # 0 => f.dtag \in 1 .. lastTag /\ Known(f.dtag, f.ch)
    BY <1>14, <2>2 DEF AllKnown
  <2>4. f.dtag <= lastTag
    BY <1>8, <2>3
  <2>5. ASSUME NEW h \in held, h.dtag = f.dtag PROVE f.dtag \in fromQueue \/ f.dtag \in history.blurred
    <3>1. f.dtag # 0
      BY <1>8, <2>5
    <3> QED
      BY <1>1, <2>3, <2>5, <3>1 DEF Known
  <2> QED
    BY <1>5, <1>7, <1>10, <2>4, <2>5 DEF Named, named
<1> QED
  BY <1>2, <1>5, <1>10, <1>11, <1>15, <1>16, StageKeeps

\* One field of a live channel is set.
LEMMA EditChannel ==
  ASSUME ChannelsOK, NEW b \in Channel, Live(b), NEW r \in ChannelType, r.live, r.consumers = channels[b].consumers,
         channels' = [channels EXCEPT ![b] = r]
  PROVE  /\ ChannelsOK' /\ channels'[b] = r /\ Live(b)' /\ \A c \in Channel : c # b => channels'[c] = channels[c]
         /\ \A c \in Channel : channels'[c].consumers = channels[c].consumers /\ (Live(c)' <=> Live(c))
<1>1. channels \in [Channel -> ChannelType]
  BY DEF ChannelsOK
<1>2. channels' \in [Channel -> ChannelType] /\ channels'[b] = r /\ \A c \in Channel : c # b => channels'[c] = channels[c]
  BY <1>1
<1>3. \A c \in Channel : channels'[c].consumers = channels[c].consumers /\ (Live(c)' <=> Live(c))
  BY <1>2 DEF Live
<1>4. \A c \in Channel : (Live(c)' \/ channels'[c] = Gone) /\ IsFiniteSet(channels'[c].consumers)
  BY <1>2, <1>3 DEF ChannelsOK
<1> QED
  BY <1>2, <1>3, <1>4 DEF ChannelsOK, Live

LEMMA AfterSelect ==
  ASSUME NEW b \in BOOLEAN, NEW n \in Nat, NEW f, f.op = "select"
  PROVE  After([at |-> "usable", confirms |-> b, count |-> n, owes |-> 0], f)
           = [at |-> "usable", confirms |-> TRUE, count |-> n, owes |-> 0]
<1>1. CASE b = TRUE
  BY <1>1 DEF After
<1>2. CASE b = FALSE
  BY <1>2 DEF After
<1> QED
  BY <1>1, <1>2

LEMMA AfterPublish ==
  ASSUME NEW b \in BOOLEAN, NEW n \in Nat, NEW f, f.op = "publish"
  PROVE  After([at |-> "usable", confirms |-> b, count |-> n, owes |-> 0], f)
           = [at |-> "usable", confirms |-> b, count |-> IF b THEN n + 1 ELSE n, owes |-> 2]
BY DEF After

LEMMA AfterPiece ==
  ASSUME NEW b \in BOOLEAN, NEW n \in Nat, NEW m, NEW f, f.op \in {"header", "body"}
  PROVE  After([at |-> "usable", confirms |-> b, count |-> n, owes |-> m], f)
           = [at |-> "usable", confirms |-> b, count |-> n, owes |-> IF f.op = "header" THEN f.size ELSE 0]
BY DEF After

LEMMA SelectKeeps ==
  ASSUME SessionInv, phase = "select", toServer # <<>>, toServer' = Tail(toServer), NEW f, f = toServer[1],
         f.op = "select", SelectConfirms(f)
  PROVE  SessionInv'
<1>1. /\ Shapes /\ Running /\ RuleKeeperServed /\ staged = <<>> /\ active = Blank /\ \A t : ~Doing(t)
      /\ Popped(toServer, toServer') /\ f.ch \in Channel /\ ChannelsOK /\ ToClientOK /\ f \in TaskType
  BY Reading DEF Shapes
<1>2. pending.ch # f.ch /\ Mine(f, f.ch)
  BY Unpending
<1> DEFINE r == [channels[f.ch] EXCEPT !.confirms = TRUE]
<1>3. /\ Usable(f.ch) /\ Round /\ staged' = staged /\ pending' = pending /\ fromQueue' = fromQueue /\ history' = history
      /\ toClient' = toClient \o (IF f.noWait THEN <<>> ELSE <<Frame("selectOk", f.ch)>>)
  BY DEF SelectConfirms, Send
<1>4. channels' = [channels EXCEPT ![f.ch] = r]
  BY DEF SelectConfirms
<1>5. channels[f.ch] \in ChannelType
  BY <1>1 DEF ChannelsOK
<1>6. /\ r \in ChannelType /\ r.live = channels[f.ch].live /\ r.closing = channels[f.ch].closing
      /\ r.confirms = TRUE /\ r.published = channels[f.ch].published /\ r.consumers = channels[f.ch].consumers
  BY <1>5 DEF ChannelType
<1> HIDE DEF r
<1>7. /\ ChannelsOK' /\ channels'[f.ch] = r /\ \A c \in Channel : c # f.ch => channels'[c] = channels[c]
      /\ \A c \in Channel : channels'[c].consumers = channels[c].consumers
  BY <1>1, <1>3, <1>4, <1>6, EditChannel DEF Usable, Live
<1>8. /\ phase' = "loop" /\ active' = active /\ subscribed' = subscribed /\ held' = held /\ lastTag' = lastTag /\ view' = view
  BY <1>3 DEF Round, brokerVars
<1>9. \A t : ~Doing(t)'
  BY <1>1, <1>3, <1>8, NoneStaged
<1>10. Usable(f.ch)' /\ ~Shutting(f.ch) /\ ~Shutting(f.ch)'
  BY <1>3, <1>6, <1>7 DEF Usable, Live, Shutting
<1>11. toClient' = toClient \/ \E g \in TaskType : g.ch = f.ch /\ g.op = "selectOk" /\ toClient' = toClient \o <<g>>
  <2>1. Frame("selectOk", f.ch) \in TaskType /\ Frame("selectOk", f.ch).ch = f.ch /\ Frame("selectOk", f.ch).op = "selectOk"
    BY <1>1 DEF Frame, Blank, TaskType, Kinds
  <2>2. toClient \o <<>> = toClient
    BY <1>1 DEF ToClientOK
  <2> QED
    BY <1>3, <2>1, <2>2
<1>12. Replies(f.ch)
  BY <1>11 DEF Replies, Owned
<1>13. toClient' = toClient \/ \E g : /\ Pushed(toClient, g, toClient') /\ g.ch = f.ch
                                      /\ g.op \notin {"close", "closeOk", "openOk"}
  BY <1>1, <1>11, SendOne DEF ToClientOK
<1>14. Forgets(f.ch) /\ HoldsNothing(f.ch)' /\ AllKnown(f.ch)'
  BY <1>3, <1>10, <1>12, ReadTags
<1>15. InProtocol(f.ch)'
  <2>1. /\ Owed(f.ch) = 0 /\ Accepted(f.ch) = 0 /\ channels[f.ch].published \in Nat
        /\ Now(f.ch) = [at |-> "usable", confirms |-> channels[f.ch].confirms, count |-> channels[f.ch].published, owes |-> 0]
    BY <1>1, <1>2, <1>3, AtRest
  <2>2. Owed(f.ch)' = 0 /\ Accepted(f.ch)' = 0
    BY <1>2, <1>3, <1>9 DEF Owed, Accepted
  <2>3. Now(f.ch)' = [at |-> "usable", confirms |-> TRUE, count |-> channels[f.ch].published, owes |-> 0]
    BY <1>6, <1>7, <1>10, <2>1, <2>2 DEF Now, Usable, Live
  <2>4. Now(f.ch)' = After(Now(f.ch), f)
    <3>1. channels[f.ch].confirms \in BOOLEAN
      BY <1>5 DEF ChannelType
    <3>2. After([at |-> "usable", confirms |-> channels[f.ch].confirms, count |-> channels[f.ch].published, owes |-> 0], f)
            = [at |-> "usable", confirms |-> TRUE, count |-> channels[f.ch].published, owes |-> 0]
      BY <2>1, <3>1, AfterSelect
    <3> QED
      BY <2>1, <2>3, <3>2
  <2>5. toServer[1].op \notin Anew \cup {"close"} /\ Mine(toServer[1], f.ch)
    BY <1>2 DEF Anew
  <2>6. history'.stale = history.stale /\ (Discarded' <=> Discarded)
    BY <1>3 DEF Discarded
  <2> QED
    BY <1>1, <1>3, <1>8, <1>10, <1>13, <2>4, <2>5, <2>6, ReadUsable
<1>16. WorkInPlace'
  <2>1. PendingHere'
    BY <1>1, <1>2, <1>3, <1>7, <1>9, PendingStays DEF Running
  <2> QED
    BY <1>1, <1>3, <1>8, <1>9, <2>1, IdleWork DEF Running
<1>17. NoneOrphaned'
  <2>1. ASSUME NEW s \in subscribed, Usable(s.ch), s.tag \in channels[s.ch].consumers PROVE Kept(s)'
    <3>1. s.ch \in Channel
      BY <1>1 DEF Shapes, BrokerOK
    <3>2. channels'[s.ch].consumers = channels[s.ch].consumers
      BY <1>7, <3>1
    <3>3. Usable(s.ch)'
      BY <1>7, <1>10, <2>1, <3>1 DEF Usable, Live
    <3> QED
      BY <2>1, <3>2, <3>3, KeptAlike
  <2> QED
    BY <1>1, <1>3, <1>8, <2>1, StillKept DEF Running
<1>18. staged' \in Seq(TaskType) /\ pending' \in PendingType /\ history' \in HistoryType
  BY <1>1, <1>3 DEF Shapes, TasksOK
<1>19. Discarded => Discarded'
  BY <1>3 DEF Discarded
<1> QED
  BY <1>1, <1>3, <1>7, <1>9, <1>12, <1>14, <1>15, <1>16, <1>17, <1>18, <1>19, ReadDone

\* Reading leaves the consumers of every channel where they were.
LEMMA SameKept ==
  ASSUME Shapes, Running, \A t : ~Doing(t), subscribed' = subscribed, channels' = channels, history'.leaked = history.leaked
  PROVE  NoneOrphaned'
<1>1. \A s \in subscribed : Usable(s.ch) => Usable(s.ch)'
  BY DEF Usable, Live
<1>2. \A s \in subscribed : Usable(s.ch) /\ s.tag \in channels[s.ch].consumers => Kept(s)'
  BY <1>1, KeptAlike
<1> QED
  BY <1>2, StillKept DEF Running

LEMMA PublishKeeps ==
  ASSUME SessionInv, phase = "select", toServer # <<>>, toServer' = Tail(toServer), NEW f, f = toServer[1],
         f.op = "publish", PublishMethod(f)
  PROVE  SessionInv'
<1>1. /\ Shapes /\ Running /\ RuleKeeperServed /\ staged = <<>> /\ active = Blank /\ \A t : ~Doing(t)
      /\ Popped(toServer, toServer') /\ f.ch \in Channel /\ ChannelsOK /\ ToServerOK' /\ f \in TaskType
  BY Reading DEF Shapes
<1>2. pending.ch # f.ch /\ Mine(f, f.ch) /\ f.ch # 0
  BY <1>1, Unpending, AmqpAssumption
<1>3. CASE pending # NoPublish
  BY <1>1, <1>3, FatalKeeps DEF PublishMethod, Allowed, Endings
<1>4. CASE pending = NoPublish
  <2>1. /\ pending' = [NoPublish EXCEPT !.ch = f.ch, !.mandatory = f.mandatory, !.ord = f.ord]
        /\ Usable(f.ch) /\ Round /\ channels' = channels /\ staged' = staged /\ fromQueue' = fromQueue
        /\ toClient' = toClient /\ history' = history
    BY <1>4 DEF PublishMethod
  <2>2. /\ pending.ch = 0 /\ pending'.ch = f.ch /\ pending'.ord = f.ord /\ pending'.size = 0 /\ pending'.got = 0
        /\ pending' \in PendingType
    BY <1>1, <1>4, <2>1 DEF NoPublish, PendingType, TaskType
  <2>3. /\ phase' = "loop" /\ active' = active /\ subscribed' = subscribed /\ held' = held /\ lastTag' = lastTag /\ view' = view
    BY <2>1 DEF Round, brokerVars
  <2>4. \A t : ~Doing(t)'
    BY <1>1, <2>1, <2>3, NoneStaged
  <2>5. Replies(f.ch) /\ Usable(f.ch)' /\ ChannelsOK' /\ (Shutting(f.ch)' <=> Shutting(f.ch)) /\ (Discarded' <=> Discarded)
    BY <1>1, <2>1 DEF Replies, Usable, Live, ChannelsOK, Shutting, Discarded
  <2>6. Forgets(f.ch) /\ HoldsNothing(f.ch)' /\ AllKnown(f.ch)'
    BY <2>1, <2>5, ReadTags
  <2>7. /\ Owed(f.ch) = 0 /\ Accepted(f.ch) = 0 /\ channels[f.ch].published \in Nat
        /\ Now(f.ch) = [at |-> "usable", confirms |-> channels[f.ch].confirms, count |-> channels[f.ch].published, owes |-> 0]
    BY <1>1, <1>2, <2>1, AtRest
  <2>8. channels[f.ch].confirms \in BOOLEAN
    BY <1>1 DEF ChannelsOK, ChannelType
  <2>9. f.ord = IF channels[f.ch].confirms THEN channels[f.ch].published + 1 ELSE 0
    <3>1. Due(Now(f.ch), f)
      BY <1>1, <1>2, HeadFits
    <3> QED
      BY <2>7, <3>1 DEF Due
  <2>10. Counted(f.ord, f.ch)
    BY <2>7, <2>8, <2>9 DEF Counted
  <2>11. InProtocol(f.ch)'
    <3>1. Owed(f.ch)' = 2
      BY <2>2 DEF Owed
    <3>2. Accepted(f.ch)' = IF f.ord > 0 THEN 1 ELSE 0
      BY <2>2, <2>4 DEF Accepted
    <3>3. channels[f.ch].published + Accepted(f.ch)'
            = IF channels[f.ch].confirms THEN channels[f.ch].published + 1 ELSE channels[f.ch].published
      BY <2>7, <2>8, <2>9, <3>2
    <3>4. Now(f.ch)' = [at |-> "usable", confirms |-> channels[f.ch].confirms,
                        count |-> channels[f.ch].published + Accepted(f.ch)', owes |-> 2]
      BY <2>1, <2>5, <3>1 DEF Now, Usable, Live
    <3>5. After([at |-> "usable", confirms |-> channels[f.ch].confirms, count |-> channels[f.ch].published, owes |-> 0], f)
            = [at |-> "usable", confirms |-> channels[f.ch].confirms,
               count |-> IF channels[f.ch].confirms THEN channels[f.ch].published + 1 ELSE channels[f.ch].published, owes |-> 2]
      BY <2>7, <2>8, AfterPublish
    <3>6. Now(f.ch)' = After(Now(f.ch), f)
      BY <2>7, <3>3, <3>4, <3>5
    <3>7. toServer[1].op \notin Anew \cup {"close"} /\ Mine(toServer[1], f.ch)
      BY <1>2 DEF Anew
    <3> QED
      BY <1>1, <2>1, <2>3, <2>5, <3>6, <3>7, ReadUsable
  <2>12. WorkInPlace'
    <3>1. PendingHere'
      BY <1>1, <2>1, <2>2, <2>4, <2>5, <2>10 DEF PendingHere, TaskOn, Counted
    <3> QED
      BY <1>1, <2>1, <2>3, <2>4, <3>1, IdleWork DEF Running
  <2>13. NoneOrphaned'
    BY <1>1, <2>1, <2>3, SameKept
  <2>14. staged' \in Seq(TaskType) /\ history' \in HistoryType
    BY <1>1, <2>1 DEF Shapes, TasksOK
  <2>15. pending' = pending \/ (pending.ch \in {0, f.ch} /\ pending'.ch \in {0, f.ch})
    BY <2>2
  <2> QED
    BY <1>1, <2>1, <2>2, <2>4, <2>5, <2>6, <2>11, <2>12, <2>13, <2>14, <2>15, ReadDone
<1> QED
  BY <1>3, <1>4

LEMMA PublishTask ==
  ASSUME NEW p \in PendingType
  PROVE  LET t == [Frame("publish", p.ch) EXCEPT !.ord = p.ord, !.named = TRUE, !.mandatory = p.mandatory]
         IN t \in TaskType /\ t.op = "publish" /\ t.ch = p.ch /\ t.ord = p.ord
BY DEF Frame, Blank, TaskType, Kinds, PendingType

\* Content whose publish is waiting for it.
LEMMA PieceKeeps ==
  ASSUME SessionInv, phase = "select", toServer # <<>>, toServer' = Tail(toServer), NEW f, f = toServer[1],
         f.op \in {"header", "body"}, pending.ch = f.ch, NEW p, Complete(p),
         p = IF f.op = "header" THEN [pending EXCEPT !.size = f.size] ELSE [pending EXCEPT !.got = @ + 1]
  PROVE  SessionInv'
<1>1. /\ Shapes /\ Running /\ RuleKeeperServed /\ staged = <<>> /\ active = Blank /\ \A t : ~Doing(t)
      /\ Popped(toServer, toServer') /\ f.ch \in Channel /\ ChannelsOK /\ f \in TaskType /\ pending \in PendingType
  BY Reading DEF Shapes, TasksOK
<1>2. Mine(f, f.ch) /\ f.ch # 0
  BY <1>1, AmqpAssumption DEF Mine
<1>3. /\ Usable(f.ch) /\ pending.got = 0 /\ (f.op = "header" <=> pending.size = 0) /\ (f.op = "body" <=> pending.size = 1)
      /\ Counted(pending.ord, f.ch)
  <2>1. Counted(pending.ord, f.ch)
    BY <1>1, <1>2 DEF Running, WorkInPlace, PendingHere
  <2> QED
    BY <2>1, ContentKeeps
<1>4. f.size \in {0, 1}
  BY <1>1 DEF TaskType
<1>5. /\ p \in PendingType /\ p.ch = f.ch /\ p.ord = pending.ord
      /\ p.got < p.size <=> f.op = "header" /\ f.size = 1
      /\ p.got < p.size => p.size = 1 /\ p.got = 0
  <2>1. CASE f.op = "header"
    BY <1>1, <1>3, <1>4, <2>1 DEF PendingType
  <2>2. CASE f.op = "body"
    BY <1>1, <1>3, <1>4, <2>2 DEF PendingType
  <2> QED
    BY <2>1, <2>2
<1>6. Round /\ channels' = channels /\ toClient' = toClient /\ fromQueue' = fromQueue /\ history' = history
  BY DEF Complete, Stage
<1>7. /\ phase' = "loop" /\ active' = active /\ subscribed' = subscribed /\ held' = held /\ lastTag' = lastTag /\ view' = view
  BY <1>6 DEF Round, brokerVars
<1>8. Replies(f.ch) /\ Usable(f.ch)' /\ ChannelsOK' /\ (Shutting(f.ch)' <=> Shutting(f.ch)) /\ (Discarded' <=> Discarded)
  BY <1>1, <1>3, <1>6 DEF Replies, Usable, Live, ChannelsOK, Shutting, Discarded
<1>9. Forgets(f.ch) /\ HoldsNothing(f.ch)' /\ AllKnown(f.ch)'
  BY <1>6, <1>8, ReadTags
<1>10. NoneOrphaned'
  BY <1>1, <1>6, <1>7, SameKept
<1>11. /\ channels[f.ch].confirms \in BOOLEAN /\ channels[f.ch].published \in Nat /\ pending.ord \in Nat
  BY <1>1 DEF ChannelsOK, ChannelType, PendingType
<1> DEFINE a == IF pending.ord > 0 THEN 1 ELSE 0
<1>12. Accepted(f.ch) = a /\ a \in Nat
  BY <1>1 DEF Accepted
<1> HIDE DEF a
<1> DEFINE n == channels[f.ch].published + a
<1>13. n \in Nat /\ Now(f.ch) = [at |-> "usable", confirms |-> channels[f.ch].confirms, count |-> n, owes |-> Owed(f.ch)]
  BY <1>3, <1>11, <1>12 DEF Now, Usable, Live
<1>14. Accepted(f.ch)' = a => Now(f.ch)' = [at |-> "usable", confirms |-> channels[f.ch].confirms, count |-> n, owes |-> Owed(f.ch)']
  BY <1>6, <1>8, <1>11, <1>12 DEF Now, Usable, Live
<1> HIDE DEF n
<1>15. ASSUME Accepted(f.ch)' = a, Owed(f.ch)' = IF f.op = "header" THEN f.size ELSE 0 PROVE InProtocol(f.ch)'
  <2>1. After([at |-> "usable", confirms |-> channels[f.ch].confirms, count |-> n, owes |-> Owed(f.ch)], f)
          = [at |-> "usable", confirms |-> channels[f.ch].confirms, count |-> n, owes |-> IF f.op = "header" THEN f.size ELSE 0]
    BY <1>11, <1>13, AfterPiece
  <2>2. Now(f.ch)' = After(Now(f.ch), f)
    BY <1>13, <1>14, <1>15, <2>1
  <2>3. toServer[1].op \notin Anew \cup {"close"} /\ Mine(toServer[1], f.ch)
    BY <1>2 DEF Anew
  <2> QED
    BY <1>1, <1>3, <1>6, <1>7, <1>8, <2>2, <2>3, ReadUsable
<1>16. CASE p.got < p.size
  <2>1. pending' = p /\ staged' = staged
    BY <1>16 DEF Complete
  <2>2. \A t : ~Doing(t)'
    BY <1>1, <1>7, <2>1, NoneStaged
  <2>3. Owed(f.ch)' = 1 /\ Accepted(f.ch)' = a
    BY <1>5, <1>16, <2>1, <2>2 DEF Owed, Accepted, a
  <2>4. InProtocol(f.ch)'
    BY <1>5, <1>15, <1>16, <2>3
  <2>5. PendingHere'
    BY <1>1, <1>3, <1>5, <1>6, <1>8, <1>16, <2>1, <2>2 DEF PendingHere, TaskOn, Counted
  <2>6. WorkInPlace'
    BY <1>1, <1>7, <2>1, <2>2, <2>5, IdleWork DEF Running
  <2>7. staged' \in Seq(TaskType) /\ pending' \in PendingType /\ history' \in HistoryType
    BY <1>1, <1>5, <1>6, <2>1 DEF Shapes, TasksOK
  <2>8. pending.ch \in {0, f.ch} /\ pending'.ch \in {0, f.ch}
    BY <1>5, <2>1
  <2> QED
    BY <1>1, <1>6, <1>8, <1>9, <1>10, <2>2, <2>4, <2>6, <2>7, <2>8, ReadDone
<1>17. CASE ~(p.got < p.size)
  <2>1. PICK t : t = [Frame("publish", p.ch) EXCEPT !.ord = p.ord, !.named = TRUE, !.mandatory = p.mandatory]
    OBVIOUS
  <2>2. pending' = NoPublish /\ staged' = Append(staged, t)
    BY <1>17, <2>1 DEF Complete, Stage
  <2>3. t \in TaskType /\ t.op = "publish" /\ t.ch = f.ch /\ t.ord = pending.ord
    BY <1>5, <2>1, PublishTask
  <2>4. t.op \notin {"none", "connect"}
    BY <2>3
  <2>5. /\ staged' \in Seq(TaskType) /\ Len(staged') = 1 /\ staged'[1] = t
        /\ \A s : Doing(s)' <=> s = t
    BY <1>1, <1>7, <2>2, <2>3, <2>4, OneStaged
  <2>6. NoPublish.ch = 0 /\ NoPublish.ord = 0 /\ NoPublish \in PendingType
    BY DEF NoPublish, PendingType
  <2>7. Owed(f.ch)' = 0 /\ Accepted(f.ch)' = a
    BY <1>2, <2>2, <2>3, <2>5, <2>6 DEF Owed, Accepted, a
  <2>8. InProtocol(f.ch)'
    BY <1>4, <1>5, <1>15, <1>17, <2>7
  <2>9. PendingHere'
    BY <2>2, <2>6 DEF PendingHere
  <2>10. InPlace(t)'
    BY <1>1, <1>3, <1>6, <1>7, <1>8, <2>3, <2>5 DEF InPlace, Counted
  <2>11. WorkInPlace'
    BY <1>1, <1>7, <2>2, <2>3, <2>4, <2>9, <2>10, OneTask DEF Running
  <2>12. history' \in HistoryType /\ pending.ch \in {0, f.ch} /\ pending'.ch \in {0, f.ch} /\ pending' \in PendingType
    BY <1>1, <1>6, <2>2, <2>6 DEF Shapes
  <2>13. \A s : Doing(s)' => s.ch = f.ch /\ Named(s)'
    BY <2>3, <2>5 DEF Named
  <2> QED
    BY <1>1, <1>6, <1>8, <1>9, <1>10, <2>5, <2>8, <2>11, <2>12, <2>13, ReadDone
<1> QED
  BY <1>16, <1>17

\* A frame for which the session closes its channel on the client.
LEMMA ReadShut ==
  ASSUME SessionInv, NEW b \in Channel, Popped(toServer, toServer'), Mine(toServer[1], b),
         toServer[1].op \notin Anew \cup {"close"}, toServer[1].op \notin {"header", "body", "publish"}, Usable(b), pending.ch # b, Live(b)', Now(b)' = Shut,
         phase # "over",
         view' = view, history'.stale = history.stale, history'.discarded = history.discarded,
         NEW g, Pushed(toClient, g, toClient'), g.ch = b, g.op = "close"
  PROVE  InProtocol(b)' /\ view[b].state # "opening"
<1>1. Shapes /\ Running /\ ChannelsOK
  BY DEF SessionInv, Shapes
<1>2. Protocol(b, toServer, toClient, Now(b), view[b], Pristine(b), Tearing(b), history.stale, Discarded)
  BY <1>1 DEF Running, ProtocolKept, InProtocol
<1>3. history.stale \in BOOLEAN /\ Discarded \in BOOLEAN
  BY <1>1 DEF Shapes, HistoryType, Discarded
<1>4. Now(b).at = "usable" /\ Now(b) # Shut /\ Now(b).owes = 0
  BY <1>1, NowIs DEF Owed, Shutting, Usable
<1>5. Len(toServer) \in Nat /\ Len(toServer) > 0 /\ Len(toServer') \in Nat
  BY DEF Popped
<1>6. (\A k \in Up(b, toServer) : toServer[k].op \notin Anew) /\ Closes(b, toClient) = {}
  BY <1>2, <1>3, <1>4, <1>5, Settling
<1>7. \A k \in Up(b, toServer') : toServer'[k].op \notin Anew
  BY <1>6, PopUp
<1>8. view[b].state \in {"open", "closing"}
  <2>1. 1 \in Up(b, toServer)
    BY <1>5 DEF Up
  <2>2. Attended(b, toServer, Now(b), view[b], Pristine(b))
    BY <1>2 DEF Protocol, Course
  <2>3. view[b].state \in {"closed", "opening", "open", "closing"}
    BY <1>1 DEF Shapes, ViewType
  <2> QED
    BY <1>4, <1>6, <2>1, <2>2, <2>3 DEF Attended
<1>9. AtWork(b, toServer', toClient, view[b])
  BY <1>6, <1>7, <1>8 DEF AtWork
<1> DEFINE mid == After(Now(b), toServer[1])
<1>10. Course(b, toServer', toClient, After(Now(b), toServer[1]), view[b], Pristine(b)', history.stale, Discarded)
  BY ReadCourse
<1>11. mid.at = "usable" /\ mid.owes = 0
  BY <1>4 DEF After, Anew
<1>12. Course(b, toServer', toClient, mid, view[b], Pristine(b)', history.stale, Discarded)
  BY <1>10
<1> HIDE DEF mid
<1>13. view[b].owes \in 0 .. 2
  BY <1>1 DEF Shapes, ViewType
<1>14. Course(b, toServer', toClient', Shut, view[b], Pristine(b)', history.stale, Discarded)
  BY <1>3, <1>5, <1>9, <1>12, <1>11, <1>13, SendShut
<1>15. ~Tearing(b)' /\ Discarded' = Discarded
  BY DEF Tearing, Discarded
<1>16. Teardown(b, toServer', toClient', Shut, view[b], Pristine(b)', Tearing(b)')
  BY <1>15 DEF Teardown
<1> QED
  BY <1>8, <1>14, <1>15, <1>16 DEF InProtocol, Protocol

\* A method that emu does not implement.
LEMMA UnsupportedKeeps ==
  ASSUME SessionInv, phase = "select", toServer # <<>>, toServer' = Tail(toServer), NEW f, f = toServer[1],
         f.op = "unsupported", Unsupported(f)
  PROVE  SessionInv'
<1>1. /\ Shapes /\ Running /\ RuleKeeperServed /\ staged = <<>> /\ active = Blank /\ \A t : ~Doing(t)
      /\ Popped(toServer, toServer') /\ f.ch \in Channel /\ ChannelsOK /\ ToClientOK
  BY Reading DEF Shapes
<1>2. pending.ch # f.ch /\ Mine(f, f.ch)
  BY Unpending
<1> DEFINE r == [channels[f.ch] EXCEPT !.closing = TRUE]
<1>3. /\ Usable(f.ch) /\ Round /\ staged' = staged /\ pending' = pending /\ fromQueue' = fromQueue
      /\ toClient' = toClient \o <<Frame("close", f.ch)>>
      /\ history' = [history EXCEPT !.leaked = @ \cup channels[f.ch].consumers]
  BY DEF Unsupported, Send
<1>4. channels' = [channels EXCEPT ![f.ch] = r]
  BY DEF Unsupported
<1>5. channels[f.ch] \in ChannelType
  BY <1>1 DEF ChannelsOK
<1>6. /\ r \in ChannelType /\ r.live = channels[f.ch].live /\ r.closing = TRUE
      /\ r.consumers = channels[f.ch].consumers
  BY <1>5 DEF ChannelType
<1> HIDE DEF r
<1>7. /\ ChannelsOK' /\ channels'[f.ch] = r /\ \A c \in Channel : c # f.ch => channels'[c] = channels[c]
      /\ \A c \in Channel : channels'[c].consumers = channels[c].consumers
  BY <1>1, <1>3, <1>4, <1>6, EditChannel DEF Usable, Live
<1>8. /\ phase' = "loop" /\ active' = active /\ subscribed' = subscribed /\ held' = held /\ lastTag' = lastTag /\ view' = view
  BY <1>3 DEF Round, brokerVars
<1>9. \A t : ~Doing(t)'
  BY <1>1, <1>3, <1>8, NoneStaged
<1>10. Live(f.ch)' /\ Shutting(f.ch)' /\ Now(f.ch)' = Shut
  BY <1>3, <1>6, <1>7 DEF Usable, Live, Shutting, Now
<1>11. /\ history' \in HistoryType /\ history'.leaked = history.leaked \cup channels[f.ch].consumers
       /\ history'.ended = history.ended /\ history'.surprised = history.surprised
       /\ history'.stale = history.stale /\ history'.discarded = history.discarded /\ history'.blurred = history.blurred
  <2>1. history \in HistoryType /\ channels[f.ch].consumers \subseteq Tag
    BY <1>1, <1>5 DEF Shapes, ChannelType
  <2> QED
    BY <1>3, <2>1 DEF HistoryType
<1> DEFINE g == Frame("close", f.ch)
<1>12. g \in TaskType /\ g.op = "close" /\ g.ch = f.ch /\ toClient' = toClient \o <<g>>
  BY <1>1, <1>3 DEF Frame, Blank, TaskType, Kinds
<1> HIDE DEF g
<1>13. Replies(f.ch) /\ Pushed(toClient, g, toClient')
  BY <1>1, <1>12, SendShape DEF Replies, Owned, Truthful
<1>14. InProtocol(f.ch)' /\ view[f.ch].state # "opening"
  <2>1. /\ toServer[1].op \notin Anew \cup {"close"} /\ toServer[1].op \notin {"header", "body", "publish"}
        /\ Mine(toServer[1], f.ch)
    BY <1>2 DEF Anew
  <2> QED
    BY <1>1, <1>2, <1>3, <1>8, <1>10, <1>11, <1>12, <1>13, <2>1, ReadShut
<1>15. Forgets(f.ch) /\ HoldsNothing(f.ch)' /\ AllKnown(f.ch)'
  BY <1>3, <1>10, <1>11, <1>13, <1>14, ReadTags
<1>16. WorkInPlace'
  <2>1. PendingHere'
    BY <1>1, <1>2, <1>3, <1>7, <1>9, PendingStays DEF Running
  <2> QED
    BY <1>1, <1>3, <1>8, <1>9, <2>1, IdleWork DEF Running
<1>17. NoneOrphaned'
  <2>1. ASSUME NEW s \in subscribed, Usable(s.ch), s.tag \in channels[s.ch].consumers PROVE Kept(s)'
    <3>1. s.ch \in Channel
      BY <1>1 DEF Shapes, BrokerOK
    <3>2. CASE s.ch # f.ch
      <4>1. channels'[s.ch] = channels[s.ch]
        BY <1>7, <3>1, <3>2
      <4> QED
        BY <2>1, <4>1, KeptAlike DEF Usable, Live
    <3>3. CASE s.ch = f.ch
      BY <1>11, <2>1, <3>3 DEF Kept
    <3> QED
      BY <3>2, <3>3
  <2>2. history.leaked \subseteq history'.leaked
    BY <1>11
  <2> QED
    BY <1>1, <1>3, <1>8, <2>1, <2>2, StillKept DEF Running
<1>18. staged' \in Seq(TaskType) /\ pending' \in PendingType
  BY <1>1, <1>3 DEF Shapes, TasksOK
<1>19. Discarded => Discarded'
  BY <1>11 DEF Discarded
<1> QED
  BY <1>1, <1>3, <1>7, <1>9, <1>11, <1>13, <1>14, <1>15, <1>16, <1>17, <1>18, <1>19, ReadDone

LEMMA HeaderKeeps ==
  ASSUME SessionInv, phase = "select", toServer # <<>>, toServer' = Tail(toServer), NEW f, f = toServer[1],
         f.op = "header", ContentHeader(f)
  PROVE  SessionInv'
<1>1. CASE pending.ch # f.ch
  BY <1>1, ContentKeeps DEF ContentHeader
<1>2. CASE pending.ch = f.ch
  <2>1. Complete([pending EXCEPT !.size = f.size])
    BY <1>2 DEF ContentHeader
  <2> QED
    BY <1>2, <2>1, PieceKeeps
<1> QED
  BY <1>1, <1>2

LEMMA BodyKeeps ==
  ASSUME SessionInv, phase = "select", toServer # <<>>, toServer' = Tail(toServer), NEW f, f = toServer[1],
         f.op = "body", ContentBody(f)
  PROVE  SessionInv'
<1>1. CASE pending.ch # f.ch
  BY <1>1, ContentKeeps DEF ContentBody
<1>2. CASE pending.ch = f.ch
  <2>1. ~(pending.got + 1 > pending.size)
    <3>1. pending.got = 0 /\ pending.size = 1
      BY <1>2, ContentKeeps
    <3> QED
      BY <3>1
  <2>2. Complete([pending EXCEPT !.got = @ + 1])
    BY <1>2, <2>1 DEF ContentBody
  <2> QED
    BY <1>2, <2>2, PieceKeeps
<1> QED
  BY <1>1, <1>2

LEMMA ReceiveKeeps == ASSUME SessionInv, Receive PROVE SessionInv'
<1>1. phase = "select" /\ toServer # <<>> /\ toServer' = Tail(toServer) /\ Dispatch(Head(toServer))
  BY DEF Receive
<1>2. /\ Shapes /\ RuleKeeperServed /\ ToServerOK' /\ ToClientOK /\ Popped(toServer, toServer')
      /\ Head(toServer) = toServer[1] /\ toServer[1].ch \in Channel
  BY <1>1, Reading DEF Shapes
<1>3. Mine(toServer[1], toServer[1].ch) => Live(toServer[1].ch) \/ toServer[1].op = "open"
  BY <1>1, <1>2, HeadFits
<1>4. PICK f : f = toServer[1]
  OBVIOUS
<1>5. Dispatch(f) /\ (f.op = "bye" \/ Live(f.ch) \/ f.op = "open")
  BY <1>1, <1>2, <1>3, <1>4 DEF Mine
<1>6. CASE f.op = "garbled" /\ Fatal(f, "unknown frame")
  <2>1. Allowed("unknown frame")
    BY DEF Allowed, Endings
  <2> QED
    BY <1>2, <1>6, <2>1, FatalKeeps
<1>7. CASE f.op = "bye" /\ Over("bye") /\ Send(<<Frame("connectionCloseOk", 0)>>)
  <2>1. Allowed("bye")
    BY DEF Allowed, Endings
  <2>2. toClient' = toClient \o <<Frame("connectionCloseOk", 0)>>
    BY <1>7 DEF Send
  <2>3. "connectionCloseOk" \in Kinds
    BY DEF Kinds
  <2>4. ToClientOK'
    BY <1>2, <2>2, <2>3, SendPlain
  <2> QED
    BY <1>2, <1>7, <2>1, <2>4, OverKeeps
<1>8. CASE f.op = "open" /\ OpenChannel(f)
  BY <1>1, <1>4, <1>8, OpenKeeps
<1>9. CASE f.op = "closeOk" /\ CloseOk(f)
  BY <1>1, <1>4, <1>9, CloseOkKeeps
<1>10. CASE f.op \notin {"garbled", "bye", "header", "body", "open", "closeOk"} /\ Discard(f)
  BY <1>1, <1>4, <1>10, DiscardKeeps
<1>11. CASE f.op = "close" /\ CloseChannel(f)
  BY <1>1, <1>4, <1>11, CloseKeeps
<1>12. CASE f.op = "unsupported" /\ Unsupported(f)
  BY <1>1, <1>4, <1>12, UnsupportedKeeps
<1>13. CASE f.op \in {"call", "consume", "cancel", "get"} /\ Decode(f)
  BY <1>1, <1>4, <1>13, DecodeKeeps
<1>14. CASE f.op = "settle" /\ SettleDecode(f)
  BY <1>1, <1>4, <1>14, SettleDecodeKeeps
<1>15. CASE f.op = "select" /\ SelectConfirms(f)
  BY <1>1, <1>4, <1>15, SelectKeeps
<1>16. CASE f.op = "publish" /\ PublishMethod(f)
  BY <1>1, <1>4, <1>16, PublishKeeps
<1>17. /\ f.op = "garbled" => Fatal(f, "unknown frame")
       /\ f.op = "bye" => Over("bye") /\ Send(<<Frame("connectionCloseOk", 0)>>)
       /\ f.op = "header" => ContentHeader(f)
       /\ f.op = "body" => ContentBody(f)
       /\ f.op = "open" => OpenChannel(f)
       /\ f.op = "closeOk" => CloseOk(f)
       /\ f.op = "close" => Discard(f) \/ CloseChannel(f)
       /\ f.op = "unsupported" => Discard(f) \/ Unsupported(f)
       /\ f.op \in {"call", "consume", "cancel", "get"} => Discard(f) \/ Decode(f)
       /\ f.op = "settle" => Discard(f) \/ SettleDecode(f)
       /\ f.op = "select" => Discard(f) \/ SelectConfirms(f)
       /\ f.op = "publish" => Discard(f) \/ PublishMethod(f)
       /\ \/ f.op \in {"garbled", "bye", "header", "body", "open", "closeOk", "close", "unsupported", "settle"}
          \/ f.op \in {"call", "consume", "cancel", "get", "select", "publish"}
          \/ Discard(f)
  BY <1>5 DEF Dispatch
<1>18. CASE f.op = "garbled"
  BY <1>17, <1>6, <1>18
<1>19. CASE f.op = "bye"
  BY <1>17, <1>7, <1>19
<1>20. CASE f.op \in {"header", "body"}
  <2>1. CASE f.op = "header"
    <3>1. ContentHeader(f)
      BY <1>17, <2>1
    <3> QED
      BY <1>1, <1>4, <2>1, <3>1, HeaderKeeps
  <2>2. CASE f.op = "body"
    <3>1. ContentBody(f)
      BY <1>17, <2>2
    <3> QED
      BY <1>1, <1>4, <2>2, <3>1, BodyKeeps
  <2> QED
    BY <1>20, <2>1, <2>2
<1>21. CASE f.op \in {"open", "closeOk"}
  BY <1>17, <1>8, <1>9, <1>21
<1>22. CASE f.op \in {"close", "unsupported"}
  BY <1>17, <1>10, <1>11, <1>12, <1>22
<1>23. CASE f.op \in {"call", "consume", "cancel", "get", "settle"}
  BY <1>17, <1>10, <1>13, <1>14, <1>23
<1>24. CASE f.op \in {"select", "publish"}
  BY <1>17, <1>10, <1>15, <1>16, <1>24
<1> QED
  BY <1>17, <1>10, <1>18, <1>19, <1>20, <1>21, <1>22, <1>23, <1>24

\* A client that breaks the rules is cut off.
LEMMA BrokenKeeps == ASSUME SessionInv, ReceiveBroken PROVE SessionInv'
<1>1. Shapes /\ RuleKeeperServed /\ ToServerOK /\ ToClientOK
  BY DEF SessionInv, Shapes
<1>2. PICK kind \in {"garbled", "open", "call", "header", "body"}, ch \in Channel :
        Dispatch([Frame(kind, ch) EXCEPT !.broken = TRUE])
  BY DEF ReceiveBroken
<1>3. phase' = "over" /\ toServer' = toServer /\ phase = "select"
  BY DEF ReceiveBroken
<1>4. ToServerOK'
  BY <1>1, <1>3 DEF ToServerOK
<1> DEFINE f == [Frame(kind, ch) EXCEPT !.broken = TRUE]
<1>5. f.broken = TRUE /\ f.op = kind
  BY DEF Frame, Blank
<1>6. Dispatch(f)
  BY <1>2
<1> HIDE DEF f
<1>7. ~Round
  BY <1>3 DEF Round
<1>8. \E why : Fatal(f, why)
  BY <1>5, <1>6, <1>7 DEF Dispatch, ContentHeader, ContentBody, Complete, Stage, OpenChannel, CloseOk, Discard,
     CloseChannel, Decode
<1> QED
  BY <1>1, <1>4, <1>5, <1>8, FatalKeeps

----------------------------------------------------------------------------
(* The session speaks: a delivery, or the answer to an operation            *)
\* Frames that neither begin nor end a channel's life.
Ordinary(g) == g.op \notin {"close", "closeOk", "openOk"} /\ Truthful(g)
Adds(b, s, t) == t = s \/ \E g \in TaskType : t = s \o <<g>> /\ g.ch = b /\ Ordinary(g)
Grows(b, s, t) == t = s \/ \E g \in TaskType : Pushed(s, g, t) /\ g.ch = b /\ Ordinary(g)

LEMMA AddsShape ==
  ASSUME NEW b, NEW s \in Seq(TaskType), NEW t, Adds(b, s, t), \A i \in 1 .. Len(s) : Truthful(s[i])
  PROVE  Grows(b, s, t) /\ t \in Seq(TaskType) /\ \A i \in 1 .. Len(t) : Truthful(t[i])
<1>1. CASE t = s
  BY <1>1 DEF Grows
<1>2. ASSUME NEW g \in TaskType, t = s \o <<g>>, g.ch = b, Ordinary(g)
      PROVE  Grows(b, s, t) /\ t \in Seq(TaskType) /\ \A i \in 1 .. Len(t) : Truthful(t[i])
  <2>1. t \in Seq(TaskType) /\ Pushed(s, g, t)
    BY <1>2, SendOne
  <2>2. \A i \in 1 .. Len(t) : i \in 1 .. Len(s) \/ i = Len(s) + 1
    BY <2>1 DEF Pushed
  <2>3. \A i \in 1 .. Len(t) : Truthful(t[i])
    BY <1>2, <2>1, <2>2 DEF Pushed, Ordinary
  <2> QED
    BY <1>2, <2>1, <2>3 DEF Grows
<1> QED
  BY <1>1, <1>2 DEF Adds

LEMMA GrowsProtocol ==
  ASSUME NEW c, NEW up, NEW down, NEW now, NEW v, NEW prist, NEW torn, NEW stale, NEW disc, NEW b, NEW down2,
         Protocol(c, up, down, now, v, prist, torn, stale, disc), Grows(b, down, down2), b = c => now.at = "usable"
  PROVE  Protocol(c, up, down2, now, v, prist, torn, stale, disc)
<1>1. CASE down2 = down
  BY <1>1
<1>2. ASSUME NEW g, Pushed(down, g, down2), g.ch = b, Ordinary(g)
      PROVE  Protocol(c, up, down2, now, v, prist, torn, stale, disc)
  <2>1. CASE b = c
    BY <1>2, <2>1, SendOwn DEF Ordinary
  <2>2. CASE b # c
    BY <1>2, <2>2, SendOther
  <2> QED
    BY <2>1, <2>2
<1> QED
  BY <1>1, <1>2 DEF Grows

\* A channel's account stays what it was, or only gets better.
BooksStand(c) == Now(c)' = Now(c) /\ (Pristine(c) => Pristine(c)') /\ (Tearing(c)' => Tearing(c))

LEMMA Speaks ==
  ASSUME SessionInv, phase # "over", NEW b, NEW mid, Adds(b, toClient, mid), Adds(b, mid, toClient'),
         toServer' = toServer, view' = view,
         history'.stale = history.stale, history'.discarded = history.discarded,
         b \in Channel => Usable(b), \A c \in Channel : BooksStand(c)
  PROVE  /\ ToClientOK' /\ ProtocolKept'
         /\ mid \in Seq(TaskType) /\ Grows(b, toClient, mid) /\ Grows(b, mid, toClient')
<1>1. ChannelsOK /\ ToClientOK /\ ProtocolKept
  BY DEF SessionInv, Shapes, Running
<1>2. Grows(b, toClient, mid) /\ mid \in Seq(TaskType) /\ \A i \in 1 .. Len(mid) : Truthful(mid[i])
  BY <1>1, AddsShape DEF ToClientOK
<1>3. Grows(b, mid, toClient') /\ ToClientOK'
  BY <1>2, AddsShape DEF ToClientOK
<1>4. ASSUME NEW c \in Channel PROVE InProtocol(c)'
  <2>1. Protocol(c, toServer, toClient, Now(c), view[c], Pristine(c), Tearing(c), history.stale, Discarded)
    BY <1>1 DEF ProtocolKept, InProtocol
  <2>2. b = c => Now(c).at = "usable"
    BY <1>1, NowIs
  <2>3. Protocol(c, toServer, mid, Now(c), view[c], Pristine(c), Tearing(c), history.stale, Discarded)
    BY <1>2, <2>1, <2>2, GrowsProtocol
  <2>4. Protocol(c, toServer, toClient', Now(c), view[c], Pristine(c), Tearing(c), history.stale, Discarded)
    BY <1>3, <2>2, <2>3, GrowsProtocol
  <2>5. BooksStand(c)
    OBVIOUS
  <2>6. Protocol(c, toServer, toClient', Now(c), view[c], Pristine(c)', Tearing(c)', history.stale, Discarded)
    BY <2>4, <2>5, Weaken DEF BooksStand
  <2>7. Now(c)' = Now(c) /\ Discarded' = Discarded
    BY <2>5 DEF BooksStand, Discarded
  <2> QED
    BY <2>6, <2>7 DEF InProtocol
<1> QED
  BY <1>2, <1>3, <1>4 DEF ProtocolKept

\* The tags the client may settle, after the session has spoken.
Introduced(g, c) == Owned(g) /\ g.ch = c => g.dtag \in 1 .. lastTag' /\ Known(g.dtag, c)'
LEMMA GrowsDown ==
  ASSUME NEW b, NEW s, NEW t, Grows(b, s, t), NEW c, NEW i \in Down(c, t)
  PROVE  \/ i \in Down(c, s) /\ t[i] = s[i]
         \/ \E g \in TaskType : Pushed(s, g, t) /\ g = t[i] /\ g.ch = c
<1>1. CASE t = s
  BY <1>1
<1>2. ASSUME NEW g \in TaskType, Pushed(s, g, t)
      PROVE  \/ i \in Down(c, s) /\ t[i] = s[i]
             \/ \E h \in TaskType : Pushed(s, h, t) /\ h = t[i] /\ h.ch = c
  BY <1>2, PushDown
<1> QED
  BY <1>1, <1>2 DEF Grows

LEMMA SpokenTags ==
  ASSUME NEW c \in Channel, HoldsNothing(c), AllKnown(c), NEW b, NEW mid,
         Grows(b, toClient, mid), \A g : Pushed(toClient, g, mid) => ~Owned(g),
         Grows(b, mid, toClient'), \A g : Pushed(mid, g, toClient') => Introduced(g, c),
         toServer' = toServer, view' = view, lastTag \in Nat, lastTag' \in Nat, lastTag <= lastTag',
         Shutting(c)' <=> Shutting(c), \A T : T \in 1 .. lastTag /\ Known(T, c) => Known(T, c)'
  PROVE  HoldsNothing(c)' /\ AllKnown(c)'
<1>1. HoldsNothing(c)'
  BY DEF HoldsNothing
<1>2. ASSUME NEW T, Settleable(T, c) PROVE T \in 1 .. lastTag' /\ (~Shutting(c)' => Known(T, c)')
  <2>1. T \in 1 .. lastTag /\ (~Shutting(c) => Known(T, c))
    BY <1>2 DEF AllKnown
  <2> QED
    BY <2>1
<1>3. ASSUME NEW T, Settleable(T, c)', ~Settleable(T, c) PROVE T \in 1 .. lastTag' /\ (~Shutting(c)' => Known(T, c)')
  <2>1. PICK i \in Down(c, toClient') : Owned(toClient'[i]) /\ toClient'[i].dtag = T
    BY <1>3 DEF Settleable
  <2>2. CASE i \in Down(c, mid) /\ toClient'[i] = mid[i]
    <3>1. ~(i \in Down(c, toClient) /\ mid[i] = toClient[i])
      BY <1>3, <2>1, <2>2 DEF Settleable
    <3>2. \E g \in TaskType : Pushed(toClient, g, mid) /\ g = mid[i] /\ g.ch = c
      BY <2>2, <3>1, GrowsDown
    <3> QED
      BY <2>1, <2>2, <3>2
  <2>3. CASE \E g \in TaskType : Pushed(mid, g, toClient') /\ g = toClient'[i] /\ g.ch = c
    <3>1. PICK g : Pushed(mid, g, toClient') /\ g = toClient'[i] /\ g.ch = c
      BY <2>3
    <3>2. Introduced(g, c) /\ Owned(g) /\ g.dtag = T
      BY <2>1, <3>1
    <3>3. g.dtag \in 1 .. lastTag' /\ Known(g.dtag, c)'
      BY <3>1, <3>2 DEF Introduced
    <3>4. PICK N : N = g.dtag
      OBVIOUS
    <3>5. Known(N, c)' /\ N = T
      BY <3>2, <3>3, <3>4
    <3> QED
      BY <3>3, <3>2, <3>5
  <2> QED
    BY <2>1, <2>2, <2>3, GrowsDown
<1> QED
  BY <1>1, <1>2, <1>3 DEF AllKnown

\* deliver: a message that was waiting is written, or skipped.
LEMMA SendDeliveryKeeps == ASSUME SessionInv, SendDelivery PROVE SessionInv'
<1>1. /\ phase = "writing" /\ phase' \in {"writing", "select"} /\ taken # <<>> /\ taken' = Tail(taken)
      /\ channels' = channels /\ staged' = staged /\ active' = active /\ pending' = pending
      /\ waiting' = waiting /\ woken' = woken /\ pushing' = pushing
      /\ subscribed' = subscribed /\ held' = held /\ lastTag' = lastTag
      /\ toServer' = toServer /\ view' = view /\ history' = history
  BY DEF SendDelivery, brokerVars
<1>2. Shapes /\ Running /\ RuleKeeperServed
  BY <1>1 DEF SessionInv
<1>3. PICK d : d = Head(taken)
  OBVIOUS
<1>4. Popped(taken, taken') /\ d = taken[1] /\ d \in TaskType /\ taken' \in Seq(TaskType) /\ Len(taken) \in Nat /\ Len(taken) > 0
  BY <1>1, <1>2, <1>3, TakeOne DEF Shapes, OutboxOK
<1>5. \A e : InOutbox(e)' => InOutbox(e)
  <2>1. ASSUME NEW i \in 1 .. Len(taken') PROVE i + 1 \in 1 .. Len(taken) /\ taken'[i] = taken[i + 1]
    BY <1>4 DEF Popped
  <2> QED
    BY <1>1, <2>1 DEF InOutbox
<1>6. InOutbox(d) /\ Unwritten(d)
  <2>1. 1 \in 1 .. Len(taken)
    BY <1>4
  <2> QED
    BY <1>2, <1>4, <2>1 DEF InOutbox, Running, TagsKept
<1>7. OutboxOK' /\ Woken'
  BY <1>1, <1>2, <1>4 DEF Shapes, OutboxOK, Running, Woken
<1>8. staged = <<>>
  BY <1>1, <1>2 DEF Running, WorkInPlace
<1>9. CASE ~Usable(d.ch)
  <2>1. UNCHANGED <<sessionVars, brokerVars, toServer, toClient, view, history>>
    BY <1>1, <1>3, <1>9 DEF SendDelivery, Deliverable, sessionVars, brokerVars
  <2> QED
    BY <1>1, <1>5, <1>7, <1>8, <2>1, Moves
<1>10. CASE Usable(d.ch)
  <2>1. toClient' = toClient \o <<d>> /\ fromQueue' = IF d.noAck THEN fromQueue ELSE fromQueue \cup {d.dtag}
    BY <1>3, <1>10 DEF SendDelivery, Deliverable, Send, Remember
  <2>2. SameWork
    BY <1>1, WorkSame
  <2>3. \A c \in Channel : BooksStand(c)
    BY <1>1, <2>2, SameBooks DEF SameWork, BooksStand
  <2>4. Adds(d.ch, toClient, toClient) /\ Adds(d.ch, toClient, toClient')
    BY <1>4, <1>6, <2>1 DEF Adds, Ordinary, Truthful, Unwritten
  <2>5. ToClientOK' /\ ProtocolKept' /\ Grows(d.ch, toClient, toClient) /\ Grows(d.ch, toClient, toClient')
    BY <1>1, <1>10, <2>3, <2>4, Speaks
  <2>6. lastTag \in Nat /\ toClient \in Seq(TaskType) /\ d.ch \in Channel /\ d.dtag \in 1 .. lastTag
        /\ (~d.noAck => d.dtag \in fromQueue')
    BY <1>2, <1>6, <2>1 DEF Shapes, BrokerOK, ToClientOK, Unwritten
  <2>7. fromQueue \subseteq fromQueue' /\ fromQueue' \subseteq 1 .. lastTag
    BY <1>2, <2>1, <2>6 DEF Shapes, BrokerOK
  <2>8. ASSUME NEW c \in Channel PROVE HoldsNothing(c)' /\ AllKnown(c)'
    <3>1. \A g : ~Pushed(toClient, g, toClient)
      BY <2>6 DEF Pushed
    <3>2. ASSUME NEW g, Pushed(toClient, g, toClient') PROVE Introduced(g, c)
      <4>1. g = d
        BY <2>1, <2>6, <1>4, <3>2, SendOne DEF Pushed
      <4>2. ASSUME Owned(d), d.ch = c PROVE Known(d.dtag, c)'
        <5>1. \A h \in held : h.dtag = d.dtag => h.ch = c
          BY <1>6, <4>2 DEF Unwritten, Owned
        <5> QED
          BY <1>1, <2>6, <4>2, <5>1 DEF Known, Owned
      <4> QED
        BY <1>1, <2>6, <4>1, <4>2 DEF Introduced
    <3>3. \A T : Known(T, c) => Known(T, c)'
      BY <1>1, <2>2, <2>7, KnownStays DEF SameWork
    <3>4. HoldsNothing(c) /\ AllKnown(c) /\ (Shutting(c)' <=> Shutting(c))
      BY <1>1, <1>2 DEF Running, TagsKept, Shutting
    <3> QED
      BY <1>1, <2>5, <2>6, <3>1, <3>2, <3>3, <3>4, SpokenTags
  <2>9. NoneOrphaned'
    <3>1. ASSUME NEW s \in subscribed PROVE Kept(s)'
      BY <1>1, <1>2, <2>2 DEF Running, NoneOrphaned, Kept, SameWork, Usable, Live
    <3> QED
      BY <1>1, <1>2, <3>1 DEF Running, NoneOrphaned
  <2>10. WorkInPlace'
    BY <1>1, <1>2, <1>8, WorkStays DEF Running
  <2>11. TagsKept'
    <3>1. \A t : Doing(t)' => Named(t)'
      BY <1>1, <1>2, <2>2 DEF SameWork, Running, TagsKept, Named
    <3>2. \A e : InOutbox(e)' => Unwritten(e)'
      BY <1>1, <1>2, <1>5, OutboxStays DEF Running, TagsKept
    <3> QED
      BY <2>8, <3>1, <3>2 DEF TagsKept
  <2>12. Shapes'
    <3>1. ChannelsOK' /\ TasksOK' /\ ToServerOK'
      BY <1>1, <1>2 DEF Shapes, ChannelsOK, Live, TasksOK, ToServerOK
    <3>2. BrokerOK'
      BY <1>1, <1>2, <2>7 DEF Shapes, BrokerOK
    <3> QED
      BY <1>1, <1>2, <1>7, <2>5, <3>1, <3>2 DEF Shapes
  <2>13. RuleKeeperServed'
    BY <1>1, <1>2 DEF RuleKeeperServed, EndedForCause, NothingAfterClose
  <2> QED
    BY <1>1, <1>7, <2>5, <2>9, <2>10, <2>11, <2>12, <2>13 DEF SessionInv, Running
<1> QED
  BY <1>9, <1>10

\* The operation that is served.
LEMMA AtService ==
  ASSUME SessionInv, phase = "serving"
  PROVE  /\ Shapes /\ Running /\ RuleKeeperServed /\ active \in TaskType /\ active # Blank
         /\ active.op = "connect" => active.ch = 0 /\ staged = <<>>
         /\ active.op # "connect" => /\ Doing(active) /\ InPlace(active) /\ Named(active) /\ active.ch \in Channel
                                     /\ active.op # "cancel" => Usable(active.ch)
                                     /\ Usable(active.ch) => staged = <<>> /\ pending.ch # active.ch
<1>1. Shapes /\ Running /\ RuleKeeperServed
  BY DEF SessionInv
<1>2. active \in TaskType /\ active.op # "none" /\ active # Blank
  BY <1>1, BlankFields DEF Shapes, TasksOK, Running, WorkInPlace
<1>3. active.op = "connect" => active.ch = 0 /\ staged = <<>>
  BY <1>1 DEF Running, WorkInPlace
<1>4. ASSUME active.op # "connect"
      PROVE  /\ Doing(active) /\ InPlace(active) /\ Named(active) /\ active.ch \in Channel
             /\ active.op # "cancel" => Usable(active.ch)
             /\ Usable(active.ch) => staged = <<>> /\ pending.ch # active.ch
  <2>1. Doing(active)
    BY <1>2, <1>4 DEF Doing
  <2>2. InPlace(active) /\ Named(active)
    BY <1>1, <2>1 DEF Running, WorkInPlace, TagsKept
  <2>3. TaskOn(active.ch)
    BY <2>1 DEF TaskOn
  <2>4. active.ch \in Channel /\ (active.op # "cancel" => Usable(active.ch)) /\ (Usable(active.ch) => staged = <<>>)
    BY <1>2, <2>2 DEF InPlace
  <2>5. active.ch # 0
    BY <2>4, AmqpAssumption
  <2>6. pending.ch # active.ch
    BY <1>1, <2>3, <2>5 DEF Running, WorkInPlace, PendingHere
  <2> QED
    BY <2>1, <2>2, <2>4, <2>6
<1> QED
  BY <1>1, <1>2, <1>3, <1>4

\* Nothing is left to do.
LEMMA AllDone ==
  ASSUME active' = Blank, staged' = staged, staged = <<>>
  PROVE  \A t : ~Doing(t)'
BY BlankFields DEF Doing

\* The last operation of a channel at work is answered.
LEMMA BooksAfter ==
  ASSUME SessionInv, phase = "serving", NEW b, b = active.ch, staged = <<>>, b \in Channel => Usable(b),
         active' = Blank, staged' = staged, pending' = pending,
         \A c \in Channel : c # b => channels'[c] = channels[c],
         b \in Channel => /\ Usable(b)' /\ channels'[b].confirms = channels[b].confirms
                          /\ channels'[b].published = channels[b].published + Accepted(b)
  PROVE  \A c \in Channel : BooksStand(c) /\ (Shutting(c)' <=> Shutting(c))
<1>1. \A t : ~Doing(t)'
  BY AllDone
<1>2. \A t : Doing(t) => t = active /\ active.op # "connect"
  BY DEF Doing
<1>3. ASSUME NEW c \in Channel, c # b PROVE BooksStand(c) /\ (Shutting(c)' <=> Shutting(c))
  <2>1. \A t : t.ch = c => (Doing(t)' <=> Doing(t))
    BY <1>1, <1>2, <1>3
  <2>2. channels'[c] = channels[c]
    BY <1>3
  <2> QED
    BY <2>1, <2>2, SameBooks DEF BooksStand, Shutting
<1>4. ASSUME b \in Channel PROVE BooksStand(b) /\ (Shutting(b)' <=> Shutting(b))
  <2>1. Usable(b) /\ Usable(b)' /\ channels'[b].confirms = channels[b].confirms
        /\ channels'[b].published = channels[b].published + Accepted(b) /\ Shapes
    BY <1>4 DEF SessionInv
  <2>2. active.op # "connect"
    <3>1. active.op = "connect" => active.ch = 0
      BY AtService
    <3> QED
      BY <1>4, <3>1, AmqpAssumption
  <2>3. Doing(active) /\ pending.ch # b
    BY <2>1, <2>2, AtService
  <2>4. ~Pristine(b) /\ ~Tearing(b)'
    BY <2>1, <2>3 DEF Pristine, TaskOn, Tearing, Usable, Live
  <2>5. Accepted(b)' = 0 /\ Owed(b)' = Owed(b)
    BY <1>1, <2>3 DEF Accepted, Owed
  <2>6. Accepted(b) \in {0, 1} /\ channels[b].published \in Nat
    BY <1>4, <2>1 DEF Accepted, Shapes, ChannelsOK, ChannelType
  <2>7. channels'[b].published + Accepted(b)' = channels[b].published + Accepted(b)
    BY <2>1, <2>5, <2>6
  <2>8. Now(b)' = Now(b)
    BY <2>1, <2>5, <2>7 DEF Now, Usable, Live
  <2>9. ~Shutting(b) /\ ~Shutting(b)'
    BY <2>1 DEF Usable, Live, Shutting
  <2> QED
    BY <2>4, <2>8, <2>9 DEF BooksStand
<1> QED
  BY <1>3, <1>4

LEMMA ReplyDone ==
  ASSUME SessionInv, phase = "serving", NEW b, b = active.ch, staged = <<>>, b \in Channel => Usable(b),
         Reply, toServer' = toServer, ChannelsOK', BrokerOK', history' \in HistoryType,
         history'.ended = history.ended, history'.surprised = history.surprised, history'.stale = history.stale,
         history'.discarded = history.discarded, history'.blurred = history.blurred,
         \A c \in Channel : c # b => channels'[c] = channels[c],
         b \in Channel => /\ Usable(b)' /\ channels'[b].confirms = channels[b].confirms
                          /\ channels'[b].published = channels[b].published + Accepted(b),
         NEW mid, Adds(b, toClient, mid), Adds(b, mid, toClient'), \A g : Pushed(toClient, g, mid) => ~Owned(g),
         \A c \in Channel : \A g : Pushed(mid, g, toClient') => Introduced(g, c),
         lastTag <= lastTag', \A h \in held' : h \in held \/ h.dtag = lastTag + 1,
         \A c \in Channel : \A T : T \in 1 .. lastTag /\ Known(T, c) => Known(T, c)',
         NoneOrphaned'
  PROVE  SessionInv'
<1>1. /\ phase' = "loop" /\ active' = Blank /\ staged' = staged /\ pending' = pending /\ view' = view
      /\ waiting' = waiting /\ taken' = taken /\ woken' = woken /\ pushing' = pushing
  BY DEF Reply, outboxVars
<1>2. Shapes /\ Running /\ RuleKeeperServed /\ lastTag \in Nat /\ lastTag' \in Nat
  BY DEF SessionInv, Shapes, BrokerOK
<1>3. \A t : ~Doing(t)'
  BY <1>1, AllDone
<1>4. \A c \in Channel : BooksStand(c) /\ (Shutting(c)' <=> Shutting(c))
  BY <1>1, BooksAfter
<1>5. ToClientOK' /\ ProtocolKept' /\ Grows(b, toClient, mid) /\ Grows(b, mid, toClient')
  BY <1>1, <1>4, Speaks
<1>6. ASSUME NEW c \in Channel PROVE HoldsNothing(c)' /\ AllKnown(c)'
  <2>1. HoldsNothing(c) /\ AllKnown(c) /\ (Shutting(c)' <=> Shutting(c))
    BY <1>2, <1>4 DEF Running, TagsKept
  <2>2. \A T : T \in 1 .. lastTag /\ Known(T, c) => Known(T, c)'
    OBVIOUS
  <2>3. \A g : Pushed(mid, g, toClient') => Introduced(g, c)
    OBVIOUS
  <2> QED
    BY <1>1, <1>2, <1>5, <2>1, <2>2, <2>3, SpokenTags
<1>7. \A e : InOutbox(e)' => Unwritten(e)'
  <2>1. ASSUME NEW e, InOutbox(e) PROVE Unwritten(e)'
    <3>1. Unwritten(e)
      BY <1>2, <2>1 DEF Running, TagsKept
    <3>2. \A h \in held' : h.dtag = e.dtag => h \in held
      BY <1>2, <3>1 DEF Unwritten
    <3> QED
      BY <1>2, <3>1, <3>2 DEF Unwritten
  <2> QED
    BY <1>1, <2>1 DEF InOutbox
<1>8. TagsKept'
  BY <1>3, <1>6, <1>7 DEF TagsKept
<1>9. WorkInPlace'
  <2>1. PendingHere'
    <3>1. pending.ch \in Channel => channels'[pending.ch] = channels[pending.ch]
      <4>1. b \in Channel => pending.ch # b
        BY AmqpAssumption, AtService
      <4> QED
        BY <4>1
    <3> QED
      BY <1>1, <1>2, <1>3, <3>1, PendingStays DEF Running
  <2> QED
    BY <1>1, <1>2, <1>3, <2>1, BlankFields DEF WorkInPlace
<1>10. Shapes'
  <2>1. TasksOK' /\ OutboxOK' /\ ToServerOK'
    BY <1>1, <1>2, BlankFields DEF Shapes, TasksOK, OutboxOK, ToServerOK
  <2> QED
    BY <1>1, <1>2, <1>5, <2>1 DEF Shapes
<1>11. RuleKeeperServed' /\ Woken'
  BY <1>1, <1>2 DEF RuleKeeperServed, EndedForCause, NothingAfterClose, Woken
<1> QED
  BY <1>1, <1>5, <1>8, <1>9, <1>10, <1>11 DEF SessionInv, Running

\* One frame at most is said, and no delivery.
Retorts(b) ==
  toClient' = toClient \/ \E g \in TaskType : toClient' = toClient \o <<g>> /\ g.ch = b /\ Ordinary(g) /\ ~Owned(g)

LEMMA RetortAdds ==
  ASSUME ToClientOK, NEW b, Retorts(b)
  PROVE  /\ Adds(b, toClient, toClient) /\ Adds(b, toClient, toClient')
         /\ \A g : Pushed(toClient, g, toClient) => ~Owned(g)
         /\ \A c \in Channel : \A g : Pushed(toClient, g, toClient') => Introduced(g, c)
<1>1. Len(toClient) \in Nat /\ toClient \in Seq(TaskType)
  BY DEF ToClientOK
<1>2. \A g : ~Pushed(toClient, g, toClient)
  BY <1>1 DEF Pushed
<1>3. CASE toClient' = toClient
  BY <1>2, <1>3 DEF Adds
<1>4. ASSUME NEW g \in TaskType, toClient' = toClient \o <<g>>, g.ch = b, Ordinary(g), ~Owned(g)
      PROVE  Adds(b, toClient, toClient') /\ \A h : Pushed(toClient, h, toClient') => ~Owned(h)
  <2>1. Pushed(toClient, g, toClient')
    BY <1>1, <1>4, SendOne
  <2>2. \A h : Pushed(toClient, h, toClient') => h = g
    BY <2>1 DEF Pushed
  <2> QED
    BY <1>4, <2>2 DEF Adds
<1>5. \A h : Pushed(toClient, h, toClient') => ~Owned(h)
  BY <1>2, <1>3, <1>4 DEF Retorts
<1> QED
  BY <1>2, <1>3, <1>4, <1>5 DEF Adds, Introduced, Retorts

LEMMA AnswerRetorts ==
  ASSUME Answer, ToClientOK, active.ch \in Channel \cup {0}
  PROVE  Retorts(active.ch)
<1>1. toClient' = toClient \o (IF active.noWait THEN <<>> ELSE <<Frame("answer", active.ch)>>)
  BY DEF Answer, Send
<1> DEFINE g == Frame("answer", active.ch)
<1>2. g \in TaskType /\ g.op = "answer" /\ g.ch = active.ch
  BY DEF Frame, Blank, TaskType, Kinds
<1>3. toClient \o <<>> = toClient
  BY DEF ToClientOK
<1>4. toClient' = toClient \/ toClient' = toClient \o <<g>>
  BY <1>1, <1>3
<1> HIDE DEF g
<1>5. Ordinary(g) /\ ~Owned(g)
  BY <1>2 DEF Ordinary, Owned, Truthful
<1> QED
  BY <1>2, <1>4, <1>5 DEF Retorts

\* Only a publish had something accepted.
LEMMA NoneAccepted ==
  ASSUME SessionInv, phase = "serving", active.op \notin {"connect", "publish"}, Usable(active.ch)
  PROVE  Accepted(active.ch) = 0
<1>1. staged = <<>> /\ pending.ch # active.ch
  BY AtService
<1>2. \A t : Doing(t) => t = active
  BY <1>1 DEF Doing
<1> QED
  BY <1>1, <1>2 DEF Accepted

\* With nothing staged and the operation on a channel at work, no consumer is
\* on its way out.
LEMMA KeptOut ==
  ASSUME SessionInv, phase = "serving", staged = <<>>, active.op = "connect" \/ Usable(active.ch), NEW s \in subscribed
  PROVE  (Usable(s.ch) /\ s.tag \in channels[s.ch].consumers) \/ s.tag \in history.leaked
<1>1. Kept(s)
  BY DEF SessionInv, Running, NoneOrphaned
<1>2. \A t : Doing(t) => t = active /\ active.op # "connect"
  BY DEF Doing
<1> QED
  BY <1>1, <1>2 DEF Kept

LEMMA ReplyPlainKeeps == ASSUME SessionInv, Serving, ReplyPlain PROVE SessionInv'
<1>1. /\ phase = "serving" /\ toServer' = toServer /\ Reply /\ Answer /\ active.op \in {"connect", "call"}
      /\ channels' = channels /\ fromQueue' = fromQueue /\ subscribed' = subscribed /\ held' = held
      /\ lastTag' = lastTag /\ history' = history
  BY DEF Serving, ReplyPlain, brokerVars
<1>2. Shapes /\ Running /\ ToClientOK /\ lastTag \in Nat
  BY <1>1 DEF SessionInv, Shapes, BrokerOK
<1>3. /\ active.ch \in Channel \cup {0} /\ staged = <<>>
      /\ active.op = "connect" => active.ch = 0
      /\ active.op # "connect" => active.ch \in Channel /\ Usable(active.ch)
  BY <1>1, AtService
<1>4. 0 \notin Channel
  BY AmqpAssumption
<1>5. PICK b : b = active.ch
  OBVIOUS
<1>6. b \in Channel => Usable(b) /\ Accepted(b) = 0
  BY <1>1, <1>3, <1>4, <1>5, NoneAccepted
<1>7. /\ Adds(b, toClient, toClient) /\ Adds(b, toClient, toClient')
      /\ \A g : Pushed(toClient, g, toClient) => ~Owned(g)
      /\ \A c \in Channel : \A g : Pushed(toClient, g, toClient') => Introduced(g, c)
  BY <1>1, <1>2, <1>3, <1>5, AnswerRetorts, RetortAdds
<1>8. b \in Channel => /\ Usable(b)' /\ channels'[b].confirms = channels[b].confirms
                       /\ channels'[b].published = channels[b].published + Accepted(b)
  BY <1>1, <1>2, <1>6 DEF Usable, Live, Shapes, ChannelsOK, ChannelType
<1>9. ChannelsOK' /\ BrokerOK'
  BY <1>1, <1>2 DEF Shapes, ChannelsOK, Live, BrokerOK
<1>10. NoneOrphaned'
  <2>1. ASSUME NEW s \in subscribed PROVE Kept(s)'
    <3>1. (Usable(s.ch) /\ s.tag \in channels[s.ch].consumers) \/ s.tag \in history.leaked
      BY <1>1, <1>3, KeptOut
    <3> QED
      BY <1>1, <3>1 DEF Kept, Usable, Live
  <2> QED
    BY <1>1, <1>2, <2>1 DEF NoneOrphaned, Running
<1>11. \A c \in Channel : \A T : T \in 1 .. lastTag /\ Known(T, c) => Known(T, c)'
  <2>1. \A t : Doing(t) => t.op # "settle"
    BY <1>1, <1>3 DEF Doing
  <2> QED
    BY <1>1, <2>1, KnownStays
<1>12. history' \in HistoryType
  BY <1>1, <1>2 DEF Shapes
<1> QED
  BY <1>1, <1>2, <1>3, <1>5, <1>6, <1>7, <1>8, <1>9, <1>10, <1>11, <1>12, ReplyDone

LEMMA EditConsumers ==
  ASSUME ChannelsOK, NEW b \in Channel, Live(b), NEW S, S \subseteq Tag, IsFiniteSet(S),
         channels' = [channels EXCEPT ![b].consumers = S]
  PROVE  /\ ChannelsOK' /\ channels'[b].consumers = S /\ channels'[b].live = channels[b].live
         /\ channels'[b].closing = channels[b].closing /\ channels'[b].confirms = channels[b].confirms
         /\ channels'[b].published = channels[b].published
         /\ \A c \in Channel : c # b => channels'[c] = channels[c]
<1>1. channels \in [Channel -> ChannelType]
  BY DEF ChannelsOK
<1> DEFINE r == [channels[b] EXCEPT !.consumers = S]
<1>2. channels' = [channels EXCEPT ![b] = r]
  OBVIOUS
<1>3. /\ r \in ChannelType /\ r.consumers = S /\ r.live = channels[b].live /\ r.closing = channels[b].closing
      /\ r.confirms = channels[b].confirms /\ r.published = channels[b].published
  BY <1>1 DEF ChannelType
<1> HIDE DEF r
<1>4. channels' \in [Channel -> ChannelType] /\ channels'[b] = r /\ \A c \in Channel : c # b => channels'[c] = channels[c]
  BY <1>1, <1>2, <1>3
<1>5. ASSUME NEW c \in Channel PROVE (channels'[c].live \/ channels'[c] = Gone) /\ IsFiniteSet(channels'[c].consumers)
  BY <1>3, <1>4 DEF ChannelsOK, Live
<1> QED
  BY <1>3, <1>4, <1>5 DEF ChannelsOK, Live

LEMMA KnownKept ==
  ASSUME SessionInv, phase = "serving", staged = <<>>, active.op # "settle",
         fromQueue \subseteq fromQueue', history'.blurred = history.blurred,
         \A h \in held' : h \in held \/ h.dtag = lastTag + 1
  PROVE  \A c \in Channel : \A T : T \in 1 .. lastTag /\ Known(T, c) => Known(T, c)'
<1>1. \A t : Doing(t) => t.op # "settle"
  BY DEF Doing
<1>2. lastTag \in Nat
  BY DEF SessionInv, Shapes, BrokerOK
<1> SUFFICES ASSUME NEW c \in Channel, NEW T, T \in 1 .. lastTag, Known(T, c) PROVE Known(T, c)'
  OBVIOUS
<1>3. \A h \in held' : h.dtag = T => h \in held
  BY <1>2
<1> QED
  BY <1>1, <1>3, KnownStays

LEMMA ReplyConsumeKeeps == ASSUME SessionInv, Serving, ReplyConsume PROVE SessionInv'
<1>1. /\ phase = "serving" /\ toServer' = toServer /\ Reply /\ Answer /\ active.op = "consume"
      /\ active.tag \notin {s.tag : s \in subscribed}
      /\ subscribed' = subscribed \cup {[tag |-> active.tag, ch |-> active.ch, noAck |-> active.noAck]}
      /\ fromQueue' = fromQueue /\ held' = held /\ lastTag' = lastTag
      /\ history' = [history EXCEPT !.leaked = @ \ {active.tag}]
  BY DEF Serving, ReplyConsume
<1>2. Shapes /\ Running /\ ToClientOK /\ lastTag \in Nat /\ ChannelsOK /\ active \in TaskType
  BY <1>1 DEF SessionInv, Shapes, BrokerOK, TasksOK
<1>3. active.ch \in Channel /\ Usable(active.ch) /\ staged = <<>> /\ InPlace(active)
  BY <1>1, AtService
<1>4. PICK b : b = active.ch
  OBVIOUS
<1>5. active.tag \in Tag /\ active.noAck \in BOOLEAN
  BY <1>1, <1>2, <1>3 DEF InPlace, TaskType
<1>6. Accepted(b) = 0
  BY <1>1, <1>3, <1>4, NoneAccepted
<1>7. /\ Adds(b, toClient, toClient) /\ Adds(b, toClient, toClient')
      /\ \A g : Pushed(toClient, g, toClient) => ~Owned(g)
      /\ \A c \in Channel : \A g : Pushed(toClient, g, toClient') => Introduced(g, c)
  BY <1>1, <1>2, <1>3, <1>4, AnswerRetorts, RetortAdds
<1> DEFINE S == channels[b].consumers \cup {active.tag}
<1>8. channels' = [channels EXCEPT ![b].consumers = S]
  BY <1>3, <1>4 DEF ReplyConsume, Usable
<1>9. S \subseteq Tag /\ IsFiniteSet(S) /\ active.tag \in S /\ channels[b].consumers \subseteq S
  <2>1. channels[b].consumers \subseteq Tag /\ IsFiniteSet(channels[b].consumers)
    BY <1>2, <1>3, <1>4 DEF ChannelsOK, ChannelType
  <2> QED
    BY <1>5, <2>1, FS_AddElement
<1> HIDE DEF S
<1>10. /\ ChannelsOK' /\ channels'[b].consumers = S /\ channels'[b].live = channels[b].live
       /\ channels'[b].closing = channels[b].closing /\ channels'[b].confirms = channels[b].confirms
       /\ channels'[b].published = channels[b].published
       /\ \A c \in Channel : c # b => channels'[c] = channels[c]
  <2>1. b \in Channel /\ Live(b) /\ ChannelsOK
    BY <1>2, <1>3, <1>4 DEF Usable
  <2>2. S \subseteq Tag /\ IsFiniteSet(S)
    BY <1>9
  <2> QED
    BY <1>8, <2>1, <2>2, EditConsumers
<1>11. Usable(b) /\ Usable(b)'
  BY <1>3, <1>4, <1>10 DEF Usable, Live
<1>12. channels'[b].published = channels[b].published + Accepted(b)
  BY <1>2, <1>3, <1>4, <1>6, <1>10 DEF ChannelsOK, ChannelType
<1>13. BrokerOK'
  BY <1>1, <1>2, <1>3, <1>5 DEF Shapes, BrokerOK
<1>14. /\ history' \in HistoryType /\ history'.leaked = history.leaked \ {active.tag}
       /\ history'.ended = history.ended /\ history'.surprised = history.surprised
       /\ history'.stale = history.stale /\ history'.discarded = history.discarded /\ history'.blurred = history.blurred
  <2>1. history \in HistoryType
    BY <1>2 DEF Shapes
  <2> QED
    BY <1>1, <2>1 DEF HistoryType
<1>15. NoneOrphaned'
  <2>1. ASSUME NEW s \in subscribed PROVE Kept(s)'
    <3>1. (Usable(s.ch) /\ s.tag \in channels[s.ch].consumers) \/ s.tag \in history.leaked
      BY <1>1, <1>3, KeptOut
    <3>2. s.tag # active.tag /\ s.ch \in Channel
      BY <1>1, <1>2 DEF Shapes, BrokerOK
    <3>3. Usable(s.ch) /\ s.tag \in channels[s.ch].consumers => Usable(s.ch)' /\ s.tag \in channels'[s.ch].consumers
      <4>1. CASE s.ch = b
        BY <1>9, <1>10, <1>11, <4>1
      <4>2. CASE s.ch # b
        BY <1>10, <3>2, <4>2 DEF Usable, Live
      <4> QED
        BY <4>1, <4>2
    <3> QED
      BY <1>14, <3>1, <3>2, <3>3 DEF Kept
  <2> DEFINE new == [tag |-> active.tag, ch |-> active.ch, noAck |-> active.noAck]
  <2>2. PICK n : n = new
    OBVIOUS
  <2>3. n.tag = active.tag /\ n.ch = b
    BY <1>4, <2>2
  <2>4. Kept(n)'
    BY <1>9, <1>10, <1>11, <2>3 DEF Kept
  <2>5. \A s, r \in subscribed' : s.tag = r.tag => s = r
    BY <1>1, <1>2, <2>2, <2>3 DEF NoneOrphaned, Running
  <2>6. \A s \in subscribed' : Kept(s)'
    BY <1>1, <2>1, <2>2, <2>4
  <2> QED
    BY <2>5, <2>6 DEF NoneOrphaned
<1>16. \A c \in Channel : \A T : T \in 1 .. lastTag /\ Known(T, c) => Known(T, c)'
  BY <1>1, <1>3, <1>14, KnownKept
<1>17. /\ lastTag <= lastTag' /\ \A h \in held' : h \in held \/ h.dtag = lastTag + 1
       /\ channels'[b].confirms = channels[b].confirms /\ ChannelsOK'
       /\ \A c \in Channel : c # b => channels'[c] = channels[c]
  BY <1>1, <1>2, <1>10
<1>18. phase = "serving" /\ staged = <<>> /\ Reply /\ toServer' = toServer
  BY <1>1, <1>3
<1> QED
  BY <1>4, <1>7, <1>11, <1>12, <1>13, <1>14, <1>15, <1>16, <1>17, <1>18, ReplyDone

\* A cancellation on a channel at work, or what is left of one that is not:
\* the client asked for no answer then.
LEMMA CancelKeeps ==
  ASSUME SessionInv, Serving, ReplyCancel, Usable(active.ch)
  PROVE  SessionInv'
<1>1. /\ phase = "serving" /\ toServer' = toServer /\ Reply /\ Answer /\ active.op = "cancel"
      /\ subscribed' = {s \in subscribed : s.tag # active.tag}
      /\ fromQueue' = fromQueue /\ held' = held /\ lastTag' = lastTag /\ history' = history
  BY DEF Serving, ReplyCancel
<1>2. Shapes /\ Running /\ ToClientOK /\ lastTag \in Nat /\ ChannelsOK /\ active \in TaskType
  BY <1>1 DEF SessionInv, Shapes, BrokerOK, TasksOK
<1>3. active.ch \in Channel /\ Usable(active.ch) /\ staged = <<>>
  BY <1>1, AtService
<1>4. PICK b : b = active.ch
  OBVIOUS
<1>5. Accepted(b) = 0
  BY <1>1, <1>3, <1>4, NoneAccepted
<1>6. /\ Adds(b, toClient, toClient) /\ Adds(b, toClient, toClient')
      /\ \A g : Pushed(toClient, g, toClient) => ~Owned(g)
      /\ \A c \in Channel : \A g : Pushed(toClient, g, toClient') => Introduced(g, c)
  BY <1>1, <1>2, <1>3, <1>4, AnswerRetorts, RetortAdds
<1> DEFINE S == channels[b].consumers \ {active.tag}
<1>7. channels' = [channels EXCEPT ![b].consumers = S]
  BY <1>3, <1>4 DEF ReplyCancel, Usable
<1>8. S \subseteq Tag /\ IsFiniteSet(S) /\ \A tag : tag \in channels[b].consumers /\ tag # active.tag => tag \in S
  <2>1. channels[b].consumers \subseteq Tag /\ IsFiniteSet(channels[b].consumers)
    BY <1>2, <1>3, <1>4 DEF ChannelsOK, ChannelType
  <2> QED
    BY <2>1, FS_RemoveElement
<1> HIDE DEF S
<1>9. /\ ChannelsOK' /\ channels'[b].consumers = S /\ channels'[b].live = channels[b].live
       /\ channels'[b].closing = channels[b].closing /\ channels'[b].confirms = channels[b].confirms
       /\ channels'[b].published = channels[b].published
       /\ \A c \in Channel : c # b => channels'[c] = channels[c]
  <2>1. b \in Channel /\ Live(b) /\ ChannelsOK
    BY <1>2, <1>3, <1>4 DEF Usable
  <2>2. S \subseteq Tag /\ IsFiniteSet(S)
    BY <1>8
  <2> QED
    BY <1>7, <2>1, <2>2, EditConsumers
<1>10. Usable(b) /\ Usable(b)'
  BY <1>3, <1>4, <1>9 DEF Usable, Live
<1>11. channels'[b].published = channels[b].published + Accepted(b)
  BY <1>2, <1>3, <1>4, <1>5, <1>9 DEF ChannelsOK, ChannelType
<1>12. BrokerOK'
  BY <1>1, <1>2, <1>3 DEF Shapes, BrokerOK
<1>13. history' \in HistoryType
  BY <1>1, <1>2 DEF Shapes
<1>14. NoneOrphaned'
  <2>1. ASSUME NEW s \in subscribed, s.tag # active.tag PROVE Kept(s)'
    <3>1. (Usable(s.ch) /\ s.tag \in channels[s.ch].consumers) \/ s.tag \in history.leaked
      BY <1>1, <1>3, KeptOut
    <3>2. s.ch \in Channel
      BY <1>2 DEF Shapes, BrokerOK
    <3>3. Usable(s.ch) /\ s.tag \in channels[s.ch].consumers => Usable(s.ch)' /\ s.tag \in channels'[s.ch].consumers
      <4>1. CASE s.ch = b
        BY <1>8, <1>9, <1>10, <2>1, <4>1
      <4>2. CASE s.ch # b
        BY <1>9, <3>2, <4>2 DEF Usable, Live
      <4> QED
        BY <4>1, <4>2
    <3> QED
      BY <1>1, <3>1, <3>2, <3>3 DEF Kept
  <2> QED
    BY <1>1, <1>2, <2>1 DEF NoneOrphaned, Running
<1>15. \A c \in Channel : \A T : T \in 1 .. lastTag /\ Known(T, c) => Known(T, c)'
  BY <1>1, <1>3, KnownKept
<1>16. /\ lastTag <= lastTag' /\ \A h \in held' : h \in held \/ h.dtag = lastTag + 1
       /\ channels'[b].confirms = channels[b].confirms /\ ChannelsOK'
       /\ \A c \in Channel : c # b => channels'[c] = channels[c]
  BY <1>1, <1>2, <1>9
<1>17. phase = "serving" /\ staged = <<>> /\ Reply /\ toServer' = toServer
  BY <1>1, <1>3
<1> QED
  BY <1>1, <1>4, <1>6, <1>10, <1>11, <1>12, <1>13, <1>14, <1>15, <1>16, <1>17, ReplyDone

\* The broker's answer to Basic.Get.
LEMMA ReplyGetKeeps == ASSUME SessionInv, Serving, ReplyGet PROVE SessionInv'
<1>1. /\ phase = "serving" /\ toServer' = toServer /\ Reply /\ active.op = "get"
      /\ channels' = channels /\ history' = history
  BY DEF Serving, ReplyGet
<1>2. Shapes /\ Running /\ ToClientOK /\ lastTag \in Nat /\ ChannelsOK /\ active \in TaskType /\ BrokerOK
  BY <1>1 DEF SessionInv, Shapes, BrokerOK, TasksOK
<1>3. active.ch \in Channel /\ Usable(active.ch) /\ staged = <<>>
  BY <1>1, AtService
<1>4. PICK b : b = active.ch
  OBVIOUS
<1>5. Usable(b) /\ Usable(b)' /\ b \in Channel
  BY <1>1, <1>3, <1>4 DEF Usable, Live
<1>6. channels'[b].published = channels[b].published + Accepted(b) /\ channels'[b].confirms = channels[b].confirms
  <2>1. Accepted(b) = 0
    BY <1>1, <1>3, <1>4, NoneAccepted
  <2> QED
    BY <1>1, <1>2, <1>5, <2>1 DEF ChannelsOK, ChannelType
<1>7. ChannelsOK' /\ history' \in HistoryType
  BY <1>1, <1>2 DEF Shapes, ChannelsOK, Live
<1>8. subscribed' = subscribed
  BY DEF ReplyGet, brokerVars
<1>9. NoneOrphaned'
  <2>1. ASSUME NEW s \in subscribed PROVE Kept(s)'
    <3>1. (Usable(s.ch) /\ s.tag \in channels[s.ch].consumers) \/ s.tag \in history.leaked
      BY <1>1, <1>3, KeptOut
    <3> QED
      BY <1>1, <3>1 DEF Kept, Usable, Live
  <2> QED
    BY <1>2, <1>8, <2>1 DEF NoneOrphaned, Running
<1>10. /\ phase = "serving" /\ staged = <<>> /\ Reply /\ toServer' = toServer
       /\ \A c \in Channel : c # b => channels'[c] = channels[c]
  BY <1>1, <1>3
<1> DEFINE g == Frame("getEmpty", active.ch)
<1> DEFINE got == [Frame("getOk", active.ch) EXCEPT !.dtag = lastTag + 1, !.noAck = active.noAck]
<1>11. CASE toClient' = toClient \o <<g>> /\ fromQueue' = fromQueue /\ held' = held /\ lastTag' = lastTag
  <2>1. g \in TaskType /\ g.op = "getEmpty" /\ g.ch = b
    BY <1>3, <1>4 DEF Frame, Blank, TaskType, Kinds
  <2>2. toClient' = toClient \o <<g>>
    BY <1>11
  <2> HIDE DEF g
  <2>3. Retorts(b)
    BY <2>1, <2>2 DEF Retorts, Ordinary, Owned, Truthful
  <2>4. /\ Adds(b, toClient, toClient) /\ Adds(b, toClient, toClient')
        /\ \A f : Pushed(toClient, f, toClient) => ~Owned(f)
        /\ \A c \in Channel : \A f : Pushed(toClient, f, toClient') => Introduced(f, c)
    BY <1>2, <2>3, RetortAdds
  <2>5. BrokerOK'
    BY <1>2, <1>8, <1>11 DEF BrokerOK
  <2>6. lastTag <= lastTag' /\ (\A h \in held' : h \in held \/ h.dtag = lastTag + 1)
    BY <1>2, <1>11
  <2>7. \A c \in Channel : \A T : T \in 1 .. lastTag /\ Known(T, c) => Known(T, c)'
    BY <1>1, <1>3, <1>11, KnownKept
  <2> QED
    BY <1>1, <1>4, <1>5, <1>6, <1>7, <1>9, <1>10, <2>4, <2>5, <2>6, <2>7, ReplyDone
<1>12. CASE /\ lastTag < MaxTag /\ lastTag' = lastTag + 1 /\ toClient' = toClient \o <<got>>
            /\ held' = IF active.noAck THEN held ELSE held \cup {[dtag |-> got.dtag, ch |-> active.ch]}
            /\ fromQueue' = IF got.noAck THEN fromQueue ELSE fromQueue \cup {got.dtag}
  <2>1. got \in TaskType /\ got.op = "getOk" /\ got.ch = b /\ got.dtag = lastTag + 1 /\ got.noAck = active.noAck
    <3>1. active.noAck \in BOOLEAN /\ lastTag + 1 \in Nat
      BY <1>2 DEF TaskType
    <3>2. PICK a \in BOOLEAN, n \in Nat : a = active.noAck /\ n = lastTag + 1
      BY <3>1
    <3>3. b \in Channel /\ got = [Frame("getOk", b) EXCEPT !.dtag = n, !.noAck = a]
      BY <1>3, <1>4, <3>2
    <3> HIDE DEF got
    <3>4. got \in TaskType /\ got.op = "getOk" /\ got.ch = b /\ got.dtag = n /\ got.noAck = a
      BY <3>3 DEF Frame, Blank, TaskType, Kinds
    <3> QED
      BY <3>2, <3>4
  <2>2. toClient' = toClient \o <<got>> /\ lastTag' = lastTag + 1 /\ lastTag < MaxTag
    BY <1>12
  <2>3. /\ fromQueue' = IF active.noAck THEN fromQueue ELSE fromQueue \cup {lastTag + 1}
        /\ held' = IF active.noAck THEN held ELSE held \cup {[dtag |-> lastTag + 1, ch |-> b]}
    BY <1>4, <1>12, <2>1
  <2> HIDE DEF got
  <2>4. Adds(b, toClient, toClient) /\ Adds(b, toClient, toClient')
    BY <2>1, <2>2 DEF Adds, Ordinary, Truthful
  <2>5. toClient \in Seq(TaskType) /\ Len(toClient) \in Nat
    BY <1>2 DEF ToClientOK
  <2>6. \A f : Pushed(toClient, f, toClient) => ~Owned(f)
    BY <2>5 DEF Pushed
  <2>7. lastTag <= lastTag' /\ (\A h \in held' : h \in held \/ h.dtag = lastTag + 1) /\ fromQueue \subseteq fromQueue'
    BY <1>2, <2>2, <2>3
  <2>8. BrokerOK'
    <3>1. MaxTag \in Nat
      BY AmqpAssumption
    <3>2. lastTag' \in 0 .. MaxTag /\ fromQueue' \subseteq 1 .. lastTag'
      BY <1>2, <2>2, <2>3, <3>1 DEF BrokerOK
    <3>3. held' \subseteq [dtag : 1 .. lastTag', ch : Channel]
      BY <1>2, <1>5, <2>2, <2>3 DEF BrokerOK
    <3> QED
      BY <1>2, <1>8, <3>2, <3>3 DEF BrokerOK
  <2>9. \A c \in Channel : \A f : Pushed(toClient, f, toClient') => Introduced(f, c)
    <3> SUFFICES ASSUME NEW c \in Channel, NEW f, Pushed(toClient, f, toClient'), Owned(f), f.ch = c
                 PROVE  f.dtag \in 1 .. lastTag' /\ Known(f.dtag, c)'
      BY DEF Introduced
    <3>1. f = got
      <4>1. Pushed(toClient, got, toClient')
        BY <2>1, <2>2, <2>5, SendOne
      <4> QED
        BY <4>1 DEF Pushed
    <3>2. f.dtag = lastTag + 1 /\ c = b /\ ~active.noAck
      BY <2>1, <3>1 DEF Owned
    <3>3. PICK N : N = f.dtag
      OBVIOUS
    <3>4. ASSUME NEW h \in held', h.dtag = N PROVE h.ch = c
      <4>1. h \notin held
        BY <1>2, <3>2, <3>3, <3>4 DEF BrokerOK
      <4> QED
        BY <2>3, <3>2, <4>1
    <3>5. N \in fromQueue'
      BY <2>3, <3>2, <3>3
    <3>6. Known(N, c)'
      BY <3>4, <3>5 DEF Known
    <3> QED
      BY <1>2, <2>2, <3>2, <3>3, <3>6
  <2>10. \A c \in Channel : \A T : T \in 1 .. lastTag /\ Known(T, c) => Known(T, c)'
    BY <1>1, <1>3, <2>7, KnownKept
  <2> QED
    BY <1>1, <1>4, <1>5, <1>6, <1>7, <1>9, <1>10, <2>4, <2>6, <2>7, <2>8, <2>9, <2>10, ReplyDone
<1> HIDE DEF g, got
<1> QED
  BY <1>11, <1>12 DEF ReplyGet, Send, Remember, brokerVars, g, got

\* A cancellation on a channel that is gone or closing: the client hears
\* nothing of it.
LEMMA LetGoBooks ==
  ASSUME SessionInv, phase = "serving", NEW b, b = active.ch, b \in Channel, ~Usable(b),
         active' = Blank, staged' = staged, pending' = pending,
         \A c \in Channel : c # b => channels'[c] = channels[c],
         channels'[b].live = channels[b].live, channels'[b].closing = channels[b].closing
  PROVE  \A c \in Channel : BooksStand(c)
<1>1. \A t : Doing(t)' => Doing(t)
  BY BlankFields DEF Doing
<1>2. \A t : Doing(t) => Doing(t)' \/ t = active
  BY DEF Doing
<1>3. BooksStand(b)
  <2>1. Now(b)' = Now(b)
    BY DEF Now, Usable, Live
  <2>2. ~Pristine(b)
    BY DEF Pristine, Usable, Live, Gone
  <2>3. Tearing(b)' => Tearing(b)
    BY <1>1 DEF Tearing, Live
  <2> QED
    BY <2>1, <2>2, <2>3 DEF BooksStand
<1>4. ASSUME NEW c \in Channel, c # b PROVE BooksStand(c)
  <2>1. \A t : t.ch = c => (Doing(t)' <=> Doing(t))
    BY <1>1, <1>2, <1>4
  <2>2. channels'[c] = channels[c]
    BY <1>4
  <2> QED
    BY <2>1, <2>2, SameBooks DEF BooksStand
<1> QED
  BY <1>3, <1>4

LEMMA LetGoRest ==
  ASSUME SessionInv, phase = "serving", active.op = "cancel", NEW b, b = active.ch, ~Usable(b),
         phase' = "loop", active' = Blank, staged' = staged, pending' = pending, fromQueue' = fromQueue,
         waiting' = waiting, taken' = taken, woken' = woken, pushing' = pushing, held' = held, lastTag' = lastTag,
         toServer' = toServer, view' = view, ToClientOK', ProtocolKept',
         \A c \in Channel : \A T : Settleable(T, c)' => Settleable(T, c),
         subscribed' \subseteq subscribed, history' \in HistoryType, history'.ended = history.ended,
         history'.surprised = history.surprised, history.stale => history'.stale,
         history'.discarded = history.discarded, history'.blurred = history.blurred,
         history.leaked \subseteq history'.leaked,
         ChannelsOK', \A c \in Channel : c # b => channels'[c] = channels[c],
         channels'[b].live = channels[b].live, channels'[b].closing = channels[b].closing,
         \A s \in subscribed' : s.tag = active.tag => s.tag \in history'.leaked
  PROVE  SessionInv'
<1>1. /\ Shapes /\ Running /\ RuleKeeperServed /\ b \in Channel /\ active # Blank /\ ChannelsOK
  BY AtService DEF Shapes
<1>2. \A t : Doing(t)' => Doing(t)
  BY BlankFields DEF Doing
<1>3. \A t : Doing(t) => Doing(t)' \/ t = active
  BY DEF Doing
<1>4. \A c \in Channel : (Usable(c)' <=> Usable(c)) /\ (Shutting(c)' <=> Shutting(c)) /\ (Live(c)' <=> Live(c))
  BY DEF Usable, Live, Shutting
<1>5. ASSUME NEW c \in Channel PROVE HoldsNothing(c)' /\ AllKnown(c)'
  <2>1. HoldsNothing(c) /\ AllKnown(c) /\ (Shutting(c)' <=> Shutting(c))
    BY <1>1, <1>4 DEF Running, TagsKept
  <2>2. \A T : Settleable(T, c)' => Settleable(T, c)
    OBVIOUS
  <2>3. \A t : Doing(t) /\ t.op = "settle" => Doing(t)'
    BY <1>3
  <2>4. \A T : Known(T, c) => Known(T, c)'
    BY <2>3, KnownStays
  <2> QED
    BY <2>1, <2>2, <2>4, TagsStay
<1>6. TagsKept'
  <2>1. \A t : Doing(t)' => Named(t)'
    BY <1>1, <1>2 DEF Running, TagsKept, Named
  <2>2. \A e : InOutbox(e)' => Unwritten(e)'
    BY <1>1 DEF Running, TagsKept, InOutbox, Unwritten
  <2> QED
    BY <1>5, <2>1, <2>2 DEF TagsKept
<1>7. WorkInPlace'
  <2>1. ASSUME NEW t, Doing(t)' PROVE InPlace(t)'
    <3>1. InPlace(t) /\ t.ch \in Channel
      BY <1>1, <1>2, <2>1 DEF Running, WorkInPlace, InPlace
    <3>2. Usable(t.ch)' <=> Usable(t.ch)
      BY <1>4, <3>1
    <3>3. t.op = "publish" => Counted(t.ord, t.ch)'
      <4>1. t.op = "publish" => Usable(t.ch) /\ Counted(t.ord, t.ch)
        BY <3>1 DEF InPlace
      <4>2. Usable(t.ch) => channels'[t.ch] = channels[t.ch]
        BY <3>1
      <4> QED
        BY <4>1, <4>2 DEF Counted
    <3> QED
      BY <1>1, <3>1, <3>2, <3>3 DEF InPlace
  <2>2. PendingHere'
    <3>1. PendingHere
      BY <1>1 DEF Running, WorkInPlace
    <3>2. pending.ch # 0 => channels'[pending.ch] = channels[pending.ch]
      BY <3>1 DEF PendingHere
    <3> QED
      BY <1>2, <3>1, <3>2 DEF PendingHere, TaskOn, Usable, Live, Counted
  <2>3. staged' # <<>> => phase' \in {"loop", "serving"}
    OBVIOUS
  <2> QED
    BY <1>1, <2>1, <2>2, BlankFields DEF Running, WorkInPlace
<1>8. NoneOrphaned'
  <2>1. ASSUME NEW s \in subscribed' PROVE Kept(s)'
    <3>1. Kept(s) /\ s.ch \in Channel
      BY <1>1 DEF Running, NoneOrphaned, Shapes, BrokerOK
    <3>2. CASE Usable(s.ch) /\ s.tag \in channels[s.ch].consumers
      <4>1. channels'[s.ch] = channels[s.ch]
        BY <3>1, <3>2
      <4> QED
        BY <1>4, <3>1, <3>2, <4>1 DEF Kept
    <3>3. ASSUME NEW t, Doing(t), t.op = "cancel", t.tag = s.tag, ~Usable(t.ch) PROVE Kept(s)'
      <4>1. CASE t = active
        BY <3>3, <4>1 DEF Kept
      <4>2. CASE Doing(t)'
        <5>1. t.ch \in Channel
          BY <1>1, <3>3 DEF Running, WorkInPlace, InPlace
        <5>2. ~Usable(t.ch)'
          BY <1>4, <3>3, <5>1
        <5> QED
          BY <3>3, <4>2, <5>2 DEF Kept
      <4> QED
        BY <1>3, <3>3, <4>1, <4>2
    <3>4. CASE s.tag \in history.leaked
      BY <3>4 DEF Kept
    <3> QED
      BY <3>1, <3>2, <3>3, <3>4 DEF Kept
  <2> QED
    BY <1>1, <2>1 DEF Running, NoneOrphaned
<1>9. Shapes'
  <2>1. TasksOK' /\ OutboxOK' /\ ToServerOK'
    BY <1>1, BlankFields DEF Shapes, TasksOK, OutboxOK, ToServerOK
  <2>2. BrokerOK'
    BY <1>1 DEF Shapes, BrokerOK
  <2> QED
    BY <1>1, <2>1, <2>2 DEF Shapes
<1>10. RuleKeeperServed' /\ Woken'
  BY <1>1 DEF RuleKeeperServed, EndedForCause, NothingAfterClose, Woken
<1> QED
  BY <1>6, <1>7, <1>8, <1>9, <1>10 DEF SessionInv, Running

LEMMA LetGo ==
  ASSUME SessionInv, phase = "serving", active.op = "cancel", NEW b, b = active.ch, ~Usable(b),
         phase' = "loop", active' = Blank, staged' = staged, pending' = pending, fromQueue' = fromQueue,
         waiting' = waiting, taken' = taken, woken' = woken, pushing' = pushing, held' = held, lastTag' = lastTag,
         toServer' = toServer, toClient' = toClient, view' = view,
         subscribed' \subseteq subscribed, history' \in HistoryType, history'.ended = history.ended,
         history'.surprised = history.surprised, history'.stale = history.stale,
         history'.discarded = history.discarded, history'.blurred = history.blurred,
         history.leaked \subseteq history'.leaked,
         ChannelsOK', \A c \in Channel : c # b => channels'[c] = channels[c],
         channels'[b].live = channels[b].live, channels'[b].closing = channels[b].closing,
         \A s \in subscribed' : s.tag = active.tag => s.tag \in history'.leaked
  PROVE  SessionInv'
<1>1. /\ Shapes /\ Running /\ b \in Channel
  BY AtService
<1>2. \A c \in Channel : BooksStand(c)
  BY <1>1, LetGoBooks
<1>3. ASSUME NEW c \in Channel PROVE InProtocol(c)'
  <2>1. BooksStand(c)
    BY <1>2
  <2>2. InProtocol(c)
    BY <1>1 DEF Running, ProtocolKept
  <2>3. Discarded => Discarded'
    BY DEF Discarded
  <2> QED
    BY <2>1, <2>2, <2>3, SameProtocol DEF BooksStand
<1>4. \A c \in Channel : \A T : Settleable(T, c)' => Settleable(T, c)
  BY DEF Settleable
<1>5. ToClientOK' /\ ProtocolKept'
  BY <1>1, <1>3 DEF Shapes, ToClientOK, ProtocolKept
<1> QED
  BY <1>4, <1>5, LetGoRest

LEMMA ReplyCancelKeeps == ASSUME SessionInv, Serving, ReplyCancel PROVE SessionInv'
<1>1. CASE Usable(active.ch)
  BY <1>1, CancelKeeps
<1>2. CASE ~Usable(active.ch)
  <2>1. /\ phase = "serving" /\ toServer' = toServer /\ Reply /\ Answer /\ active.op = "cancel"
        /\ subscribed' = {s \in subscribed : s.tag # active.tag}
        /\ fromQueue' = fromQueue /\ held' = held /\ lastTag' = lastTag /\ history' = history
    BY DEF Serving, ReplyCancel
  <2>2. /\ phase' = "loop" /\ active' = Blank /\ staged' = staged /\ pending' = pending /\ view' = view
        /\ waiting' = waiting /\ taken' = taken /\ woken' = woken /\ pushing' = pushing
    BY <2>1 DEF Reply, outboxVars
  <2>3. Shapes /\ ChannelsOK /\ ToClientOK
    BY DEF SessionInv, Shapes
  <2>4. active.ch \in Channel /\ InPlace(active)
    BY <2>1, AtService
  <2>5. PICK b : b = active.ch
    OBVIOUS
  <2>6. toClient' = toClient
    <3>1. active.noWait
      BY <1>2, <2>1, <2>4 DEF InPlace
    <3>2. toClient \o <<>> = toClient
      BY <2>3 DEF ToClientOK
    <3> QED
      BY <2>1, <3>1, <3>2 DEF Answer, Send
  <2>7. /\ ChannelsOK' /\ channels'[b].live = channels[b].live /\ channels'[b].closing = channels[b].closing
        /\ \A c \in Channel : c # b => channels'[c] = channels[c]
    <3>1. CASE Live(b)
      <4> DEFINE S == channels[b].consumers \ {active.tag}
      <4>1. channels' = [channels EXCEPT ![b].consumers = S]
        BY <2>5, <3>1 DEF ReplyCancel
      <4>2. S \subseteq Tag /\ IsFiniteSet(S)
        <5>1. channels[b].consumers \subseteq Tag /\ IsFiniteSet(channels[b].consumers)
          BY <2>3, <2>4, <2>5 DEF ChannelsOK, ChannelType
        <5> QED
          BY <5>1, FS_RemoveElement
      <4> HIDE DEF S
      <4> QED
        BY <2>3, <2>4, <2>5, <3>1, <4>1, <4>2, EditConsumers
    <3>2. CASE ~Live(b)
      <4>1. channels' = channels
        BY <2>5, <3>2 DEF ReplyCancel
      <4> QED
        BY <2>3, <4>1 DEF ChannelsOK, Live
    <3> QED
      BY <3>1, <3>2
  <2>8. history' \in HistoryType /\ history.leaked \subseteq history'.leaked
    BY <2>1, <2>3 DEF Shapes
  <2>9. subscribed' \subseteq subscribed /\ \A s \in subscribed' : s.tag # active.tag
    BY <2>1
  <2>10. ~Usable(b)
    BY <1>2, <2>5
  <2> QED
    BY <2>1, <2>2, <2>5, <2>6, <2>7, <2>8, <2>9, <2>10, LetGo
<1> QED
  BY <1>1, <1>2

\* The broker settles what it holds.
LEMMA ReplySettleKeeps == ASSUME SessionInv, Serving, ReplySettle PROVE SessionInv'
<1>1. /\ phase = "serving" /\ toServer' = toServer /\ Reply /\ active.op = "settle"
      /\ held' = held \ Settled(active)
      /\ channels' = channels /\ fromQueue' = fromQueue /\ subscribed' = subscribed /\ lastTag' = lastTag
      /\ toClient' = toClient /\ history' = history
  BY DEF Serving, ReplySettle
<1>2. Shapes /\ Running /\ ToClientOK /\ lastTag \in Nat /\ ChannelsOK /\ BrokerOK
  BY <1>1 DEF SessionInv, Shapes, BrokerOK
<1>3. active.ch \in Channel /\ Usable(active.ch) /\ staged = <<>>
  BY <1>1, AtService
<1>4. PICK b : b = active.ch
  OBVIOUS
<1>5. Usable(b) /\ Usable(b)' /\ b \in Channel
  BY <1>1, <1>3, <1>4 DEF Usable, Live
<1>6. channels'[b].published = channels[b].published + Accepted(b) /\ channels'[b].confirms = channels[b].confirms
  <2>1. Accepted(b) = 0
    BY <1>1, <1>3, <1>4, NoneAccepted
  <2> QED
    BY <1>1, <1>2, <1>5, <2>1 DEF ChannelsOK, ChannelType
<1>7. ChannelsOK' /\ history' \in HistoryType /\ BrokerOK'
  BY <1>1, <1>2 DEF Shapes, ChannelsOK, Live, BrokerOK
<1>8. NoneOrphaned'
  <2>1. ASSUME NEW s \in subscribed PROVE Kept(s)'
    <3>1. (Usable(s.ch) /\ s.tag \in channels[s.ch].consumers) \/ s.tag \in history.leaked
      BY <1>1, <1>3, KeptOut
    <3> QED
      BY <1>1, <3>1 DEF Kept, Usable, Live
  <2> QED
    BY <1>1, <1>2, <2>1 DEF NoneOrphaned, Running
<1>9. /\ Adds(b, toClient, toClient) /\ Adds(b, toClient, toClient')
      /\ \A g : Pushed(toClient, g, toClient) => ~Owned(g)
      /\ \A c \in Channel : \A g : Pushed(toClient, g, toClient') => Introduced(g, c)
  <2>1. Retorts(b)
    BY <1>1 DEF Retorts
  <2> QED
    BY <1>2, <2>1, RetortAdds
<1>10. \A c \in Channel : \A T : T \in 1 .. lastTag /\ Known(T, c) => Known(T, c)'
  <2> SUFFICES ASSUME NEW c \in Channel, NEW T, Known(T, c) PROVE Known(T, c)'
    OBVIOUS
  <2>1. \A t : Doing(t) => t = active
    BY <1>3 DEF Doing
  <2>2. ASSUME NEW h \in held', h.dtag = T
        PROVE  h.ch = c /\ (T \in fromQueue' \/ T \in history'.blurred)
    <3>1. h \in held /\ h \notin Settled(active)
      BY <1>1
    <3>2. h.ch = c /\ (T \in fromQueue \/ T \in history.blurred
                       \/ \E t : Doing(t) /\ t.op = "settle" /\ t.ch = c /\ Covers(t, h))
      BY <2>2, <3>1 DEF Known
    <3>3. ~(active.ch = c /\ Covers(active, h))
      BY <3>1, <3>2 DEF Settled, Covers
    <3> QED
      BY <1>1, <2>1, <3>2, <3>3
  <2> QED
    BY <2>2 DEF Known
<1>11. /\ phase = "serving" /\ staged = <<>> /\ Reply /\ toServer' = toServer /\ lastTag <= lastTag'
       /\ (\A h \in held' : h \in held \/ h.dtag = lastTag + 1)
       /\ \A c \in Channel : c # b => channels'[c] = channels[c]
  BY <1>1, <1>2, <1>3
<1> QED
  BY <1>1, <1>4, <1>5, <1>6, <1>7, <1>8, <1>9, <1>10, <1>11, ReplyDone

\* A mandatory message that went nowhere comes back, then the confirm is sent
\* under the number the client counts.
LEMMA ReplyPublishKeeps == ASSUME SessionInv, Serving, ReplyPublish PROVE SessionInv'
<1>1. /\ phase = "serving" /\ toServer' = toServer /\ Reply /\ active.op = "publish"
      /\ fromQueue' = fromQueue /\ subscribed' = subscribed /\ held' = held /\ lastTag' = lastTag
      /\ history' = history
  BY DEF Serving, ReplyPublish, brokerVars
<1>2. Shapes /\ Running /\ ToClientOK /\ lastTag \in Nat /\ ChannelsOK /\ BrokerOK /\ active \in TaskType
  BY <1>1 DEF SessionInv, Shapes, BrokerOK, TasksOK
<1>3. active.ch \in Channel /\ Usable(active.ch) /\ staged = <<>> /\ Doing(active) /\ pending.ch # active.ch
      /\ Counted(active.ord, active.ch)
  BY <1>1, AtService DEF InPlace
<1>4. PICK b, n : b = active.ch /\ n = active.ord
  OBVIOUS
<1>5. Usable(b) /\ Live(b) /\ b \in Channel /\ channels[b] \in ChannelType /\ n \in Nat
  BY <1>2, <1>3, <1>4 DEF Usable, ChannelsOK, TaskType
<1>6. /\ channels[b].confirms => n = channels[b].published + 1 /\ Accepted(b) = 1
      /\ ~channels[b].confirms => Accepted(b) = 0
  <2>1. (n > 0 <=> channels[b].confirms) /\ (n > 0 => n = channels[b].published + 1)
    BY <1>3, <1>4 DEF Counted
  <2>2. \A t : Doing(t) <=> t = active
    BY <1>3 DEF Doing
  <2>3. n > 0 => Accepted(b) = 1
    BY <1>1, <1>3, <1>4 DEF Accepted
  <2>4. ~(n > 0) => Accepted(b) = 0
    BY <1>3, <1>4, <2>2 DEF Accepted
  <2> QED
    BY <2>1, <2>3, <2>4
<1> DEFINE back == Frame("return", b)
<1> DEFINE confirm == [Frame("confirm", b) EXCEPT !.dtag = channels[b].published + 1, !.ord = n]
<1>7. back \in TaskType /\ back.op = "return" /\ back.ch = b
  BY <1>5 DEF Frame, Blank, TaskType, Kinds
<1>8. confirm \in TaskType /\ confirm.op = "confirm" /\ confirm.ch = b /\ confirm.ord = n
      /\ confirm.dtag = channels[b].published + 1
  <2>1. PICK m \in Nat : m = channels[b].published + 1
    BY <1>5 DEF ChannelType
  <2>2. confirm = [Frame("confirm", b) EXCEPT !.dtag = m, !.ord = n]
    BY <2>1
  <2> HIDE DEF confirm
  <2>3. confirm \in TaskType /\ confirm.op = "confirm" /\ confirm.ch = b /\ confirm.ord = n /\ confirm.dtag = m
    BY <1>5, <2>2 DEF Frame, Blank, TaskType, Kinds
  <2> QED
    BY <2>1, <2>3
<1>9. PICK routed \in BOOLEAN :
        LET returned == IF active.mandatory /\ ~routed THEN <<back>> ELSE <<>>
        IN IF Live(active.ch) /\ channels[active.ch].confirms
           THEN /\ channels' = [channels EXCEPT ![active.ch].published = @ + 1]
                /\ Send(returned \o <<confirm>>)
           ELSE Send(returned) /\ UNCHANGED channels
  BY <1>4 DEF ReplyPublish, NextConfirm
<1> HIDE DEF back, confirm
<1>10. PICK returned : /\ returned \in {<<>>, <<back>>}
                       /\ channels[b].confirms => /\ channels' = [channels EXCEPT ![b].published = @ + 1]
                                                  /\ toClient' = toClient \o (returned \o <<confirm>>)
                       /\ ~channels[b].confirms => channels' = channels /\ toClient' = toClient \o returned
  BY <1>4, <1>5, <1>9 DEF Send
<1>11. PICK mid : mid = toClient \o returned
  OBVIOUS
<1>12. /\ mid \in Seq(TaskType)
       /\ mid = toClient \/ mid = toClient \o <<back>>
       /\ mid \o <<confirm>> = toClient \o (returned \o <<confirm>>)
  <2>1. toClient \in Seq(TaskType) /\ toClient \o <<>> = toClient
    BY <1>2 DEF ToClientOK
  <2>2. CASE returned = <<>>
    BY <1>11, <2>1, <2>2, NoneThenOne
  <2>3. CASE returned = <<back>>
    BY <1>7, <1>8, <1>11, <2>1, <2>3, SendTwo, SendOne
  <2> QED
    BY <1>10, <2>2, <2>3
<1>13. Adds(b, toClient, mid) /\ \A g : Pushed(toClient, g, mid) => ~Owned(g)
  <2>1. toClient \in Seq(TaskType) /\ Len(toClient) \in Nat
    BY <1>2 DEF ToClientOK
  <2>2. \A g : Pushed(toClient, g, mid) => ~Owned(g)
    <3>1. CASE mid = toClient
      BY <2>1, <3>1 DEF Pushed
    <3>2. CASE mid = toClient \o <<back>>
      <4>1. Pushed(toClient, back, mid)
        BY <1>7, <2>1, <3>2, SendOne
      <4> QED
        BY <1>7, <4>1 DEF Pushed, Owned
    <3> QED
      BY <1>12, <3>1, <3>2
  <2> QED
    BY <1>7, <1>12, <2>2 DEF Adds, Ordinary, Truthful
<1>14. toClient' = IF channels[b].confirms THEN mid \o <<confirm>> ELSE mid
  BY <1>10, <1>11, <1>12
<1>15. Adds(b, mid, toClient') /\ \A g : Pushed(mid, g, toClient') => ~Owned(g)
  <2>1. CASE ~channels[b].confirms
    <3>1. Len(mid) \in Nat /\ toClient' = mid
      BY <1>12, <1>14, <2>1
    <3> QED
      BY <3>1 DEF Adds, Pushed
  <2>2. CASE channels[b].confirms
    <3>1. toClient' = mid \o <<confirm>> /\ Ordinary(confirm) /\ ~Owned(confirm)
      BY <1>6, <1>8, <1>14, <2>2 DEF Ordinary, Owned, Truthful
    <3>2. Pushed(mid, confirm, toClient')
      BY <1>8, <1>12, <3>1, SendOne
    <3>3. \A g : Pushed(mid, g, toClient') => g = confirm
      BY <3>2 DEF Pushed
    <3> QED
      BY <1>8, <3>1, <3>3 DEF Adds
  <2> QED
    BY <2>1, <2>2
<1>16. /\ ChannelsOK' /\ Usable(b)' /\ channels'[b].confirms = channels[b].confirms
       /\ channels'[b].published = channels[b].published + Accepted(b)
       /\ \A c \in Channel : channels'[c].consumers = channels[c].consumers /\ (Usable(c) => Usable(c)')
       /\ \A c \in Channel : c # b => channels'[c] = channels[c]
  <2>1. CASE ~channels[b].confirms
    BY <1>2, <1>5, <1>6, <1>10, <2>1 DEF ChannelsOK, ChannelType, Usable, Live
  <2>2. CASE channels[b].confirms
    <3> DEFINE r == [channels[b] EXCEPT !.published = @ + 1]
    <3>1. channels' = [channels EXCEPT ![b] = r]
      BY <1>10, <2>2
    <3>2. /\ r \in ChannelType /\ r.live = channels[b].live /\ r.closing = channels[b].closing
          /\ r.confirms = channels[b].confirms /\ r.consumers = channels[b].consumers
          /\ r.published = channels[b].published + 1
      BY <1>5 DEF ChannelType
    <3> HIDE DEF r
    <3>3. /\ ChannelsOK' /\ channels'[b] = r /\ (\A c \in Channel : c # b => channels'[c] = channels[c])
          /\ \A c \in Channel : channels'[c].consumers = channels[c].consumers /\ (Live(c)' <=> Live(c))
      BY <1>2, <1>5, <3>1, <3>2, EditChannel DEF Live
    <3> QED
      BY <1>5, <1>6, <2>2, <3>2, <3>3 DEF Usable, Live
  <2> QED
    BY <2>1, <2>2
<1>17. NoneOrphaned'
  <2>1. ASSUME NEW s \in subscribed PROVE Kept(s)'
    <3>1. (Usable(s.ch) /\ s.tag \in channels[s.ch].consumers) \/ s.tag \in history.leaked
      BY <1>1, <1>3, KeptOut
    <3>2. s.ch \in Channel
      BY <1>2 DEF BrokerOK
    <3> QED
      BY <1>1, <1>16, <3>1, <3>2 DEF Kept
  <2> QED
    BY <1>1, <1>2, <2>1 DEF NoneOrphaned, Running
<1>18. \A c \in Channel : \A T : T \in 1 .. lastTag /\ Known(T, c) => Known(T, c)'
  BY <1>1, <1>3, KnownKept
<1>19. /\ phase = "serving" /\ staged = <<>> /\ Reply /\ toServer' = toServer /\ lastTag <= lastTag'
       /\ (\A h \in held' : h \in held \/ h.dtag = lastTag + 1) /\ BrokerOK' /\ history' \in HistoryType
       /\ \A c \in Channel : \A g : Pushed(mid, g, toClient') => Introduced(g, c)
  BY <1>1, <1>2, <1>3, <1>15 DEF BrokerOK, Shapes, Introduced
<1> QED
  BY <1>1, <1>4, <1>5, <1>13, <1>15, <1>16, <1>17, <1>18, <1>19, ReplyDone

\* What is noted of a failure.
LEMMA FailNotes ==
  ASSUME SessionInv, Serving, FailOperation
  PROVE  /\ phase = "serving" /\ toServer' = toServer /\ active.op # "connect" /\ phase' = "loop" /\ active' = Blank
         /\ pending' = pending /\ fromQueue' = fromQueue /\ view' = view
         /\ waiting' = waiting /\ taken' = taken /\ woken' = woken /\ pushing' = pushing
         /\ subscribed' = subscribed /\ held' = held /\ lastTag' = lastTag
         /\ history' \in HistoryType /\ history.leaked \subseteq history'.leaked
         /\ active.op = "cancel" /\ ~Usable(active.ch) => active.tag \in history'.leaked
         /\ Live(active.ch) => history'.stale = history.stale
         /\ ~Live(active.ch) => history'.stale
         /\ history'.ended = history.ended /\ history'.surprised = history.surprised
         /\ history'.discarded = history.discarded /\ history'.blurred = history.blurred
<1> DEFINE lost == IF active.op = "cancel" /\ ~Usable(active.ch) THEN history.leaked \cup {active.tag} ELSE history.leaked
<1> DEFINE torn == history.stale \/ ~Live(active.ch)
<1>1. history' = [history EXCEPT !.leaked = lost, !.stale = torn]
  BY DEF FailOperation
<1>2. history \in HistoryType /\ active \in TaskType
  BY DEF SessionInv, Shapes, TasksOK
<1>3. lost \subseteq Tag \cup {NoTag} /\ torn \in BOOLEAN
  BY <1>2 DEF HistoryType, TaskType
<1>4. history.stale \in BOOLEAN
  BY <1>2 DEF HistoryType
<1>5. Live(active.ch) => torn = history.stale
  BY <1>4
<1>6. ~Live(active.ch) => torn
  OBVIOUS
<1>7. history.leaked \subseteq lost /\ (active.op = "cancel" /\ ~Usable(active.ch) => active.tag \in lost)
  OBVIOUS
<1> HIDE DEF lost, torn
<1>8. /\ history' \in HistoryType /\ history'.leaked = lost /\ history'.stale = torn
      /\ history'.ended = history.ended /\ history'.surprised = history.surprised
      /\ history'.discarded = history.discarded /\ history'.blurred = history.blurred
  BY <1>1, <1>2, <1>3 DEF HistoryType
<1>9. /\ phase = "serving" /\ toServer' = toServer /\ active.op # "connect" /\ phase' = "loop" /\ active' = Blank
      /\ pending' = pending /\ fromQueue' = fromQueue /\ view' = view
      /\ waiting' = waiting /\ taken' = taken /\ woken' = woken /\ pushing' = pushing
      /\ subscribed' = subscribed /\ held' = held /\ lastTag' = lastTag
  BY DEF Serving, FailOperation, outboxVars, brokerVars
<1> QED
  BY <1>5, <1>6, <1>7, <1>8, <1>9

\* On a channel that is being closed the failure is the client's already.
LEMMA FailShut == ASSUME SessionInv, Serving, FailOperation, Shutting(active.ch) PROVE SessionInv'
<1>1. /\ channels' = channels /\ staged' = staged /\ toClient' = toClient
  BY DEF FailOperation, Shutting, Live
<1>2. PICK b : b = active.ch
  OBVIOUS
<1>3. ~Usable(b) /\ Live(b)
  BY <1>2 DEF Usable, Live, Shutting
<1>4. active.op = "cancel"
  BY <1>2, <1>3, FailNotes, AtService
<1>5. ChannelsOK'
  BY <1>1 DEF SessionInv, Shapes, ChannelsOK, Live
<1>6. \A s \in subscribed' : s.tag = active.tag => s.tag \in history'.leaked
  BY <1>2, <1>3, <1>4, FailNotes
<1>7. /\ phase = "serving" /\ toServer' = toServer /\ phase' = "loop" /\ active' = Blank
      /\ pending' = pending /\ fromQueue' = fromQueue /\ view' = view
      /\ waiting' = waiting /\ taken' = taken /\ woken' = woken /\ pushing' = pushing
      /\ subscribed' \subseteq subscribed /\ held' = held /\ lastTag' = lastTag
      /\ history' \in HistoryType /\ history.leaked \subseteq history'.leaked
      /\ history'.ended = history.ended /\ history'.surprised = history.surprised
      /\ history'.discarded = history.discarded /\ history'.blurred = history.blurred
  BY FailNotes
<1>8. history'.stale = history.stale
  BY <1>2, <1>3, FailNotes
<1> QED
  BY <1>1, <1>2, <1>3, <1>4, <1>5, <1>6, <1>7, <1>8, LetGo

\* On a channel that is gone, Fail closes it on the client a second time.
LEMMA FailGone == ASSUME SessionInv, Serving, FailOperation, ~Live(active.ch) PROVE SessionInv'
<1> DEFINE g == Frame("close", active.ch)
<1>1. channels' = channels /\ staged' = staged /\ toClient' = toClient \o <<g>>
  BY DEF FailOperation, Send
<1>2. PICK b : b = active.ch
  OBVIOUS
<1>3. ~Usable(b) /\ ~Live(b)
  BY <1>2 DEF Usable, Live
<1>4. active.op = "cancel" /\ b \in Channel /\ Doing(active) /\ phase = "serving"
  BY <1>2, <1>3, FailNotes, AtService
<1>5. ChannelsOK' /\ ToClientOK /\ Running
  BY <1>1, <1>4 DEF SessionInv, Shapes, ChannelsOK, Live
<1>6. \A s \in subscribed' : s.tag = active.tag => s.tag \in history'.leaked
  BY <1>2, <1>3, <1>4, FailNotes
<1>7. /\ phase = "serving" /\ toServer' = toServer /\ phase' = "loop" /\ active' = Blank
      /\ pending' = pending /\ fromQueue' = fromQueue /\ view' = view
      /\ waiting' = waiting /\ taken' = taken /\ woken' = woken /\ pushing' = pushing
      /\ subscribed' \subseteq subscribed /\ held' = held /\ lastTag' = lastTag
      /\ history' \in HistoryType /\ history.leaked \subseteq history'.leaked
      /\ history'.ended = history.ended /\ history'.surprised = history.surprised
      /\ history'.discarded = history.discarded /\ history'.blurred = history.blurred
  BY FailNotes
<1>8. history'.stale /\ Discarded' = Discarded
  BY <1>2, <1>3, FailNotes DEF Discarded
<1>9. g \in TaskType /\ g.op = "close" /\ g.ch = b
  BY <1>2, <1>4 DEF Frame, Blank, TaskType, Kinds
<1> HIDE DEF g
<1>10. ToClientOK' /\ Pushed(toClient, g, toClient')
  BY <1>1, <1>5, <1>9, SendShape DEF Truthful
<1>11. \A c \in Channel : BooksStand(c)
  BY <1>1, <1>2, <1>3, <1>4, <1>7, LetGoBooks
<1>12. ASSUME NEW c \in Channel PROVE InProtocol(c)'
  <2>1. Protocol(c, toServer, toClient, Now(c), view[c], Pristine(c), Tearing(c), history.stale, Discarded)
    BY <1>5 DEF Running, ProtocolKept, InProtocol
  <2>2. history.stale \in BOOLEAN /\ Discarded \in BOOLEAN
    BY DEF SessionInv, Shapes, HistoryType, Discarded
  <2>3. BooksStand(c)
    BY <1>11
  <2>4. Protocol(c, toServer, toClient', Now(c), view[c], Pristine(c)', Tearing(c)', history'.stale, Discarded)
    <3>1. CASE c = b
      <4>1. Tearing(c)
        BY <1>2, <1>3, <1>4, <3>1 DEF Tearing
      <4>2. history'.stale
        BY <1>8
      <4>3. g.ch = c
        BY <1>9, <3>1
      <4> QED
        <5>1. g.op = "close" /\ Pushed(toClient, g, toClient')
          BY <1>9, <1>10
        <5>2. Certain(history'.stale)
          BY <4>2 DEF Certain
        <5>3. /\ Course(c, toServer, toClient, Now(c), view[c], Pristine(c), history.stale, Discarded)
              /\ AfterTheEnd(c, toServer, toClient, Now(c), view[c], Pristine(c))
          BY <2>1, <4>1 DEF Protocol, Teardown, AfterTheEnd
        <5> QED
          BY <4>3, <5>1, <5>2, <5>3, SendStaleClose
    <3>2. CASE c # b
      <4>1. Protocol(c, toServer, toClient', Now(c), view[c], Pristine(c), Tearing(c), history.stale, Discarded)
        BY <1>9, <1>10, <2>1, <3>2, SendOther
      <4>2. (Pristine(c) => Pristine(c)') /\ (Tearing(c)' => Tearing(c)) /\ (history.stale => history'.stale)
        BY <1>8, <2>3 DEF BooksStand
      <4> QED
        BY <4>1, <4>2, Weaken
    <3> QED
      BY <3>1, <3>2
  <2>5. Now(c)' = Now(c)
    BY <2>3 DEF BooksStand
  <2> QED
    BY <1>7, <1>8, <2>4, <2>5 DEF InProtocol
<1>13. ASSUME NEW c \in Channel, NEW T, Settleable(T, c)' PROVE Settleable(T, c)
  <2>1. ~Owned(g)
    BY <1>9 DEF Owned
  <2> QED
    BY <1>7, <1>10, <1>13, <2>1, SettleableStays
<1>14. ProtocolKept' /\ \A c \in Channel : \A T : Settleable(T, c)' => Settleable(T, c)
  BY <1>12, <1>13 DEF ProtocolKept
<1>15. history.stale => history'.stale
  BY <1>8
<1>16. channels'[b].live = channels[b].live /\ channels'[b].closing = channels[b].closing
       /\ \A c \in Channel : c # b => channels'[c] = channels[c]
  BY <1>1
<1> QED
  BY <1>1, <1>2, <1>3, <1>4, <1>5, <1>6, <1>7, <1>10, <1>14, <1>15, <1>16, LetGoRest

\* A channel with something to do is one the client has open.
LEMMA TaskAtWork ==
  ASSUME SessionInv, phase # "over", NEW b \in Channel, Usable(b), TaskOn(b)
  PROVE  AtWork(b, toServer, toClient, view[b])
<1>1. Shapes /\ ChannelsOK /\ Protocol(b, toServer, toClient, Now(b), view[b], Pristine(b), Tearing(b), history.stale, Discarded)
  BY DEF SessionInv, Shapes, Running, ProtocolKept, InProtocol
<1>2. ~Pristine(b) /\ Now(b).at = "usable" /\ Now(b) # Shut
  BY <1>1, NowIs DEF Pristine, Shutting, Usable
<1>3. \A k \in Up(b, toServer) : toServer[k].op \notin Anew
  BY <1>1, <1>2 DEF Protocol, Course, BegunAnew
<1>4. Closes(b, toClient) = {}
  BY <1>1, <1>2 DEF Protocol, Course, StaleCloses, Torn
<1>5. view[b].state \notin {"closed", "opening"}
  BY <1>1, <1>2 DEF Protocol, Course, Attended
<1>6. view[b].state \in {"closed", "opening", "open", "closing"}
  BY <1>1 DEF Shapes, ViewType
<1> QED
  BY <1>3, <1>4, <1>5, <1>6 DEF AtWork

\* On a channel at work the failure closes it on the client, and the session
\* lets its consumers go.
LEMMA FailUsable == ASSUME SessionInv, Serving, FailOperation, Usable(active.ch) PROVE SessionInv'
<1>1. PICK b : b = active.ch
  OBVIOUS
<1>2. /\ phase = "serving" /\ toServer' = toServer /\ active.op # "connect" /\ phase' = "loop" /\ active' = Blank
      /\ pending' = pending /\ fromQueue' = fromQueue /\ view' = view
      /\ waiting' = waiting /\ taken' = taken /\ woken' = woken /\ pushing' = pushing
      /\ subscribed' = subscribed /\ held' = held /\ lastTag' = lastTag
      /\ history' \in HistoryType /\ history.leaked \subseteq history'.leaked
      /\ history'.ended = history.ended /\ history'.surprised = history.surprised
      /\ history'.discarded = history.discarded /\ history'.blurred = history.blurred
  BY FailNotes
<1>3. Usable(b) /\ Live(b) /\ history'.stale = history.stale
  BY <1>1, FailNotes DEF Usable
<1>4. /\ Shapes /\ Running /\ RuleKeeperServed /\ Doing(active) /\ b \in Channel /\ staged = <<>> /\ pending.ch # b
      /\ ChannelsOK /\ ToClientOK
  BY <1>1, <1>2, <1>3, AtService DEF Shapes
<1> DEFINE g == Frame("close", b)
<1> DEFINE r == Closing(b)
<1> DEFINE calls == Cancels(b)
<1>5. /\ toClient' = toClient \o <<g>> /\ staged' = staged \o calls
      /\ channels' = [channels EXCEPT ![b] = r]
  BY <1>1, <1>3 DEF FailOperation, Usable, Send
<1>6. channels[b] \in ChannelType /\ IsFiniteSet(channels[b].consumers) /\ channels[b].consumers \subseteq Tag
  BY <1>4 DEF ChannelsOK, ChannelType
<1>7. r \in ChannelType /\ r.live = channels[b].live /\ r.closing = TRUE /\ r.consumers = {}
  BY <1>6 DEF ChannelType, Closing
<1>8. /\ calls \in Seq(TaskType)
      /\ \A i \in 1 .. Len(calls) : calls[i].op = "cancel" /\ calls[i].ch = b /\ calls[i].noWait = TRUE
                                    /\ calls[i].tag \in channels[b].consumers
      /\ \A tag \in channels[b].consumers : \E i \in 1 .. Len(calls) : calls[i].tag = tag
  BY <1>4, <1>6, CancelsAll
<1>9. staged' = calls
  BY <1>4, <1>5, <1>8
<1>10. g \in TaskType /\ g.op = "close" /\ g.ch = b
  BY <1>4 DEF Frame, Blank, TaskType, Kinds
<1> HIDE DEF g, r, calls
<1>11. ToClientOK' /\ Pushed(toClient, g, toClient')
  BY <1>4, <1>5, <1>10, SendShape DEF Truthful
<1>12. channels' \in [Channel -> ChannelType] /\ channels'[b] = r /\ \A c \in Channel : c # b => channels'[c] = channels[c]
  BY <1>4, <1>5, <1>7 DEF ChannelsOK
<1>13. Live(b)' /\ Shutting(b)' /\ ~Usable(b)' /\ Now(b)' = Shut
  BY <1>3, <1>7, <1>12 DEF Live, Shutting, Usable, Now
<1>14. ChannelsOK'
  <2>1. ASSUME NEW c \in Channel PROVE (Live(c)' \/ channels'[c] = Gone) /\ IsFiniteSet(channels'[c].consumers)
    <3>1. CASE c = b
      BY <1>7, <1>12, <1>13, <3>1, FS_EmptySet
    <3>2. CASE c # b
      BY <1>4, <1>12, <3>2 DEF ChannelsOK, Live
    <3> QED
      BY <3>1, <3>2
  <2> QED
    BY <1>12, <2>1 DEF ChannelsOK
<1>15. ASSUME NEW t, Doing(t)' PROVE t.op = "cancel" /\ t.ch = b /\ t.noWait = TRUE
  BY <1>2, <1>8, <1>9, <1>15, BlankFields DEF Doing
<1>16. ASSUME NEW t, Doing(t) PROVE t = active
  BY <1>4, <1>16 DEF Doing
<1>17. InProtocol(b)' /\ view[b].state \in {"open", "closing"}
  <2>1. Course(b, toServer, toClient, Now(b), view[b], Pristine(b), history.stale, Discarded)
    BY <1>4 DEF Running, ProtocolKept, InProtocol, Protocol
  <2>2. AtWork(b, toServer, toClient, view[b])
    BY <1>1, <1>2, <1>3, <1>4, TaskAtWork DEF TaskOn
  <2>3. Now(b).at = "usable" /\ Now(b).owes = 0
    BY <1>3, <1>4, NowIs DEF Owed
  <2>4. view[b].owes \in 0 .. 2 /\ Len(toServer) \in Nat /\ history.stale \in BOOLEAN /\ Discarded \in BOOLEAN
    BY <1>4 DEF Shapes, ViewType, ToServerOK, HistoryType, Discarded
  <2>5. Course(b, toServer, toClient', Shut, view[b], Pristine(b)', history.stale, Discarded)
    BY <1>10, <1>11, <2>1, <2>2, <2>3, <2>4, SendShut
  <2>6. ~Tearing(b)' /\ Discarded' = Discarded
    BY <1>2, <1>13 DEF Tearing, Discarded
  <2>7. Teardown(b, toServer, toClient', Shut, view[b], Pristine(b)', Tearing(b)')
    BY <2>6 DEF Teardown
  <2> QED
    BY <1>2, <1>3, <1>13, <2>2, <2>5, <2>6, <2>7 DEF InProtocol, Protocol, AtWork
<1>18. ASSUME NEW c \in Channel, c # b PROVE InProtocol(c)'
  <2>1. Protocol(c, toServer, toClient, Now(c), view[c], Pristine(c), Tearing(c), history.stale, Discarded)
    BY <1>4 DEF Running, ProtocolKept, InProtocol
  <2>2. Protocol(c, toServer, toClient', Now(c), view[c], Pristine(c), Tearing(c), history.stale, Discarded)
    BY <1>10, <1>11, <1>18, <2>1, SendOther
  <2>3. channels'[c] = channels[c] /\ \A t : t.ch = c => (Doing(t)' <=> Doing(t))
    BY <1>1, <1>12, <1>15, <1>16, <1>18
  <2>4. Now(c)' = Now(c) /\ (Pristine(c)' <=> Pristine(c)) /\ (Tearing(c)' <=> Tearing(c))
    BY <1>2, <2>3, SameBooks
  <2>5. Protocol(c, toServer, toClient', Now(c), view[c], Pristine(c)', Tearing(c)', history'.stale, Discarded)
    BY <1>3, <2>2, <2>4, Weaken
  <2> QED
    BY <1>2, <2>4, <2>5 DEF InProtocol, Discarded
<1>19. ASSUME NEW c \in Channel PROVE HoldsNothing(c)' /\ AllKnown(c)'
  <2>1. HoldsNothing(c) /\ AllKnown(c)
    BY <1>4 DEF Running, TagsKept
  <2>2. ASSUME NEW T, Settleable(T, c)' PROVE Settleable(T, c)
    <3>1. ~Owned(g)
      BY <1>10 DEF Owned
    <3> QED
      BY <1>2, <1>11, <2>2, <3>1, SettleableStays
  <2>3. Shutting(c) => Shutting(c)'
    BY <1>12, <1>13 DEF Shutting
  <2>4. Shutting(c)' => Shutting(c) \/ view[c].state # "opening"
    BY <1>12, <1>17 DEF Shutting
  <2>5. ASSUME NEW T, Settleable(T, c), Known(T, c), ~Shutting(c)' PROVE Known(T, c)'
    <3>1. c # b
      BY <1>13, <2>5
    <3>2. \A t : Doing(t) /\ t.op = "settle" /\ t.ch = c => Doing(t)'
      BY <1>1, <1>16, <3>1
    <3> QED
      BY <1>2, <2>5, <3>2, KnownStays
  <2> QED
    BY <1>2, <2>1, <2>2, <2>3, <2>4, <2>5, TagsStay
<1>20. TagsKept'
  <2>1. \A t : Doing(t)' => Named(t)'
    BY <1>15 DEF Named
  <2>2. \A e : InOutbox(e)' => Unwritten(e)'
    BY <1>2, <1>4 DEF Running, TagsKept, InOutbox, Unwritten
  <2> QED
    BY <1>19, <2>1, <2>2 DEF TagsKept
<1>21. WorkInPlace'
  <2>1. PendingHere'
    BY <1>2, <1>4, <1>12, <1>15, PendingStays DEF Running
  <2>2. ASSUME NEW t, Doing(t)' PROVE InPlace(t)'
    <3>1. t.op = "cancel" /\ t.ch \in Channel /\ t.noWait = TRUE /\ ~Usable(t.ch)'
      BY <1>4, <1>13, <1>15, <2>2
    <3> QED
      BY <3>1 DEF InPlace, Usable, Live, Counted
  <2> QED
    BY <1>2, <1>8, <1>9, <2>1, <2>2, BlankFields DEF WorkInPlace
<1>22. NoneOrphaned'
  <2>1. ASSUME NEW s \in subscribed PROVE Kept(s)'
    <3>1. s.ch \in Channel
      BY <1>4 DEF Shapes, BrokerOK
    <3>2. (Usable(s.ch) /\ s.tag \in channels[s.ch].consumers) \/ s.tag \in history.leaked
      BY <1>1, <1>2, <1>3, <1>4, KeptOut
    <3>3. CASE s.tag \in history.leaked
      BY <1>2, <3>3 DEF Kept
    <3>4. CASE s.ch # b /\ Usable(s.ch) /\ s.tag \in channels[s.ch].consumers
      <4>1. channels'[s.ch] = channels[s.ch]
        BY <1>12, <3>1, <3>4
      <4> QED
        BY <3>4, <4>1, KeptAlike DEF Usable, Live
    <3>5. CASE s.ch = b /\ Usable(s.ch) /\ s.tag \in channels[s.ch].consumers
      <4>1. PICK t : (\E i \in 1 .. Len(calls) : t = calls[i]) /\ t.tag = s.tag /\ t.op = "cancel" /\ t.ch = b
        <5>1. PICK i \in 1 .. Len(calls) : calls[i].tag = s.tag
          BY <1>8, <3>5
        <5>2. calls[i].op = "cancel" /\ calls[i].ch = b
          BY <1>8
        <5> QED
          BY <5>1, <5>2
      <4>2. Doing(t)'
        BY <1>9, <4>1 DEF Doing
      <4>3. ~Usable(t.ch)'
        BY <1>13, <4>1
      <4> QED
        BY <4>1, <4>2, <4>3 DEF Kept
    <3> QED
      BY <3>2, <3>3, <3>4, <3>5
  <2> QED
    BY <1>2, <1>4, <2>1 DEF Running, NoneOrphaned
<1>23. Shapes'
  <2>1. TasksOK' /\ OutboxOK' /\ ToServerOK'
    BY <1>2, <1>4, <1>8, <1>9, BlankFields DEF Shapes, TasksOK, OutboxOK, ToServerOK
  <2>2. BrokerOK'
    BY <1>2, <1>4 DEF Shapes, BrokerOK
  <2> QED
    BY <1>2, <1>4, <1>11, <1>14, <2>1, <2>2 DEF Shapes
<1>24. RuleKeeperServed' /\ Woken'
  BY <1>2, <1>3, <1>4 DEF RuleKeeperServed, EndedForCause, NothingAfterClose, Woken
<1>25. ProtocolKept'
  BY <1>17, <1>18 DEF ProtocolKept
<1> QED
  BY <1>2, <1>20, <1>21, <1>22, <1>23, <1>24, <1>25 DEF SessionInv, Running

LEMMA FailOperationKeeps == ASSUME SessionInv, Serving, FailOperation PROVE SessionInv'
<1>1. CASE Usable(active.ch)
  BY <1>1, FailUsable
<1>2. CASE ~Live(active.ch)
  BY <1>2, FailGone
<1>3. CASE Shutting(active.ch)
  BY <1>3, FailShut
<1> QED
  BY <1>1, <1>2, <1>3 DEF Usable, Shutting, Live


----------------------------------------------------------------------------
(* The client speaks *)

\* What it then holds: nothing new, and nothing on a channel it has closed.
HoldsLess(v, v2) ==
  v2.holds \subseteq v.holds /\ (v2.state \in {"closed", "opening"} => v2.holds = {} \/ v2.state = v.state)
\* What it settles it holds.
SettlesOwn(v, f) == f.op = "settle" => f.dtag = 0 \/ f.dtag \in v.holds
Counts(v) == v \in ViewType /\ (v.confirms \/ v.count = 0)
LEMMA SendsKeeps ==
  ASSUME SessionInv, NEW b \in Channel, NEW f \in TaskType, f.ch = b, f.op = "consume" => f.tag \in Tag,
         NEW v2, Sends(f, v2), Counts(v2), HoldsLess(view[b], v2), SettlesOwn(view[b], f),
         Protocol(b, toServer', toClient, Now(b), v2, Pristine(b), Tearing(b), history.stale, Discarded)
  PROVE  SessionInv'
<1>1. /\ phase \notin {"accepting", "new", "over"} /\ phase' = phase /\ channels' = channels /\ staged' = staged
      /\ active' = active /\ pending' = pending /\ fromQueue' = fromQueue
      /\ waiting' = waiting /\ taken' = taken /\ woken' = woken /\ pushing' = pushing
      /\ subscribed' = subscribed /\ held' = held /\ lastTag' = lastTag /\ toClient' = toClient
      /\ toServer' = Append(toServer, f) /\ view' = [view EXCEPT ![b] = v2]
  BY DEF Sends, sessionVars, outboxVars, brokerVars
<1>2. Shapes /\ Running /\ RuleKeeperServed /\ ToServerOK
  BY <1>1 DEF SessionInv, Shapes
<1>3. ToServerOK' /\ Pushed(toServer, f, toServer')
  BY <1>1, <1>2, SayShape
<1>4. /\ view' \in [Channel -> ViewType] /\ view'[b] = v2 /\ \A c \in Channel : c # b => view'[c] = view[c]
      /\ \A c \in Channel : view'[c].confirms \/ view'[c].count = 0
  BY <1>1, <1>2 DEF Shapes, Counts
<1>5. /\ history' \in HistoryType /\ history'.ended = history.ended /\ history'.surprised = history.surprised
      /\ history'.stale = history.stale /\ history'.discarded = history.discarded
      /\ history'.leaked = history.leaked /\ history'.blurred = history.blurred
  <2> DEFINE n == IF f.op \in {"open", "header", "body"} THEN history.frames ELSE history.frames + 1
  <2>1. history' = [history EXCEPT !.frames = n]
    BY DEF Sends
  <2>2. history \in HistoryType /\ n \in Nat
    BY <1>2 DEF Shapes, HistoryType
  <2> HIDE DEF n
  <2> QED
    BY <2>1, <2>2 DEF HistoryType
<1>6. SameWork
  BY <1>1, WorkSame
<1>7. ASSUME NEW c \in Channel
      PROVE  Now(c)' = Now(c) /\ (Pristine(c)' <=> Pristine(c)) /\ (Tearing(c)' <=> Tearing(c))
  BY <1>1, <1>6, SameBooks DEF SameWork
<1>8. ASSUME NEW c \in Channel PROVE InProtocol(c)'
  <2>1. Protocol(c, toServer', toClient, Now(c), view'[c], Pristine(c), Tearing(c), history.stale, Discarded)
    <3>1. CASE c = b
      BY <1>4, <3>1
    <3>2. CASE c # b
      <4>1. Protocol(c, toServer, toClient, Now(c), view[c], Pristine(c), Tearing(c), history.stale, Discarded)
        BY <1>2 DEF Running, ProtocolKept, InProtocol
      <4>2. ~Mine(f, c)
        BY <3>2 DEF Mine
      <4>3. Protocol(c, toServer', toClient, Now(c), view[c], Pristine(c), Tearing(c), history.stale, Discarded)
        BY <1>3, <4>1, <4>2, SayOther
      <4> QED
        BY <1>4, <3>2, <4>3
    <3> QED
      BY <3>1, <3>2
  <2>2. Protocol(c, toServer', toClient, Now(c), view'[c], Pristine(c)', Tearing(c)', history'.stale, Discarded)
    BY <1>5, <1>7, <2>1, Weaken
  <2> QED
    BY <1>1, <1>5, <1>7, <2>2 DEF InProtocol, Discarded
<1>9. ASSUME NEW c \in Channel PROVE HoldsNothing(c)' /\ AllKnown(c)'
  <2>1. HoldsNothing(c) /\ AllKnown(c)
    BY <1>2 DEF Running, TagsKept
  <2>2. Shutting(c)' <=> Shutting(c)
    BY <1>1 DEF Shutting
  <2>3. ASSUME NEW T, Settleable(T, c)' PROVE Settleable(T, c)
    <3>1. ASSUME NEW k \in Up(c, toServer'), toServer'[k].op = "settle", toServer'[k].dtag = T
          PROVE  Settleable(T, c)
      <4>1. CASE k \in Up(c, toServer) /\ toServer'[k] = toServer[k]
        BY <2>3, <3>1, <4>1 DEF Settleable
      <4>2. CASE k = Len(toServer) + 1 /\ Mine(f, c) /\ toServer'[k] = f
        <5>1. c = b /\ T \in view[b].holds
          BY <2>3, <3>1, <4>2 DEF Mine, SettlesOwn, Settleable
        <5> QED
          BY <2>3, <5>1 DEF Settleable
      <4> QED
        BY <1>3, <3>1, <4>1, <4>2, PushUp
    <3>2. ASSUME T \in view'[c].holds PROVE T \in view[c].holds
      <4>1. CASE c = b
        BY <1>4, <3>2, <4>1 DEF HoldsLess
      <4>2. CASE c # b
        BY <1>4, <3>2, <4>2
      <4> QED
        BY <4>1, <4>2
    <3> QED
      BY <1>1, <2>3, <3>1, <3>2 DEF Settleable
  <2>4. ASSUME NEW T, Known(T, c) PROVE Known(T, c)'
    BY <1>1, <1>5, <1>6, <2>4, KnownStays DEF SameWork
  <2>5. HoldsNothing(c)'
    <3>1. CASE c = b
      BY <1>4, <2>1, <2>2, <3>1 DEF HoldsNothing, HoldsLess
    <3>2. CASE c # b
      BY <1>4, <2>1, <2>2, <3>2 DEF HoldsNothing
    <3> QED
      BY <3>1, <3>2
  <2>6. AllKnown(c)'
    BY <1>1, <2>1, <2>2, <2>3, <2>4 DEF AllKnown
  <2> QED
    BY <2>5, <2>6
<1>10. TagsKept'
  <2>1. \A t : Doing(t)' => Named(t)'
    BY <1>1, <1>2, <1>5, <1>6 DEF Running, TagsKept, Named, SameWork
  <2>2. \A e : InOutbox(e)' => Unwritten(e)'
    BY <1>1, <1>2 DEF Running, TagsKept, InOutbox, Unwritten
  <2> QED
    BY <1>9, <2>1, <2>2 DEF TagsKept
<1>11. WorkInPlace'
  BY <1>1, <1>2, WorkStays DEF Running, WorkInPlace
<1>12. NoneOrphaned'
  BY <1>1, <1>2, <1>5, <1>6 DEF Running, NoneOrphaned, Kept, SameWork, Usable, Live
<1>13. Shapes'
  <2>1. TasksOK' /\ OutboxOK' /\ BrokerOK' /\ ChannelsOK' /\ ToClientOK'
    BY <1>1, <1>2 DEF Shapes, TasksOK, OutboxOK, BrokerOK, ChannelsOK, Live, ToClientOK
  <2> QED
    BY <1>1, <1>2, <1>3, <1>4, <1>5, <2>1 DEF Shapes
<1>14. RuleKeeperServed' /\ Woken'
  BY <1>1, <1>2, <1>5 DEF RuleKeeperServed, EndedForCause, NothingAfterClose, Woken, Running
<1>15. ProtocolKept'
  BY <1>8 DEF ProtocolKept
<1> QED
  BY <1>1, <1>10, <1>11, <1>12, <1>13, <1>14, <1>15 DEF SessionInv, Running

\* What the client knows of a channel it may use.
LEMMA ViewFits ==
  ASSUME SessionInv, NEW b \in Channel
  PROVE  /\ view[b] \in ViewType /\ view[b].owes \in 0 .. 2 /\ view[b].confirms \in BOOLEAN /\ view[b].count \in Nat
         /\ view[b].holds \subseteq Nat /\ (view[b].confirms \/ view[b].count = 0)
<1>1. view[b] \in ViewType /\ (view[b].confirms \/ view[b].count = 0)
  BY DEF SessionInv, Shapes
<1> QED
  BY <1>1 DEF ViewType

\* A frame of the business of an open channel.
LEMMA SaysKeeps ==
  ASSUME SessionInv, NEW b \in Channel, NEW f \in TaskType, f.ch = b, f.op = "consume" => f.tag \in Tag,
         NEW v2, Sends(f, v2), Counts(v2), HoldsLess(view[b], v2), SettlesOwn(view[b], f), Says(view[b], f, v2)
  PROVE  SessionInv'
<1>1. phase # "over" /\ toServer' = Append(toServer, f)
  BY DEF Sends
<1>2. ToServerOK /\ Running
  BY <1>1 DEF SessionInv, Shapes
<1>3. Pushed(toServer, f, toServer')
  BY <1>1, <1>2, SayShape
<1>4. Protocol(b, toServer, toClient, Now(b), view[b], Pristine(b), Tearing(b), history.stale, Discarded)
  BY <1>2 DEF Running, ProtocolKept, InProtocol
<1>5. Protocol(b, toServer', toClient, Now(b), v2, Pristine(b), Tearing(b), history.stale, Discarded)
  BY <1>3, <1>4, SayOwn
<1> QED
  BY <1>5, SendsKeeps

LEMMA ClientOpensKeeps == ASSUME SessionInv, NEW b \in Channel, ClientOpens(b) PROVE SessionInv'
<1> DEFINE f == Frame("open", b)
<1> DEFINE v2 == [Closed EXCEPT !.state = "opening"]
<1>1. Sends(f, v2) /\ view[b].state = "closed"
  BY DEF ClientOpens
<1>2. f \in TaskType /\ f.op = "open" /\ f.ch = b
  BY DEF Frame, Blank, TaskType, Kinds
<1>3. v2.state = "opening" /\ v2.confirms = FALSE /\ v2.count = 0 /\ v2.owes = 0 /\ v2.holds = {}
  BY DEF Closed
<1>4. v2 \in ViewType
  <2>1. Closed \in ViewType
    BY DEF Closed, ViewType
  <2> QED
    BY <2>1 DEF ViewType
<1> HIDE DEF f, v2
<1>5. phase # "over" /\ toServer' = Append(toServer, f)
  BY <1>1 DEF Sends
<1>6. ToServerOK /\ Running
  BY <1>5 DEF SessionInv, Shapes
<1>7. Pushed(toServer, f, toServer')
  BY <1>2, <1>5, <1>6, SayShape
<1>8. Protocol(b, toServer, toClient, Now(b), view[b], Pristine(b), Tearing(b), history.stale, Discarded)
  BY <1>6 DEF Running, ProtocolKept, InProtocol
<1>9. Protocol(b, toServer', toClient, Now(b), v2, Pristine(b), Tearing(b), history.stale, Discarded)
  BY <1>1, <1>2, <1>3, <1>7, <1>8, SayOpen
<1>10. Counts(v2) /\ HoldsLess(view[b], v2) /\ SettlesOwn(view[b], f)
  BY <1>2, <1>3, <1>4 DEF Counts, HoldsLess, SettlesOwn
<1> QED
  BY <1>1, <1>2, <1>9, <1>10, SendsKeeps


\* A call that leaves the client's view of the channel as it was.
LEMMA PlainKeeps ==
  ASSUME SessionInv, NEW b \in Channel, Idle(b), NEW f \in TaskType, f.ch = b, f.op = "consume" => f.tag \in Tag,
         f.op \in {"call", "consume", "cancel", "get", "unsupported"}, Sends(f, view[b])
  PROVE  SessionInv'
<1>1. /\ view[b] \in ViewType /\ view[b].owes \in 0 .. 2 /\ view[b].confirms \in BOOLEAN /\ view[b].count \in Nat
      /\ (view[b].confirms \/ view[b].count = 0)
  BY ViewFits
<1>2. view[b].state = "open" /\ view[b].owes = 0
  BY DEF Idle
<1>3. f.size \in 0 .. 1
  BY DEF TaskType
<1>4. Says(view[b], f, view[b])
  BY <1>1, <1>2, <1>3 DEF Says, Anew
<1>5. Counts(view[b]) /\ HoldsLess(view[b], view[b]) /\ SettlesOwn(view[b], f)
  BY <1>1, <1>2 DEF Counts, HoldsLess, SettlesOwn
<1> QED
  BY <1>4, <1>5, SaysKeeps

LEMMA ClientClosesKeeps == ASSUME SessionInv, NEW b \in Channel, ClientCloses(b) PROVE SessionInv'
<1> DEFINE f == Frame("close", b)
<1> DEFINE v2 == [view[b] EXCEPT !.state = "closing"]
<1>1. Sends(f, v2) /\ view[b].state = "open" /\ view[b].owes = 0
  BY DEF ClientCloses, Idle
<1>2. f \in TaskType /\ f.op = "close" /\ f.ch = b
  BY DEF Frame, Blank, TaskType, Kinds
<1>3. /\ view[b] \in ViewType /\ view[b].owes \in 0 .. 2 /\ view[b].confirms \in BOOLEAN /\ view[b].count \in Nat
      /\ (view[b].confirms \/ view[b].count = 0)
  BY ViewFits
<1>4. /\ v2 \in ViewType /\ v2.state = "closing" /\ v2.confirms = view[b].confirms /\ v2.count = view[b].count
      /\ v2.owes = view[b].owes /\ v2.holds = view[b].holds
  BY <1>3 DEF ViewType
<1>5. f.size \in 0 .. 1
  BY <1>2 DEF TaskType
<1> HIDE DEF f, v2
<1>6. Says(view[b], f, v2)
  BY <1>1, <1>2, <1>3, <1>4, <1>5 DEF Says, Anew
<1>7. Counts(v2) /\ HoldsLess(view[b], v2) /\ SettlesOwn(view[b], f)
  BY <1>2, <1>3, <1>4 DEF Counts, HoldsLess, SettlesOwn
<1> QED
  BY <1>1, <1>2, <1>6, <1>7, SaysKeeps

LEMMA ClientAsksKeeps == ASSUME SessionInv, NEW b \in Channel, ClientAsks(b) PROVE SessionInv'
<1>1. ASSUME NEW noWait \in BOOLEAN, Sends([Frame("call", b) EXCEPT !.noWait = noWait], view[b]) PROVE SessionInv'
  <2> DEFINE f == [Frame("call", b) EXCEPT !.noWait = noWait]
  <2>1. f \in TaskType /\ f.op = "call" /\ f.ch = b
    BY DEF Frame, Blank, TaskType, Kinds
  <2>2. Sends(f, view[b]) /\ Idle(b)
    BY <1>1 DEF ClientAsks
  <2> HIDE DEF f
  <2> QED
    BY <2>1, <2>2, PlainKeeps
<1>2. ASSUME Sends([Frame("select", b) EXCEPT !.noWait = FALSE], [view[b] EXCEPT !.confirms = TRUE]) PROVE SessionInv'
  <2> DEFINE f == [Frame("select", b) EXCEPT !.noWait = FALSE]
  <2> DEFINE v2 == [view[b] EXCEPT !.confirms = TRUE]
  <2>1. f \in TaskType /\ f.op = "select" /\ f.ch = b
    BY DEF Frame, Blank, TaskType, Kinds
  <2>2. Sends(f, v2) /\ view[b].state = "open" /\ view[b].owes = 0
    BY <1>2 DEF ClientAsks, Idle
  <2>3. /\ view[b] \in ViewType /\ view[b].owes \in 0 .. 2 /\ view[b].confirms \in BOOLEAN /\ view[b].count \in Nat
    BY ViewFits
  <2>4. /\ v2 \in ViewType /\ v2.state = view[b].state /\ v2.confirms = TRUE /\ v2.count = view[b].count
        /\ v2.owes = view[b].owes /\ v2.holds = view[b].holds
    BY <2>3 DEF ViewType
  <2>5. f.size \in 0 .. 1
    BY <2>1 DEF TaskType
  <2> HIDE DEF f, v2
  <2>6. v2.confirms = (view[b].confirms \/ f.op = "select")
    BY <2>1, <2>4
  <2>7. Says(view[b], f, v2)
    BY <2>1, <2>2, <2>3, <2>4, <2>5, <2>6 DEF Says, Anew
  <2>8. Counts(v2) /\ HoldsLess(view[b], v2) /\ SettlesOwn(view[b], f)
    BY <2>1, <2>2, <2>4 DEF Counts, HoldsLess, SettlesOwn
  <2> QED
    BY <2>1, <2>2, <2>7, <2>8, SaysKeeps
<1> QED
  BY <1>1, <1>2 DEF ClientAsks

LEMMA ClientConsumesKeeps == ASSUME SessionInv, NEW b \in Channel, ClientConsumes(b) PROVE SessionInv'
<1>1. Idle(b)
  BY DEF ClientConsumes
<1>2. PICK tag \in Tag, noAck \in BOOLEAN :
        \/ Sends([Frame("consume", b) EXCEPT !.tag = tag, !.noAck = noAck, !.noWait = FALSE], view[b])
        \/ Sends([Frame("cancel", b) EXCEPT !.tag = tag, !.noWait = FALSE], view[b])
        \/ Sends([Frame("get", b) EXCEPT !.noAck = noAck], view[b])
  BY DEF ClientConsumes
<1>3. ASSUME Sends([Frame("consume", b) EXCEPT !.tag = tag, !.noAck = noAck, !.noWait = FALSE], view[b]) PROVE SessionInv'
  <2> DEFINE f == [Frame("consume", b) EXCEPT !.tag = tag, !.noAck = noAck, !.noWait = FALSE]
  <2>1. f \in TaskType /\ f.op = "consume" /\ f.ch = b /\ f.tag \in Tag
    BY DEF Frame, Blank, TaskType, Kinds
  <2>2. Sends(f, view[b])
    BY <1>3
  <2> HIDE DEF f
  <2> QED
    BY <1>1, <2>1, <2>2, PlainKeeps
<1>4. ASSUME Sends([Frame("cancel", b) EXCEPT !.tag = tag, !.noWait = FALSE], view[b]) PROVE SessionInv'
  <2> DEFINE f == [Frame("cancel", b) EXCEPT !.tag = tag, !.noWait = FALSE]
  <2>1. f \in TaskType /\ f.op = "cancel" /\ f.ch = b
    BY DEF Frame, Blank, TaskType, Kinds
  <2>2. Sends(f, view[b])
    BY <1>4
  <2> HIDE DEF f
  <2> QED
    BY <1>1, <2>1, <2>2, PlainKeeps
<1>5. ASSUME Sends([Frame("get", b) EXCEPT !.noAck = noAck], view[b]) PROVE SessionInv'
  <2> DEFINE f == [Frame("get", b) EXCEPT !.noAck = noAck]
  <2>1. f \in TaskType /\ f.op = "get" /\ f.ch = b
    BY DEF Frame, Blank, TaskType, Kinds
  <2>2. Sends(f, view[b])
    BY <1>5
  <2> HIDE DEF f
  <2> QED
    BY <1>1, <2>1, <2>2, PlainKeeps
<1> QED
  BY <1>2, <1>3, <1>4, <1>5

LEMMA ClientSettlesKeeps == ASSUME SessionInv, NEW b \in Channel, ClientSettles(b) PROVE SessionInv'
<1>1. view[b].state = "open" /\ view[b].owes = 0
  BY DEF ClientSettles, Idle
<1>2. PICK dtag \in view[b].holds \cup {0}, multiple \in BOOLEAN :
        Sends([Frame("settle", b) EXCEPT !.dtag = dtag, !.multiple = multiple],
              [view[b] EXCEPT !.holds = IF multiple THEN {t \in @ : dtag # 0 /\ t > dtag} ELSE @ \ {dtag}])
  BY DEF ClientSettles
<1> DEFINE f == [Frame("settle", b) EXCEPT !.dtag = dtag, !.multiple = multiple]
<1> DEFINE rest == IF multiple THEN {t \in view[b].holds : dtag # 0 /\ t > dtag} ELSE view[b].holds \ {dtag}
<1> DEFINE v2 == [view[b] EXCEPT !.holds = rest]
<1>3. /\ view[b] \in ViewType /\ view[b].owes \in 0 .. 2 /\ view[b].confirms \in BOOLEAN /\ view[b].count \in Nat
      /\ view[b].holds \subseteq Nat /\ (view[b].confirms \/ view[b].count = 0)
  BY ViewFits
<1>4. dtag \in Nat
  BY <1>3
<1>5. f \in TaskType /\ f.op = "settle" /\ f.ch = b /\ f.dtag = dtag
  BY <1>4 DEF Frame, Blank, TaskType, Kinds
<1>6. rest \subseteq view[b].holds
  OBVIOUS
<1>7. Sends(f, v2)
  BY <1>2
<1> HIDE DEF rest
<1>8. /\ v2 \in ViewType /\ v2.state = view[b].state /\ v2.confirms = view[b].confirms /\ v2.count = view[b].count
      /\ v2.owes = view[b].owes /\ v2.holds = rest
  BY <1>3, <1>6 DEF ViewType
<1> HIDE DEF f, v2
<1>9. f.size \in 0 .. 1
  BY <1>5 DEF TaskType
<1>10. Says(view[b], f, v2)
  BY <1>1, <1>3, <1>5, <1>8, <1>9 DEF Says, Anew
<1>11. Counts(v2) /\ HoldsLess(view[b], v2) /\ SettlesOwn(view[b], f)
  BY <1>1, <1>3, <1>5, <1>6, <1>8 DEF Counts, HoldsLess, SettlesOwn
<1> QED
  BY <1>5, <1>7, <1>10, <1>11, SaysKeeps

LEMMA ClientAsksTooMuchKeeps == ASSUME SessionInv, NEW b \in Channel, ClientAsksTooMuch(b) PROVE SessionInv'
<1> DEFINE f == Frame("unsupported", b)
<1>1. f \in TaskType /\ f.op = "unsupported" /\ f.ch = b
  BY DEF Frame, Blank, TaskType, Kinds
<1>2. Sends(f, view[b]) /\ Idle(b)
  BY DEF ClientAsksTooMuch
<1> HIDE DEF f
<1> QED
  BY <1>1, <1>2, PlainKeeps

LEMMA ClientPublishesKeeps == ASSUME SessionInv, NEW b \in Channel, ClientPublishes(b) PROVE SessionInv'
<1>1. view[b].state = "open"
  BY DEF ClientPublishes
<1>2. /\ view[b] \in ViewType /\ view[b].owes \in 0 .. 2 /\ view[b].confirms \in BOOLEAN /\ view[b].count \in Nat
      /\ (view[b].confirms \/ view[b].count = 0)
  BY ViewFits
<1>3. ASSUME view[b].owes = 0, NEW mandatory \in BOOLEAN, NEW n, n = IF view[b].confirms THEN view[b].count + 1 ELSE 0,
             Sends([Frame("publish", b) EXCEPT !.ord = n, !.mandatory = mandatory],
                   [view[b] EXCEPT !.count = n, !.owes = 2])
      PROVE  SessionInv'
  <2> DEFINE f == [Frame("publish", b) EXCEPT !.ord = n, !.mandatory = mandatory]
  <2> DEFINE v2 == [view[b] EXCEPT !.count = n, !.owes = 2]
  <2>1. n \in Nat /\ (view[b].confirms => n = view[b].count + 1) /\ (~view[b].confirms => n = 0 /\ n = view[b].count)
    BY <1>2, <1>3
  <2>2. f \in TaskType /\ f.op = "publish" /\ f.ch = b /\ f.ord = n
    BY <2>1 DEF Frame, Blank, TaskType, Kinds
  <2>3. /\ v2 \in ViewType /\ v2.state = view[b].state /\ v2.confirms = view[b].confirms /\ v2.count = n
        /\ v2.owes = 2 /\ v2.holds = view[b].holds
    BY <1>2, <2>1, 2 \in 0 .. 2 DEF ViewType
  <2>4. Sends(f, v2)
    BY <1>3
  <2> HIDE DEF f, v2
  <2>5. f.size \in 0 .. 1
    BY <2>2 DEF TaskType
  <2>6. Says(view[b], f, v2)
    BY <1>1, <1>2, <1>3, <2>1, <2>2, <2>3, <2>5 DEF Says, Anew
  <2>7. Counts(v2) /\ HoldsLess(view[b], v2) /\ SettlesOwn(view[b], f)
    BY <1>1, <2>1, <2>2, <2>3 DEF Counts, HoldsLess, SettlesOwn
  <2> QED
    BY <2>2, <2>4, <2>6, <2>7, SaysKeeps
<1>4. ASSUME view[b].owes = 2, NEW size \in {0, 1},
             Sends([Frame("header", b) EXCEPT !.size = size], [view[b] EXCEPT !.owes = size])
      PROVE  SessionInv'
  <2> DEFINE f == [Frame("header", b) EXCEPT !.size = size]
  <2> DEFINE v2 == [view[b] EXCEPT !.owes = size]
  <2>1. f \in TaskType /\ f.op = "header" /\ f.ch = b /\ f.size = size
    BY DEF Frame, Blank, TaskType, Kinds
  <2>2. /\ v2 \in ViewType /\ v2.state = view[b].state /\ v2.confirms = view[b].confirms /\ v2.count = view[b].count
        /\ v2.owes = size /\ v2.holds = view[b].holds
    BY <1>2 DEF ViewType
  <2>3. Sends(f, v2)
    BY <1>4
  <2> HIDE DEF f, v2
  <2>4. Says(view[b], f, v2)
    BY <1>1, <1>2, <1>4, <2>1, <2>2 DEF Says, Anew
  <2>5. Counts(v2) /\ HoldsLess(view[b], v2) /\ SettlesOwn(view[b], f)
    BY <1>1, <1>2, <2>1, <2>2 DEF Counts, HoldsLess, SettlesOwn
  <2> QED
    BY <2>1, <2>3, <2>4, <2>5, SaysKeeps
<1>5. ASSUME view[b].owes = 1, Sends(Frame("body", b), [view[b] EXCEPT !.owes = 0]) PROVE SessionInv'
  <2> DEFINE f == Frame("body", b)
  <2> DEFINE v2 == [view[b] EXCEPT !.owes = 0]
  <2>1. f \in TaskType /\ f.op = "body" /\ f.ch = b
    BY DEF Frame, Blank, TaskType, Kinds
  <2>2. /\ v2 \in ViewType /\ v2.state = view[b].state /\ v2.confirms = view[b].confirms /\ v2.count = view[b].count
        /\ v2.owes = 0 /\ v2.holds = view[b].holds
    BY <1>2 DEF ViewType
  <2>3. Sends(f, v2)
    BY <1>5
  <2>4. f.size \in 0 .. 1
    BY <2>1 DEF TaskType
  <2> HIDE DEF f, v2
  <2>5. Says(view[b], f, v2)
    BY <1>1, <1>2, <1>5, <2>1, <2>2, <2>4 DEF Says, Anew
  <2>6. Counts(v2) /\ HoldsLess(view[b], v2) /\ SettlesOwn(view[b], f)
    BY <1>1, <1>2, <2>1, <2>2 DEF Counts, HoldsLess, SettlesOwn
  <2> QED
    BY <2>1, <2>3, <2>5, <2>6, SaysKeeps
<1> QED
  BY <1>3, <1>4, <1>5 DEF ClientPublishes

LEMMA ClientSaysGoodbyeKeeps == ASSUME SessionInv, ClientSaysGoodbye PROVE SessionInv'
<1>1. PICK b \in Channel : Sends(Frame("bye", b), view[b])
  BY DEF ClientSaysGoodbye
<1> DEFINE f == Frame("bye", b)
<1>2. f \in TaskType /\ f.op = "bye" /\ f.ch = b
  BY DEF Frame, Blank, TaskType, Kinds
<1>3. Sends(f, view[b])
  BY <1>1
<1> HIDE DEF f
<1>4. phase # "over" /\ toServer' = Append(toServer, f)
  BY <1>3 DEF Sends
<1>5. ToServerOK /\ Running
  BY <1>4 DEF SessionInv, Shapes
<1>6. Pushed(toServer, f, toServer') /\ ~Mine(f, b)
  BY <1>2, <1>4, <1>5, SayShape DEF Mine
<1>7. Protocol(b, toServer, toClient, Now(b), view[b], Pristine(b), Tearing(b), history.stale, Discarded)
  BY <1>5 DEF Running, ProtocolKept, InProtocol
<1>8. Protocol(b, toServer', toClient, Now(b), view[b], Pristine(b), Tearing(b), history.stale, Discarded)
  BY <1>6, <1>7, SayOther
<1>9. Counts(view[b]) /\ SettlesOwn(view[b], f) /\ HoldsLess(view[b], view[b])
  BY <1>2, ViewFits DEF Counts, SettlesOwn, HoldsLess
<1> QED
  BY <1>2, <1>3, <1>8, <1>9, SendsKeeps


----------------------------------------------------------------------------
(* The client listens *)

LEMMA HearsKeeps ==
  ASSUME SessionInv, phase # "over", toClient # <<>>, toClient' = Tail(toClient),
         UNCHANGED <<phase, sessionVars, outboxVars, brokerVars>>,
         ToServerOK', view' \in [Channel -> ViewType], \A c \in Channel : view'[c].confirms \/ view'[c].count = 0,
         history' \in HistoryType, history'.ended = history.ended, history'.stale = history.stale,
         history'.discarded = history.discarded, history'.leaked = history.leaked, history'.blurred = history.blurred,
         NothingAfterClose',
         \A c \in Channel : Protocol(c, toServer', toClient', Now(c), view'[c], Pristine(c), Tearing(c), history.stale, Discarded),
         \A c \in Channel : HoldsNothing(c)', \A c \in Channel : \A T : Settleable(T, c)' => Settleable(T, c)
  PROVE  SessionInv'
<1>1. /\ phase' = phase /\ channels' = channels /\ staged' = staged
      /\ active' = active /\ pending' = pending /\ fromQueue' = fromQueue
      /\ waiting' = waiting /\ taken' = taken /\ woken' = woken /\ pushing' = pushing
      /\ subscribed' = subscribed /\ held' = held /\ lastTag' = lastTag
  BY DEF sessionVars, outboxVars, brokerVars
<1>2. Shapes /\ Running /\ RuleKeeperServed /\ ToClientOK
  BY DEF SessionInv, Shapes
<1>3. ToClientOK'
  BY <1>2, HearShape
<1>4. SameWork
  BY <1>1, WorkSame
<1>5. ASSUME NEW c \in Channel PROVE InProtocol(c)'
  <2>1. Now(c)' = Now(c) /\ (Pristine(c)' <=> Pristine(c)) /\ (Tearing(c)' <=> Tearing(c))
    BY <1>1, <1>4, SameBooks DEF SameWork
  <2>2. Protocol(c, toServer', toClient', Now(c), view'[c], Pristine(c), Tearing(c), history.stale, Discarded)
    OBVIOUS
  <2>3. Protocol(c, toServer', toClient', Now(c), view'[c], Pristine(c)', Tearing(c)', history'.stale, Discarded)
    BY <2>1, <2>2, Weaken
  <2> QED
    BY <2>1, <2>3 DEF InProtocol, Discarded
<1>6. ASSUME NEW c \in Channel PROVE AllKnown(c)'
  <2>1. AllKnown(c) /\ (Shutting(c)' <=> Shutting(c))
    BY <1>1, <1>2 DEF Running, TagsKept, Shutting
  <2>2. ASSUME NEW T, Known(T, c) PROVE Known(T, c)'
    BY <1>1, <1>4, <2>2, KnownStays DEF SameWork
  <2>3. \A T : Settleable(T, c)' => Settleable(T, c)
    OBVIOUS
  <2> QED
    BY <1>1, <2>1, <2>2, <2>3 DEF AllKnown
<1>7. TagsKept'
  <2>1. \A t : Doing(t)' => Named(t)'
    BY <1>1, <1>2, <1>4 DEF Running, TagsKept, Named, SameWork
  <2>2. \A e : InOutbox(e)' => Unwritten(e)'
    BY <1>1, <1>2 DEF Running, TagsKept, InOutbox, Unwritten
  <2> QED
    BY <1>6, <2>1, <2>2 DEF TagsKept
<1>8. WorkInPlace'
  BY <1>1, <1>2, WorkStays DEF Running, WorkInPlace
<1>9. NoneOrphaned'
  BY <1>1, <1>2, <1>4 DEF Running, NoneOrphaned, Kept, SameWork, Usable, Live
<1>10. Shapes'
  <2>1. TasksOK' /\ OutboxOK' /\ BrokerOK' /\ ChannelsOK'
    BY <1>1, <1>2 DEF Shapes, TasksOK, OutboxOK, BrokerOK, ChannelsOK, Live
  <2> QED
    BY <1>1, <1>2, <1>3, <2>1 DEF Shapes
<1>11. EndedForCause' /\ Woken'
  BY <1>1, <1>2 DEF RuleKeeperServed, EndedForCause, Woken, Running
<1>12. ProtocolKept'
  BY <1>5 DEF ProtocolKept
<1> QED
  BY <1>1, <1>2, <1>7, <1>8, <1>9, <1>10, <1>11, <1>12 DEF SessionInv, Running, RuleKeeperServed

\* The tags it may settle: those it held, and those it has just read.
LEMMA HeardTags ==
  ASSUME NEW c, Popped(toClient, toClient'), NEW T, Settleable(T, c)',
         toServer' = toServer \/ \E g : Pushed(toServer, g, toServer') /\ g.op # "settle",
         \/ view'[c].holds \subseteq view[c].holds
         \/ /\ view'[c].holds \subseteq view[c].holds \cup {toClient[1].dtag}
            /\ toClient[1].ch = c /\ Owned(toClient[1])
  PROVE  Settleable(T, c)
<1>1. ASSUME NEW k \in Up(c, toServer'), toServer'[k].op = "settle", toServer'[k].dtag = T PROVE Settleable(T, c)
  <2>1. CASE toServer' = toServer
    BY <1>1, <2>1 DEF Settleable
  <2>2. ASSUME NEW g, Pushed(toServer, g, toServer'), g.op # "settle" PROVE Settleable(T, c)
    <3>1. k \in Up(c, toServer) /\ toServer[k] = toServer'[k]
      BY <1>1, <2>2, PushUp
    <3> QED
      BY <1>1, <3>1 DEF Settleable
  <2> QED
    BY <2>1, <2>2
<1>2. ASSUME NEW i \in Down(c, toClient'), Owned(toClient'[i]), toClient'[i].dtag = T PROVE Settleable(T, c)
  <2>1. i + 1 \in Down(c, toClient) /\ toClient'[i] = toClient[i + 1]
    BY PopDown
  <2> QED
    BY <1>2, <2>1 DEF Settleable
<1>3. ASSUME T \in view'[c].holds PROVE Settleable(T, c)
  <2>1. CASE T \in view[c].holds
    BY <2>1 DEF Settleable
  <2>2. CASE T = toClient[1].dtag /\ toClient[1].ch = c /\ Owned(toClient[1])
    <3>1. 1 \in Down(c, toClient)
      BY <2>2 DEF Down, Popped
    <3> QED
      BY <2>2, <3>1 DEF Settleable
  <2> QED
    BY <1>3, <2>1, <2>2
<1> QED
  BY <1>1, <1>2, <1>3 DEF Settleable


\* A frame on one of its channels, and what it believes of the channel then.
Heard(b, v2) ==
  /\ phase # "over" /\ toClient # <<>> /\ toClient' = Tail(toClient) /\ b = toClient[1].ch
  /\ view' = [view EXCEPT ![b] = v2]
  /\ history' = [history EXCEPT !.surprised = @ \/ view[b].state = "closed"]
  /\ UNCHANGED <<phase, sessionVars, outboxVars, brokerVars>>
Learns(b, v2) ==
  /\ \/ v2.holds \subseteq view[b].holds
     \/ v2.holds \subseteq view[b].holds \cup {toClient[1].dtag} /\ Owned(toClient[1])
  /\ v2.state = "closed" \/ (Shutting(b) /\ v2.state = "opening") => v2.holds = {}
Confirms(b) == toServer' = toServer \/ \E g \in TaskType : g.ch = b /\ g.op = "closeOk" /\ toServer' = Append(toServer, g)

\* What the client has before it.
LEMMA Hearing ==
  ASSUME SessionInv, phase # "over", toClient # <<>>, toClient' = Tail(toClient)
  PROVE  /\ Shapes /\ Running /\ ToServerOK /\ Popped(toClient, toClient')
         /\ Head(toClient) = toClient[1] /\ toClient[1] \in TaskType
         /\ \A c \in Channel : Protocol(c, toServer, toClient, Now(c), view[c], Pristine(c), Tearing(c), history.stale, Discarded)
<1>1. Shapes /\ Running /\ ToClientOK /\ ToServerOK
  BY DEF SessionInv, Shapes
<1>2. Popped(toClient, toClient') /\ Head(toClient) = toClient[1] /\ toClient[1] \in TaskType
  BY <1>1, HearShape
<1>3. \A c \in Channel : Protocol(c, toServer, toClient, Now(c), view[c], Pristine(c), Tearing(c), history.stale, Discarded)
  BY <1>1 DEF Running, ProtocolKept, InProtocol
<1> QED
  BY <1>1, <1>2, <1>3

LEMMA HeardKeeps ==
  ASSUME SessionInv, NEW b \in Channel, NEW v2, Heard(b, v2), Counts(v2), Learns(b, v2), Confirms(b),
         Protocol(b, toServer', toClient', Now(b), v2, Pristine(b), Tearing(b), history.stale, Discarded)
  PROVE  SessionInv'
<1>1. /\ phase # "over" /\ toClient # <<>> /\ toClient' = Tail(toClient) /\ b = toClient[1].ch
      /\ view' = [view EXCEPT ![b] = v2] /\ UNCHANGED <<phase, sessionVars, outboxVars, brokerVars>>
  BY DEF Heard
<1>2. /\ Shapes /\ Running /\ ToServerOK /\ Popped(toClient, toClient')
      /\ \A c \in Channel : Protocol(c, toServer, toClient, Now(c), view[c], Pristine(c), Tearing(c), history.stale, Discarded)
  BY <1>1, Hearing
<1>3. /\ view' \in [Channel -> ViewType] /\ view'[b] = v2 /\ \A c \in Channel : c # b => view'[c] = view[c]
      /\ \A c \in Channel : view'[c].confirms \/ view'[c].count = 0
  BY <1>1, <1>2 DEF Shapes, Counts
<1>4. ToServerOK' /\ (toServer' = toServer \/ \E g : Pushed(toServer, g, toServer') /\ g.ch = b /\ g.op = "closeOk")
  <2>1. CASE toServer' = toServer
    BY <1>2, <2>1 DEF ToServerOK
  <2>2. ASSUME NEW g \in TaskType, g.ch = b, g.op = "closeOk", toServer' = Append(toServer, g)
        PROVE  ToServerOK' /\ Pushed(toServer, g, toServer')
    BY <1>2, <2>2, SayShape
  <2> QED
    BY <2>1, <2>2 DEF Confirms
<1>5. /\ history' \in HistoryType /\ history'.ended = history.ended /\ history'.stale = history.stale
      /\ history'.discarded = history.discarded /\ history'.leaked = history.leaked
      /\ history'.blurred = history.blurred
      /\ history'.surprised => history.surprised \/ view[b].state = "closed"
  <2> DEFINE now == history.surprised \/ view[b].state = "closed"
  <2>1. history' = [history EXCEPT !.surprised = now]
    BY DEF Heard
  <2>2. history \in HistoryType
    BY <1>2 DEF Shapes
  <2>3. now \in BOOLEAN
    BY <2>2 DEF HistoryType
  <2>4. now => history.surprised \/ view[b].state = "closed"
    OBVIOUS
  <2> HIDE DEF now
  <2> QED
    BY <2>1, <2>2, <2>3, <2>4 DEF HistoryType
<1>6. NothingAfterClose'
  <2>1. history.surprised => history.stale
    BY <1>1 DEF SessionInv, RuleKeeperServed, NothingAfterClose
  <2>2. CASE view[b].state = "closed"
    <3>1. 1 \in Down(b, toClient)
      BY <1>1, <1>2 DEF Down, Popped
    <3>2. NoSurprise(b, toClient, Now(b), view[b], history.stale)
      BY <1>2 DEF Protocol, Course
    <3> QED
      BY <1>5, <2>2, <3>1, <3>2 DEF NoSurprise, NothingAfterClose
  <2> QED
    BY <1>5, <2>1, <2>2 DEF NothingAfterClose
<1>7. ASSUME NEW c \in Channel
      PROVE  Protocol(c, toServer', toClient', Now(c), view'[c], Pristine(c), Tearing(c), history.stale, Discarded)
  <2>1. CASE c = b
    BY <1>3, <2>1
  <2>2. CASE c # b
    <3>1. Protocol(c, toServer, toClient, Now(c), view[c], Pristine(c), Tearing(c), history.stale, Discarded)
      BY <1>2
    <3>2. SameView(view[c], view[c]) /\ toClient[1].ch # c
      BY <1>1, <2>2 DEF SameView
    <3>3. Protocol(c, toServer, toClient', Now(c), view[c], Pristine(c), Tearing(c), history.stale, Discarded)
      BY <1>2, <3>1, <3>2, HearOther
    <3>4. Protocol(c, toServer', toClient', Now(c), view[c], Pristine(c), Tearing(c), history.stale, Discarded)
      <4>1. CASE toServer' = toServer
        BY <3>3, <4>1
      <4>2. ASSUME NEW g, Pushed(toServer, g, toServer'), g.ch = b
            PROVE  Protocol(c, toServer', toClient', Now(c), view[c], Pristine(c), Tearing(c), history.stale, Discarded)
        <5>1. ~Mine(g, c)
          BY <2>2, <4>2 DEF Mine
        <5> QED
          BY <3>3, <4>2, <5>1, SayOther
      <4> QED
        BY <1>4, <4>1, <4>2
    <3> QED
      BY <1>3, <2>2, <3>4
  <2> QED
    BY <2>1, <2>2
<1>8. ASSUME NEW c \in Channel PROVE HoldsNothing(c)'
  <2>1. Shutting(c)' <=> Shutting(c)
    BY <1>1 DEF sessionVars, Shutting
  <2>2. CASE c = b
    BY <1>3, <2>1, <2>2 DEF Learns, HoldsNothing
  <2>3. CASE c # b
    <3>1. HoldsNothing(c)
      BY <1>2 DEF Running, TagsKept
    <3> QED
      BY <1>3, <2>1, <2>3, <3>1 DEF HoldsNothing
  <2> QED
    BY <2>2, <2>3
<1>9. ASSUME NEW c \in Channel, NEW T, Settleable(T, c)' PROVE Settleable(T, c)
  <2>1. toServer' = toServer \/ \E g : Pushed(toServer, g, toServer') /\ g.op # "settle"
    BY <1>4
  <2>2. \/ view'[c].holds \subseteq view[c].holds
        \/ /\ view'[c].holds \subseteq view[c].holds \cup {toClient[1].dtag}
           /\ toClient[1].ch = c /\ Owned(toClient[1])
    <3>1. CASE c = b
      BY <1>1, <1>3, <3>1 DEF Learns
    <3>2. CASE c # b
      BY <1>3, <3>2
    <3> QED
      BY <3>1, <3>2
  <2> QED
    BY <1>2, <1>9, <2>1, <2>2, HeardTags
<1> QED
  BY <1>1, <1>3, <1>4, <1>5, <1>6, <1>7, <1>8, <1>9, HearsKeeps


\* A frame that tells the client nothing about the life of the channel.
LEMMA HeardPlain ==
  ASSUME SessionInv, NEW b \in Channel, NEW v2, Heard(b, v2), toServer' = toServer, SameView(view[b], v2), Counts(v2),
         view[b].state # "closed" => toClient[1].op \notin {"close", "closeOk"},
         \/ v2 = view[b]
         \/ /\ v2.holds = view[b].holds \cup {toClient[1].dtag} /\ Owned(toClient[1]) /\ view[b].state # "closed"
  PROVE  SessionInv'
<1>1. phase # "over" /\ toClient # <<>> /\ toClient' = Tail(toClient) /\ b = toClient[1].ch
  BY DEF Heard
<1>2. /\ Shapes /\ Running /\ ToServerOK /\ Popped(toClient, toClient')
      /\ Protocol(b, toServer, toClient, Now(b), view[b], Pristine(b), Tearing(b), history.stale, Discarded)
  BY <1>1, Hearing
<1>3. Protocol(b, toServer, toClient', Now(b), v2, Pristine(b), Tearing(b), history.stale, Discarded)
  BY <1>2, HearOther
<1>4. Learns(b, v2)
  <2>1. HoldsNothing(b) /\ ChannelsOK
    BY <1>2 DEF Running, TagsKept, Shapes
  <2>2. CASE v2 = view[b]
    BY <2>1, <2>2 DEF HoldsNothing, Learns
  <2>3. CASE v2.holds = view[b].holds \cup {toClient[1].dtag} /\ Owned(toClient[1]) /\ view[b].state # "closed"
    <3>1. 1 \in Down(b, toClient)
      BY <1>1, <1>2 DEF Down, Popped
    <3>2. BothEnds(b, toServer, toClient, Now(b), view[b]) /\ (Shutting(b) => Now(b) = Shut)
      BY <1>2, <2>1, NowIs DEF Protocol, Course
    <3>3. ~(Shutting(b) /\ view[b].state = "opening")
      BY <3>1, <3>2 DEF BothEnds
    <3> QED
      BY <2>3, <3>3 DEF Learns, SameView
  <2> QED
    BY <2>2, <2>3
<1>5. Confirms(b)
  BY DEF Confirms
<1>6. Protocol(b, toServer', toClient', Now(b), v2, Pristine(b), Tearing(b), history.stale, Discarded)
  BY <1>3
<1> QED
  BY <1>4, <1>5, <1>6, HeardKeeps

LEMMA HeardOpen ==
  ASSUME SessionInv, NEW b \in Channel, NEW v2, Heard(b, v2), toServer' = toServer, toClient[1].op = "openOk",
         view[b].state = "opening", v2 = [view[b] EXCEPT !.state = "open"]
  PROVE  SessionInv'
<1>1. phase # "over" /\ toClient # <<>> /\ toClient' = Tail(toClient) /\ b = toClient[1].ch
  BY DEF Heard
<1>2. /\ Popped(toClient, toClient')
      /\ Protocol(b, toServer, toClient, Now(b), view[b], Pristine(b), Tearing(b), history.stale, Discarded)
  BY <1>1, Hearing
<1>3. view[b] \in ViewType /\ (view[b].confirms \/ view[b].count = 0) /\ view[b].confirms \in BOOLEAN
  BY ViewFits
<1>4. /\ v2 \in ViewType /\ v2.state = "open" /\ v2.confirms = view[b].confirms /\ v2.count = view[b].count
      /\ v2.owes = view[b].owes /\ v2.holds = view[b].holds
  BY <1>3 DEF ViewType
<1>5. Protocol(b, toServer, toClient', Now(b), v2, Pristine(b), Tearing(b), history.stale, Discarded)
  BY <1>1, <1>2, <1>3, <1>4, HearOpenOk
<1>6. Counts(v2) /\ Learns(b, v2) /\ Confirms(b)
  BY <1>3, <1>4 DEF Counts, Learns, Confirms
<1>7. Protocol(b, toServer', toClient', Now(b), v2, Pristine(b), Tearing(b), history.stale, Discarded)
  BY <1>5
<1> QED
  BY <1>6, <1>7, HeardKeeps

LEMMA ClosedView == Closed.state = "closed" /\ Closed.owes = 0 /\ Closed.holds = {} /\ Counts(Closed)
<1>1. Closed.state = "closed" /\ Closed.owes = 0 /\ Closed.holds = {} /\ Closed.count = 0
  BY DEF Closed
<1>2. Closed \in ViewType
  BY DEF Closed, ViewType
<1> QED
  BY <1>1, <1>2 DEF Counts

LEMMA HeardCloseOk ==
  ASSUME SessionInv, NEW b \in Channel, Heard(b, Closed), toServer' = toServer, toClient[1].op = "closeOk"
  PROVE  SessionInv'
<1>1. phase # "over" /\ toClient # <<>> /\ toClient' = Tail(toClient) /\ b = toClient[1].ch
  BY DEF Heard
<1>2. /\ Popped(toClient, toClient') /\ ToServerOK
      /\ Protocol(b, toServer, toClient, Now(b), view[b], Pristine(b), Tearing(b), history.stale, Discarded)
  BY <1>1, Hearing
<1>3. PICK v2 : v2 = Closed
  OBVIOUS
<1>4. v2.state = "closed" /\ v2.owes = 0 /\ v2.holds = {} /\ Counts(v2) /\ Heard(b, v2)
  BY <1>3, ClosedView
<1>5. Len(toServer) \in Nat
  BY <1>2 DEF ToServerOK
<1>6. Protocol(b, toServer, toClient', Now(b), v2, Pristine(b), Tearing(b), history.stale, Discarded)
  BY <1>1, <1>2, <1>4, <1>5, HearCloseOk
<1>7. Learns(b, v2) /\ Confirms(b)
  BY <1>4 DEF Learns, Confirms
<1>8. Protocol(b, toServer', toClient', Now(b), v2, Pristine(b), Tearing(b), history.stale, Discarded)
  BY <1>6
<1> QED
  BY <1>4, <1>7, <1>8, HeardKeeps

LEMMA HeardClose ==
  ASSUME SessionInv, NEW b \in Channel, Heard(b, Closed), toServer' = Append(toServer, Frame("closeOk", b)),
         toClient[1].op = "close", view[b].state # "closed"
  PROVE  SessionInv'
<1>1. phase # "over" /\ toClient # <<>> /\ toClient' = Tail(toClient) /\ b = toClient[1].ch
  BY DEF Heard
<1>2. /\ Popped(toClient, toClient') /\ ToServerOK
      /\ Protocol(b, toServer, toClient, Now(b), view[b], Pristine(b), Tearing(b), history.stale, Discarded)
  BY <1>1, Hearing
<1>3. PICK v2 : v2 = Closed
  OBVIOUS
<1>4. v2.state = "closed" /\ v2.owes = 0 /\ v2.holds = {} /\ Counts(v2) /\ Heard(b, v2)
  BY <1>3, ClosedView
<1> DEFINE g == Frame("closeOk", b)
<1>5. g \in TaskType /\ g.op = "closeOk" /\ g.ch = b /\ toServer' = Append(toServer, g)
  BY DEF Frame, Blank, TaskType, Kinds
<1> HIDE DEF g
<1>6. Pushed(toServer, g, toServer')
  BY <1>2, <1>5, SayShape
<1>7. Protocol(b, toServer', toClient', Now(b), v2, Pristine(b), Tearing(b), history.stale, Discarded)
  BY <1>1, <1>2, <1>4, <1>5, <1>6, HearClose
<1>8. Learns(b, v2) /\ Confirms(b)
  BY <1>4, <1>5 DEF Learns, Confirms
<1> QED
  BY <1>4, <1>7, <1>8, HeardKeeps

\* A frame of the connection itself.
LEMMA HeardApart ==
  ASSUME SessionInv, phase # "over", toClient # <<>>, toClient' = Tail(toClient), toClient[1].ch = 0,
         UNCHANGED <<phase, sessionVars, outboxVars, brokerVars, toServer, view, history>>
  PROVE  SessionInv'
<1>1. /\ Shapes /\ Running /\ ToServerOK /\ Popped(toClient, toClient')
      /\ \A c \in Channel : Protocol(c, toServer, toClient, Now(c), view[c], Pristine(c), Tearing(c), history.stale, Discarded)
  BY Hearing
<1>2. toServer' = toServer /\ view' = view /\ history' = history
  OBVIOUS
<1>3. ASSUME NEW c \in Channel
      PROVE  Protocol(c, toServer', toClient', Now(c), view'[c], Pristine(c), Tearing(c), history.stale, Discarded)
  <2>1. toClient[1].ch # c
    BY AmqpAssumption
  <2>2. SameView(view[c], view[c])
    BY DEF SameView
  <2>3. Protocol(c, toServer, toClient, Now(c), view[c], Pristine(c), Tearing(c), history.stale, Discarded)
    BY <1>1
  <2>4. Protocol(c, toServer, toClient', Now(c), view[c], Pristine(c), Tearing(c), history.stale, Discarded)
    BY <1>1, <2>1, <2>2, <2>3, HearOther
  <2> QED
    BY <1>2, <2>4
<1>4. ASSUME NEW c \in Channel PROVE HoldsNothing(c)'
  <2>1. HoldsNothing(c)
    BY <1>1 DEF Running, TagsKept
  <2> QED
    BY <1>2, <2>1 DEF HoldsNothing, Shutting, sessionVars
<1>5. ASSUME NEW c \in Channel, NEW T, Settleable(T, c)' PROVE Settleable(T, c)
  BY <1>1, <1>2, <1>5, HeardTags
<1>6. ToServerOK' /\ NothingAfterClose' /\ history' \in HistoryType /\ view' \in [Channel -> ViewType]
      /\ \A c \in Channel : view'[c].confirms \/ view'[c].count = 0
  BY <1>1, <1>2 DEF ToServerOK, NothingAfterClose, SessionInv, RuleKeeperServed, Shapes
<1> QED
  BY <1>2, <1>3, <1>4, <1>5, <1>6, HearsKeeps

LEMMA ClientReadsKeeps == ASSUME SessionInv, ClientReads PROVE SessionInv'
<1>1. /\ phase # "over" /\ toClient # <<>> /\ toClient' = Tail(toClient)
      /\ UNCHANGED <<phase, sessionVars, outboxVars, brokerVars>>
  BY DEF ClientReads
<1>2. Shapes /\ Head(toClient) = toClient[1] /\ toClient[1] \in TaskType
  BY <1>1, Hearing
<1>3. PICK f : f = toClient[1]
  OBVIOUS
<1>4. f.ch \in Channel \cup {0}
  BY <1>2, <1>3 DEF TaskType
<1>5. CASE f.ch = 0
  <2>1. UNCHANGED <<toServer, view, history>>
    BY <1>2, <1>3, <1>5 DEF ClientReads
  <2> QED
    BY <1>1, <1>3, <1>5, <2>1, HeardApart
<1>6. CASE f.ch \in Channel
  <2>1. PICK b \in Channel : b = f.ch
    BY <1>6
  <2>2. f.ch # 0
    BY <1>6, AmqpAssumption
  <2> DEFINE v == view[b]
  <2> DEFINE now == IF v.state = "closed" THEN v
                    ELSE CASE f.op = "openOk" /\ v.state = "opening" -> [v EXCEPT !.state = "open"]
                           [] f.op \in {"close", "closeOk"} -> Closed
                           [] f.op \in {"deliver", "getOk"} /\ ~f.noAck -> [v EXCEPT !.holds = @ \cup {f.dtag}]
                           [] OTHER -> v
  <2>3. /\ view' = [view EXCEPT ![b] = now]
        /\ toServer' = IF f.op = "close" /\ v.state # "closed" THEN Append(toServer, Frame("closeOk", b)) ELSE toServer
        /\ history' = [history EXCEPT !.surprised = @ \/ v.state = "closed"]
    BY <1>2, <1>3, <2>1, <2>2 DEF ClientReads
  <2>4. Heard(b, now)
    BY <1>1, <1>3, <2>1, <2>3 DEF Heard
  <2>5. v \in ViewType /\ (v.confirms \/ v.count = 0)
    BY ViewFits
  <2>6. CASE v.state = "closed"
    <3>1. now = view[b] /\ toServer' = toServer
      BY <2>3, <2>6
    <3>2. Heard(b, view[b]) /\ SameView(view[b], view[b]) /\ Counts(view[b])
      BY <2>4, <2>5, <3>1 DEF SameView, Counts
    <3> QED
      BY <2>6, <3>1, <3>2, HeardPlain
  <2>7. CASE v.state = "opening" /\ f.op = "openOk"
    <3>1. now = [view[b] EXCEPT !.state = "open"] /\ toServer' = toServer
      BY <2>3, <2>7
    <3>2. Heard(b, [view[b] EXCEPT !.state = "open"])
      BY <2>4, <3>1
    <3> QED
      BY <1>3, <2>7, <3>1, <3>2, HeardOpen
  <2>8. CASE v.state # "closed" /\ f.op = "close"
    <3>1. now = Closed /\ toServer' = Append(toServer, Frame("closeOk", b))
      BY <2>3, <2>8
    <3>2. Heard(b, Closed)
      BY <2>4, <3>1
    <3> QED
      BY <1>3, <2>8, <3>1, <3>2, HeardClose
  <2>9. CASE v.state # "closed" /\ f.op = "closeOk"
    <3>1. now = Closed /\ toServer' = toServer
      BY <2>3, <2>9
    <3>2. Heard(b, Closed)
      BY <2>4, <3>1
    <3> QED
      BY <1>3, <2>9, <3>1, <3>2, HeardCloseOk
  <2>10. CASE v.state # "closed" /\ f.op \in {"deliver", "getOk"} /\ ~f.noAck
    <3> DEFINE v2 == [view[b] EXCEPT !.holds = @ \cup {f.dtag}]
    <3>1. now = v2 /\ toServer' = toServer
      BY <2>3, <2>10
    <3>2. f.dtag \in Nat
      BY <1>2, <1>3 DEF TaskType
    <3>3. v2 \in ViewType /\ v2.state = v.state /\ v2.confirms = v.confirms /\ v2.count = v.count
          /\ v2.owes = v.owes /\ v2.holds = v.holds \cup {f.dtag}
      BY <2>5, <3>2 DEF ViewType
    <3>4. Heard(b, v2)
      BY <2>4, <3>1
    <3> HIDE DEF v2, now
    <3>5. SameView(view[b], v2) /\ Counts(v2)
      BY <2>5, <3>3 DEF SameView, Counts
    <3> QED
      BY <1>3, <2>10, <3>1, <3>3, <3>4, <3>5, HeardPlain DEF Owned
  <2>11. CASE /\ v.state # "closed" /\ ~(v.state = "opening" /\ f.op = "openOk") /\ f.op \notin {"close", "closeOk"}
              /\ ~(f.op \in {"deliver", "getOk"} /\ ~f.noAck)
    <3>1. now = view[b] /\ toServer' = toServer
      BY <2>3, <2>11
    <3>2. Heard(b, view[b]) /\ SameView(view[b], view[b]) /\ Counts(view[b])
      BY <2>4, <2>5, <3>1 DEF SameView, Counts
    <3> QED
      BY <1>3, <2>11, <3>1, <3>2, HeardPlain
  <2> QED
    BY <2>6, <2>7, <2>8, <2>9, <2>10, <2>11
<1> QED
  BY <1>4, <1>5, <1>6


----------------------------------------------------------------------------
(* The invariant, and what it is for *)

\* Nothing has been said and nothing is known.
LEMMA SilentChannel ==
  ASSUME NEW c, NEW v, v.state = "closed", v.owes = 0, NEW stale, NEW disc, NEW prist, NEW torn, ~torn
  PROVE  Protocol(c, <<>>, <<>>, NoRoom, v, prist, torn, stale, disc)
<1> DEFINE st == [k \in 0 .. 0 |-> NoRoom]
<1>1. Len(<<>>) = 0 /\ NoRoom \in Room /\ NoRoom # Shut /\ NoRoom.at = "gone"
  BY DEF NoRoom, Room, Shut
<1>2. Up(c, <<>>) = {} /\ Down(c, <<>>) = {} /\ Closes(c, <<>>) = {} /\ CloseOks(c, <<>>) = {}
  BY <1>1 DEF Up, Down, Closes, CloseOks
<1>3. Replays(c, <<>>, NoRoom, v, st)
  <2>1. st \in [0 .. Len(<<>>) -> Room] /\ st[0] = NoRoom /\ st[Len(<<>>)] = NoRoom
    BY <1>1
  <2>2. Steps(c, <<>>, st)
    BY <1>1 DEF Steps
  <2>3. Steady(c, <<>>, st)
    <3> SUFFICES ASSUME NEW j \in 0 .. 0, NEW k \in 0 .. 0 PROVE st[j] = st[k]
      BY <1>1 DEF Steady
    <3> QED
      OBVIOUS
  <2>4. Agrees(v, NoRoom, NoRoom)
    BY DEF Agrees
  <2> QED
    BY <2>1, <2>2, <2>3, <2>4 DEF Replays
<1>4. Replayed(c, <<>>, NoRoom, v)
  BY <1>3 DEF Replayed
<1>5. /\ BothEnds(c, <<>>, <<>>, NoRoom, v) /\ StaleCloses(c, <<>>, <<>>, NoRoom, v, prist, stale)
      /\ CloseOkLast(c, <<>>, <<>>, NoRoom, v) /\ BegunAnew(c, <<>>, NoRoom, v, prist, stale)
      /\ LastWord(c, <<>>, NoRoom, v) /\ NoSurprise(c, <<>>, NoRoom, v, stale)
      /\ Attended(c, <<>>, NoRoom, v, prist) /\ Greeted(c, <<>>, <<>>, stale)
  BY <1>1, <1>2 DEF BothEnds, StaleCloses, CloseOkLast, BegunAnew, LastWord, NoSurprise, Attended, Greeted
<1>6. InPieces(c, <<>>, v) /\ StrayHasCause(c, <<>>, NoRoom, v, disc)
  BY <1>1, <1>2 DEF InPieces, StrayHasCause
<1>7. Teardown(c, <<>>, <<>>, NoRoom, v, prist, torn)
  BY DEF Teardown
<1> QED
  BY <1>4, <1>5, <1>6, <1>7 DEF Protocol, Course

LEMMA InitHolds == Init => SessionInv
<1> SUFFICES ASSUME Init PROVE SessionInv
  OBVIOUS
<1>1. /\ phase = "accepting" /\ channels = [ch \in Channel |-> Gone] /\ view = [ch \in Channel |-> Closed]
      /\ staged = <<>> /\ active = Blank /\ pending = NoPublish /\ fromQueue = {}
      /\ waiting = <<>> /\ taken = <<>> /\ woken = FALSE /\ pushing = FALSE
      /\ subscribed = {} /\ held = {} /\ lastTag = 0 /\ toServer = <<>> /\ toClient = <<>>
  BY DEF Init
<1>2. /\ history \in HistoryType /\ history.ended = "no" /\ history.surprised = FALSE
  BY DEF Init, HistoryType, Endings
<1>3. \A t : ~Doing(t)
  BY <1>1, BlankFields DEF Doing
<1>4. Gone \in ChannelType /\ Gone.live = FALSE /\ Gone.consumers = {}
  BY DEF Gone, ChannelType
<1>5. Closed \in ViewType /\ Closed.state = "closed" /\ Closed.owes = 0 /\ Closed.holds = {} /\ Closed.count = 0
  BY ClosedView DEF Counts, Closed
<1>6. NoPublish \in PendingType /\ NoPublish.ch = 0
  BY DEF NoPublish, PendingType
<1>7. ChannelsOK /\ \A c \in Channel : ~Live(c) /\ ~Shutting(c) /\ Now(c) = NoRoom /\ ~Tearing(c)
  BY <1>1, <1>3, <1>4, FS_EmptySet DEF ChannelsOK, Live, Shutting, Now, Tearing
<1>8. <<>> \in Seq(TaskType) /\ Len(<<>>) = 0
  OBVIOUS
<1>9. Shapes
  <2>1. TasksOK /\ ToServerOK /\ ToClientOK
    BY <1>1, <1>6, <1>8, BlankFields DEF TasksOK, ToServerOK, ToClientOK
  <2>2. OutboxOK
    BY <1>1, <1>8 DEF OutboxOK
  <2>3. BrokerOK
    BY <1>1, AmqpAssumption DEF BrokerOK
  <2>4. view \in [Channel -> ViewType] /\ \A c \in Channel : view[c].confirms \/ view[c].count = 0
    BY <1>1, <1>5
  <2> QED
    BY <1>1, <1>2, <1>7, <2>1, <2>3, <2>4, <2>2 DEF Shapes
<1>10. WorkInPlace
  BY <1>1, <1>3, <1>6, <1>8, BlankFields DEF WorkInPlace, PendingHere
<1>11. ASSUME NEW c \in Channel PROVE InProtocol(c)
  <2>1. view[c].state = "closed" /\ view[c].owes = 0 /\ Now(c) = NoRoom /\ ~Tearing(c)
    BY <1>1, <1>5, <1>7
  <2>2. Protocol(c, <<>>, <<>>, NoRoom, view[c], Pristine(c), Tearing(c), history.stale, Discarded)
    BY <2>1, SilentChannel
  <2> QED
    BY <1>1, <2>1, <2>2 DEF InProtocol
<1>12. TagsKept
  <2>1. ASSUME NEW c \in Channel PROVE HoldsNothing(c) /\ AllKnown(c)
    <3>1. view[c].holds = {}
      BY <1>1, <1>5
    <3>2. Up(c, toServer) = {} /\ Down(c, toClient) = {}
      BY <1>1, <1>8 DEF Up, Down
    <3>3. \A T : ~Settleable(T, c)
      BY <3>1, <3>2 DEF Settleable
    <3> QED
      BY <3>1, <3>3 DEF HoldsNothing, AllKnown
  <2>2. \A d : ~InOutbox(d)
    BY <1>1, <1>8 DEF InOutbox
  <2> QED
    BY <1>3, <2>1, <2>2 DEF TagsKept
<1>13. Woken /\ NoneOrphaned /\ ProtocolKept /\ RuleKeeperServed
  BY <1>1, <1>2, <1>11 DEF Woken, NoneOrphaned, ProtocolKept, RuleKeeperServed, EndedForCause, NothingAfterClose
<1> QED
  BY <1>1, <1>9, <1>10, <1>12, <1>13 DEF SessionInv, Running

LEMMA StutterKeeps == ASSUME SessionInv, UNCHANGED vars PROVE SessionInv'
<1>1. /\ phase' = phase /\ channels' = channels /\ staged' = staged
      /\ active' = active /\ pending' = pending /\ fromQueue' = fromQueue
      /\ waiting' = waiting /\ taken' = taken /\ woken' = woken /\ pushing' = pushing
      /\ subscribed' = subscribed /\ held' = held /\ lastTag' = lastTag
      /\ toServer' = toServer /\ toClient' = toClient /\ view' = view /\ history' = history
  BY DEF vars, sessionVars, outboxVars, brokerVars
<1>2. Shapes' /\ RuleKeeperServed' /\ (phase' \in {"accepting", "over"} => subscribed' = {})
  BY <1>1 DEF SessionInv, Shapes, RuleKeeperServed, EndedForCause, NothingAfterClose, ChannelsOK, Live, TasksOK,
              OutboxOK, BrokerOK, ToServerOK, ToClientOK
<1>3. CASE phase = "over"
  BY <1>1, <1>2, <1>3 DEF SessionInv
<1>4. CASE phase # "over"
  <2>1. Shapes /\ Running
    BY <1>4 DEF SessionInv
  <2>2. SameWork
    BY <1>1, WorkSame
  <2>3. Quiet
    BY <1>1, <2>2 DEF Quiet
  <2>4. BrokerMoves
    BY <1>1, <2>1 DEF BrokerMoves, Shapes, BrokerOK
  <2>5. ProtocolKept' /\ NoneOrphaned' /\ (\A c \in Channel : HoldsNothing(c)' /\ AllKnown(c)') /\ \A t : Doing(t)' => Named(t)'
    BY <2>1, <2>3, <2>4, QuietKeeps
  <2>6. \A d : InOutbox(d)' => Unwritten(d)'
    BY <1>1, <2>1 DEF Running, TagsKept, InOutbox, Unwritten
  <2>7. WorkInPlace'
    BY <1>1, <2>1, WorkStays DEF Running, WorkInPlace
  <2>8. Woken'
    BY <1>1, <2>1 DEF Running, Woken
  <2> QED
    BY <1>1, <1>2, <2>5, <2>6, <2>7, <2>8 DEF SessionInv, Running, TagsKept
<1> QED
  BY <1>3, <1>4

LEMMA StepKeeps == SessionInv /\ [Next]_vars => SessionInv'
<1> SUFFICES ASSUME SessionInv, [Next]_vars PROVE SessionInv'
  OBVIOUS
<1>1. ASSUME Loop PROVE SessionInv'
  <2>1. EndOfStream => phase # "over"
    BY DEF EndOfStream
  <2> QED
    BY <1>1, <2>1, AcceptKeeps, GreetKeeps, TakeStagedKeeps, LoopMoves, SendDeliveryKeeps, EndsKeep DEF Loop
<1>2. ASSUME Serve PROVE SessionInv'
  <2>1. Serve => Serving
    BY DEF Serve, RefuseConnection, FailOperation, ReplyPlain, ReplyConsume, ReplyCancel, ReplyGet, ReplySettle,
           ReplyPublish, Reply
  <2>2. Serving /\ phase # "over"
    BY <1>2, <2>1 DEF Serving
  <2> QED
    BY <1>2, <2>2, EndsKeep, FailOperationKeeps, ReplyPlainKeeps, ReplyConsumeKeeps, ReplyCancelKeeps, ReplyGetKeeps,
       ReplySettleKeeps, ReplyPublishKeeps DEF Serve
<1>3. ASSUME DropConnection PROVE SessionInv'
  <2>1. phase # "over"
    BY <1>3 DEF DropConnection, Serving
  <2> QED
    BY <1>3, <2>1, EndsKeep
<1>4. ASSUME Client PROVE SessionInv'
  BY <1>4, ClientOpensKeeps, ClientClosesKeeps, ClientAsksKeeps, ClientConsumesKeeps, ClientSettlesKeeps,
     ClientAsksTooMuchKeeps, ClientPublishesKeeps, ClientSaysGoodbyeKeeps DEF Client
<1> QED
  BY <1>1, <1>2, <1>3, <1>4, ReceiveKeeps, BrokenKeeps, ClientReadsKeeps, BrokerKeeps, StutterKeeps DEF Next

\* The session's account of every channel, the frames on their way and the
\* client's own account belong together in every reachable state.
THEOREM SessionInvariant == Spec => []SessionInv
  BY InitHolds, StepKeeps, PTL DEF Spec

LEMMA BooksFollow == SessionInv => BooksKept
<1> SUFFICES ASSUME SessionInv PROVE BooksKept
  OBVIOUS
<1>1. Shapes
  BY DEF SessionInv
<1>2. TypeOK
  <2>1. \A s \in {staged, waiting, taken, toServer, toClient} : \A i \in DOMAIN s : s[i] \in TaskType
    <3>1. \A s \in Seq(TaskType) : \A i \in DOMAIN s : s[i] \in TaskType
      OBVIOUS
    <3>2. \A s \in {staged, waiting, taken, toServer, toClient} : s \in Seq(TaskType)
      BY <1>1 DEF Shapes, TasksOK, OutboxOK, ToServerOK, ToClientOK
    <3> QED
      BY <3>1, <3>2
  <2>2. /\ channels \in [Channel -> [live : BOOLEAN, closing : BOOLEAN, confirms : BOOLEAN,
                                     published : Nat, consumers : SUBSET Tag]]
        /\ \A c \in Channel : Live(c) \/ channels[c] = Gone
    BY <1>1 DEF Shapes, ChannelsOK, ChannelType
  <2>3. /\ active \in TaskType /\ woken \in BOOLEAN /\ pushing \in BOOLEAN
        /\ pending \in [ch : Channel \cup {0}, mandatory : BOOLEAN, ord : Nat, size : {0, 1}, got : {0, 1}]
    BY <1>1 DEF Shapes, TasksOK, OutboxOK, PendingType
  <2>4. /\ fromQueue \subseteq 1 .. lastTag /\ lastTag \in 0 .. MaxTag
        /\ subscribed \subseteq [tag : Tag, ch : Channel, noAck : BOOLEAN]
        /\ held \subseteq [dtag : 1 .. lastTag, ch : Channel]
    BY <1>1 DEF Shapes, BrokerOK
  <2>5. phase \in {"accepting", "new", "loop", "writing", "select", "serving", "over"}
    BY <1>1 DEF Shapes
  <2> QED
    BY <2>1, <2>2, <2>3, <2>4, <2>5 DEF TypeOK
<1>3. NoOrphanConsumer
  <2> SUFFICES ASSUME NEW s \in subscribed
               PROVE  \/ Live(s.ch) /\ s.tag \in channels[s.ch].consumers
                      \/ \E i \in DOMAIN staged : staged[i].op = "cancel" /\ staged[i].tag = s.tag
                      \/ phase = "serving" /\ active.op = "cancel" /\ active.tag = s.tag
                      \/ s.tag \in history.leaked
    BY DEF NoOrphanConsumer
  <2>1. phase # "over" /\ Running /\ Kept(s)
    BY DEF SessionInv, Running, NoneOrphaned
  <2>2. ASSUME NEW t, Doing(t), t.op = "cancel", t.tag = s.tag
        PROVE  \/ \E i \in DOMAIN staged : staged[i].op = "cancel" /\ staged[i].tag = s.tag
               \/ phase = "serving" /\ active.op = "cancel" /\ active.tag = s.tag
    <3>1. CASE t = active
      <4>1. phase = "serving"
        BY <2>1, <2>2, <3>1, BlankFields DEF Running, WorkInPlace
      <4> QED
        BY <2>2, <3>1, <4>1
    <3>2. ASSUME NEW i \in 1 .. Len(staged), t = staged[i] PROVE i \in DOMAIN staged
      BY <1>1, <3>2 DEF Shapes, TasksOK
    <3> QED
      BY <2>2, <3>1, <3>2 DEF Doing
  <2> QED
    BY <2>1, <2>2 DEF Kept, Usable
<1>4. AckNamesQueue
  <2> SUFFICES ASSUME phase = "serving", active.op = "settle", NEW h \in held, active.dtag = h.dtag
               PROVE  active.named \/ active.dtag \in history.blurred
    BY DEF AckNamesQueue
  <2>1. Named(active)
    BY AtService
  <2> QED
    BY <2>1 DEF Named
<1> QED
  BY <1>2, <1>3, <1>4 DEF BooksKept

\* track, cancelConsumers, remember and forget, for any number of channels,
\* consumers and deliveries: the session's own maps agree with the broker's.
THEOREM SessionBooksKept == Spec => []BooksKept
  BY SessionInvariant, BooksFollow, PTL

\* fatal and sendDelivery, for any client that keeps the rules: it is cut off
\* for the named causes only, and hears something on a channel it holds closed
\* only once the session has closed a channel that was gone.
THEOREM SessionServesRuleKeepers == Spec => []RuleKeeperServed
<1>1. SessionInv => RuleKeeperServed
  BY DEF SessionInv
<1> QED
  BY <1>1, SessionInvariant, PTL

\* confirm, for any number of publishes on any channels: every Basic.Ack
\* carries the number its client counts.
THEOREM SessionConfirmsTruly == Spec => []ConfirmNamesItsPublish
<1>1. SessionInv => ConfirmNamesItsPublish
  <2> SUFFICES ASSUME SessionInv, NEW i \in DOMAIN toClient PROVE Truthful(toClient[i])
    BY DEF ConfirmNamesItsPublish, Truthful
  <2>1. ToClientOK
    BY DEF SessionInv, Shapes
  <2> QED
    BY <2>1 DEF ToClientOK
<1> QED
  BY <1>1, SessionInvariant, PTL

\* outbox: one signal is enough, however many deliveries are pushed and
\* however the pushes and the session's steps interleave.
THEOREM SessionAlwaysWakes == Spec => []NoLostWakeUp
<1>1. SessionInv => NoLostWakeUp
  BY DEF SessionInv, Running, Woken, NoLostWakeUp
<1> QED
  BY <1>1, SessionInvariant, PTL


=============================================================================
