----------------------------- MODULE Http_proofs -----------------------------
(* Steering calls find their stream and nothing is lost on a wire, for any   *)
(* number of streams and calls and any limits.                                *)
EXTENDS Http, FiniteSetTheorems, TLAPS

(* What travels on the wire and through a body, and what is known of a call. *)
Requests == Calls \cup ({"subscribe"} \X Ids)
Frames == Kinds \X (Ids \cup {NoId})
Steps == {"idle", "queued", "register", "look", "missed", "asleep", "posting", "replied",
          "done", "lost"}
Posts == [st : Steps, named : BOOLEAN, late : BOOLEAN, ok : BOOLEAN]

HubStates == {"none", "open", "cancelled", "ended"}
TaskStates == {"none", "connecting", "reading", "done"}
BodyStates == {"none", "asked", "refused", "open", "stuck", "dropped"}
StreamStates == {"none", "live", "cancelled", "ended"}

Shaped ==
    /\ hub \in [Ids -> HubStates]
    /\ seen \in [Ids -> Nat] /\ sent \in [Ids -> Nat] /\ granted \in [Ids -> Nat]
    /\ dropped \in BOOLEAN /\ pump \in BOOLEAN /\ dead \in BOOLEAN
    /\ out \in Seq(Requests) /\ inbound \in Seq(Frames)
    /\ sessions \subseteq Ids /\ table \subseteq Ids
    /\ task \in [Ids -> TaskStates]
    /\ hand \in [Ids -> Frames \cup {Nothing}]
    /\ post \in [Calls -> Posts]
    /\ body \in [Ids -> BodyStates]
    /\ stream \in [Ids -> StreamStates]
    /\ outbox \in [Ids -> Seq(Frames)]
    /\ breaks \in Nat

(* The channels and the outboxes within their limits, and a stream within the *)
(* credit of its window and its grant, which is given once.                   *)
Spent == {"replied", "done"}
Bounded ==
    /\ Len(out) <= Buffer /\ Len(inbound) <= Buffer /\ breaks <= MaxBreaks
    /\ \A i \in Ids :
          /\ Len(outbox[i]) <= Outbox /\ sent[i] <= MaxRecords
          /\ granted[i] <= Window + 1
          /\ <<"credit", i>> \in Calls /\ post[<<"credit", i>>].st \notin Spent =>
                granted[i] <= Window

(* A request is on its way to the pump once, and not before the hub sent it   *)
(* nor after the pump took it.                                                *)
Once ==
    /\ \A j, k \in DOMAIN out : out[j] = out[k] => j = k
    /\ \A k \in DOMAIN out :
          /\ out[k] \in Calls => post[out[k]].st = "queued"
          /\ out[k] \notin Calls => hub[out[k][2]] # "none" /\ task[out[k][2]] = "none"
    /\ \A i \in Ids : hub[i] = "none" => task[i] = "none"

(* A body is asked for by its reader, has nothing before it is open, is in the *)
(* table while it is, or for good when its handler is stuck, and is announced  *)
(* only after it opened.                                                      *)
Opened ==
    \A i \in Ids :
        /\ task[i] \in {"none", "connecting"} => body[i] = "none"
        /\ body[i] \in {"none", "asked", "refused"} => outbox[i] = <<>>
        /\ body[i] \in {"none", "asked", "refused", "stuck"} =>
              stream[i] = "none" /\ sent[i] = 0
        /\ i \in table <=> body[i] \in {"open", "stuck"}
        /\ i \in sessions => body[i] \in {"open", "dropped"}
        /\ body[i] = "dropped" => stream[i] = "ended"
        /\ \A k \in DOMAIN outbox[i] : outbox[i][k][2] = i
        /\ hand[i] # Nothing => hand[i][2] = i

(* A call that steers goes out under the name of a session, unless its wait   *)
(* expired; one that found no session has not missed it since.                *)
Steered(r) ==
    /\ post[r].named =>
          /\ r[1] # "call" /\ ~post[r].late /\ r[2] \in Ids
          /\ body[r[2]] \in {"open", "dropped"}
    /\ post[r].st \in Waiting \cup {"idle", "queued"} =>
          ~post[r].named /\ ~post[r].late
    /\ r[1] # "call" /\ post[r].st \in {"posting", "replied"} =>
          post[r].named \/ post[r].late
    /\ post[r].st \in Registered => r[2] \notin sessions
Steering == \A r \in Calls : Steered(r)

(* No more records are on their way or seen than were pushed. *)
Counted == \A i \in Ids : InTransit(i) + seen[i] <= sent[i]

IInv ==
    /\ Shaped /\ Bounded /\ Once /\ Opened /\ Steering /\ SteeringFindsItsStream
    /\ NothingEndsInSilence /\ Counted /\ NothingIsDropped

-----------------------------------------------------------------------------
(* Facts about calls and frames. *)

\* A call steers a stream, or is about none.
LEMMA CallShape ==
    ASSUME NEW r \in Calls
    PROVE  /\ r = <<r[1], r[2]>> /\ r[1] \in {"credit", "cancel", "call"}
           /\ r[1] # "call" => r[2] \in Ids
           /\ r[1] = "call" => r[2] = NoId
           /\ r \notin {"subscribe"} \X Ids
  BY HttpAssumption

\* A request is a call or opens a stream.
LEMMA RequestShape ==
    ASSUME NEW r \in Requests
    PROVE  \/ r \in Calls /\ r[1] # "subscribe"
           \/ r \notin Calls /\ r[1] = "subscribe" /\ r[2] \in Ids /\ r = <<"subscribe", r[2]>>
  BY CallShape DEF Requests

\* No frame is nothing, and a frame of a stream is.
LEMMA FrameShape ==
    /\ Nothing \notin Frames /\ Nothing[1] = "none"
    /\ \A f \in Frames : f = <<f[1], f[2]>> /\ f[1] \in Kinds
    /\ \A i \in Ids, k \in Kinds : <<k, i>> \in Frames
    /\ \A r \in Calls : Answer(r) \in Frames /\ Answer(r)[1] # "record"
  <1>1. ASSUME NEW r \in Calls
        PROVE  Answer(r) \in Frames /\ Answer(r)[1] # "record"
    BY CallShape DEF Answer, Frames, Kinds
  <1>. QED
    BY <1>1 DEF Frames, Kinds, Nothing

\* The call r comes to the step st; the others stay.
Moved(r, st, named, late, ok) ==
    /\ post' \in [Calls -> Posts]
    /\ post'[r].st = st /\ post'[r].named = named
    /\ post'[r].late = late /\ post'[r].ok = ok
    /\ \A q \in Calls : q # r => post'[q] = post[q]

\* The fields of a call that the actions write.
LEMMA Moves ==
    ASSUME post \in [Calls -> Posts], NEW r \in Calls, NEW st \in Steps
    PROVE  /\ post' = [post EXCEPT ![r].st = st] =>
                 Moved(r, st, post[r].named, post[r].late, post[r].ok)
           /\ post' = [post EXCEPT ![r] = [@ EXCEPT !.st = st]] =>
                 Moved(r, st, post[r].named, post[r].late, post[r].ok)
           /\ post' = [post EXCEPT ![r] = [@ EXCEPT !.st = st, !.named = TRUE]] =>
                 Moved(r, st, TRUE, post[r].late, post[r].ok)
           /\ post' = [post EXCEPT ![r].st = st, ![r].late = TRUE] =>
                 Moved(r, st, post[r].named, TRUE, post[r].ok)
           /\ \A b \in BOOLEAN : post' = [post EXCEPT ![r].st = st, ![r].ok = b] =>
                 Moved(r, st, post[r].named, post[r].late, b)
  <1>1. post[r] \in Posts
    OBVIOUS
  <1>. DEFINE p1 == [post[r] EXCEPT !.st = st]
              p2 == [post[r] EXCEPT !.st = st, !.named = TRUE]
              p3 == [post[r] EXCEPT !.st = st, !.late = TRUE]
              p4(b) == [post[r] EXCEPT !.st = st, !.ok = b]
  <1>2. /\ p1 \in Posts /\ p2 \in Posts /\ p3 \in Posts
        /\ \A b \in BOOLEAN : p4(b) \in Posts
    BY <1>1 DEF Posts
  <1>3. /\ p1.st = st /\ p1.named = post[r].named /\ p1.late = post[r].late
        /\ p1.ok = post[r].ok
        /\ p2.st = st /\ p2.named = TRUE /\ p2.late = post[r].late /\ p2.ok = post[r].ok
        /\ p3.st = st /\ p3.named = post[r].named /\ p3.late = TRUE /\ p3.ok = post[r].ok
        /\ \A b \in BOOLEAN : /\ p4(b).st = st /\ p4(b).named = post[r].named
                              /\ p4(b).late = post[r].late /\ p4(b).ok = b
    BY <1>1 DEF Posts
  <1>4. ASSUME NEW p \in Posts, post' = [post EXCEPT ![r] = p]
        PROVE  Moved(r, p.st, p.named, p.late, p.ok)
    BY <1>4 DEF Moved
  <1>5. /\ [post EXCEPT ![r].st = st] = [post EXCEPT ![r] = p1]
        /\ [post EXCEPT ![r] = [@ EXCEPT !.st = st]] = [post EXCEPT ![r] = p1]
        /\ [post EXCEPT ![r] = [@ EXCEPT !.st = st, !.named = TRUE]] = [post EXCEPT ![r] = p2]
        /\ [post EXCEPT ![r].st = st, ![r].late = TRUE] = [post EXCEPT ![r] = p3]
        /\ \A b \in BOOLEAN :
              [post EXCEPT ![r].st = st, ![r].ok = b] = [post EXCEPT ![r] = p4(b)]
    BY <1>1
  <1>. HIDE DEF p1, p2, p3, p4
  <1>6. post' = [post EXCEPT ![r] = p1] => Moved(r, st, post[r].named, post[r].late, post[r].ok)
    BY <1>2, <1>3, <1>4
  <1>7. post' = [post EXCEPT ![r] = p2] => Moved(r, st, TRUE, post[r].late, post[r].ok)
    BY <1>2, <1>3, <1>4
  <1>8. post' = [post EXCEPT ![r] = p3] => Moved(r, st, post[r].named, TRUE, post[r].ok)
    BY <1>2, <1>3, <1>4
  <1>9. ASSUME NEW b \in BOOLEAN, post' = [post EXCEPT ![r] = p4(b)]
        PROVE  Moved(r, st, post[r].named, post[r].late, b)
    BY <1>2, <1>3, <1>4, <1>9
  <1>. QED
    BY <1>5, <1>6, <1>7, <1>8, <1>9

\* What the actions do to the calls.
LEMMA CallEffects ==
    ASSUME Shaped, NEW r \in Calls
    PROVE  /\ Fire(r) => Moved(r, "queued", post[r].named, post[r].late, post[r].ok)
           /\ Register(r) => Moved(r, "look", post[r].named, post[r].late, post[r].ok)
           /\ Look(r) => IF r[2] \in sessions
                           THEN Moved(r, "posting", TRUE, post[r].late, post[r].ok)
                           ELSE Moved(r, "missed", post[r].named, post[r].late, post[r].ok)
           /\ Sleep(r) => Moved(r, "asleep", post[r].named, post[r].late, post[r].ok)
           /\ WaitExpires(r) => Moved(r, "posting", post[r].named, TRUE, post[r].ok)
           /\ ServeCall(r) => Moved(r, "replied", post[r].named, post[r].late,
                                    r[1] = "call" \/ Found(r))
           /\ CallReturns(r) \/ CallRefused(r) =>
                 Moved(r, "done", post[r].named, post[r].late, post[r].ok)
           /\ CallBreaks(r) => Moved(r, "done", post[r].named, post[r].late, FALSE)
  <1>. DEFINE st == {"queued", "look", "posting", "missed", "asleep", "replied", "done"}
  <1>1. post \in [Calls -> Posts] /\ st \subseteq Steps
    BY DEF Shaped, Steps
  <1>2. (r[1] = "call" \/ Found(r)) \in BOOLEAN
    BY DEF Found
  <1>3. Fire(r) => Moved(r, "queued", post[r].named, post[r].late, post[r].ok)
    BY <1>1, Moves DEF Fire
  <1>4. /\ Register(r) => Moved(r, "look", post[r].named, post[r].late, post[r].ok)
        /\ Sleep(r) => Moved(r, "asleep", post[r].named, post[r].late, post[r].ok)
        /\ WaitExpires(r) => Moved(r, "posting", post[r].named, TRUE, post[r].ok)
    BY <1>1, Moves DEF Register, Sleep, WaitExpires
  <1>5. ASSUME Look(r)
        PROVE  IF r[2] \in sessions
                 THEN Moved(r, "posting", TRUE, post[r].late, post[r].ok)
                 ELSE Moved(r, "missed", post[r].named, post[r].late, post[r].ok)
    <2>1. CASE r[2] \in sessions
      <3>1. post' = [post EXCEPT ![r] = [@ EXCEPT !.st = "posting", !.named = TRUE]]
        BY <1>1, <1>5, <2>1 DEF Look
      <3>. QED
        BY <1>1, <2>1, <3>1, Moves
    <2>2. CASE r[2] \notin sessions
      <3>1. post' = [post EXCEPT ![r] = [@ EXCEPT !.st = "missed"]]
        BY <1>1, <1>5, <2>2 DEF Look
      <3>. QED
        BY <1>1, <2>2, <3>1, Moves
    <2>. QED
      BY <2>1, <2>2
  <1>6. ServeCall(r) => Moved(r, "replied", post[r].named, post[r].late,
                              r[1] = "call" \/ Found(r))
    BY <1>1, <1>2, Moves DEF ServeCall
  <1>7. /\ CallReturns(r) \/ CallRefused(r) =>
             Moved(r, "done", post[r].named, post[r].late, post[r].ok)
        /\ CallBreaks(r) => Moved(r, "done", post[r].named, post[r].late, FALSE)
    BY <1>1, Moves DEF CallReturns, CallRefused, CallBreaks
  <1>. QED
    BY <1>3, <1>4, <1>5, <1>6, <1>7

\* A Welcome sends the calls that wait back to look, and only those.
LEMMA WokenEffects ==
    ASSUME post \in [Calls -> Posts]
    PROVE  /\ Woken \in [Calls -> Posts]
           /\ \A r \in Calls :
                 /\ post[r].st \in Registered =>
                       /\ Woken[r].st = "register" /\ Woken[r].named = post[r].named
                       /\ Woken[r].late = post[r].late /\ Woken[r].ok = post[r].ok
                 /\ post[r].st \notin Registered => Woken[r] = post[r]
  <1>1. \A p \in Posts :
           /\ [p EXCEPT !.st = "register"] \in Posts
           /\ [p EXCEPT !.st = "register"].st = "register"
           /\ [p EXCEPT !.st = "register"].named = p.named
           /\ [p EXCEPT !.st = "register"].late = p.late
           /\ [p EXCEPT !.st = "register"].ok = p.ok
    BY DEF Posts, Steps
  <1>. QED
    BY <1>1 DEF Woken

\* The pump takes the calls with it that it never took.
LEMMA StopEffects ==
    ASSUME post \in [Calls -> Posts], PumpStop
    PROVE  /\ post' \in [Calls -> Posts]
           /\ \A r \in Calls :
                 /\ post[r].st = "queued" =>
                       /\ post'[r].st = "lost" /\ post'[r].named = post[r].named
                       /\ post'[r].late = post[r].late /\ post'[r].ok = post[r].ok
                 /\ post[r].st # "queued" => post'[r] = post[r]
  <1>1. \A p \in Posts :
           /\ [p EXCEPT !.st = "lost"] \in Posts
           /\ [p EXCEPT !.st = "lost"].st = "lost"
           /\ [p EXCEPT !.st = "lost"].named = p.named
           /\ [p EXCEPT !.st = "lost"].late = p.late
           /\ [p EXCEPT !.st = "lost"].ok = p.ok
    BY DEF Posts, Steps
  <1>. QED
    BY <1>1 DEF PumpStop

\* The pump starts a stream, or the task of a call.
LEMMA TakeEffects ==
    ASSUME Shaped, PumpTake
    PROVE  /\ out # <<>> /\ Head(out) \in Requests /\ out' = Tail(out)
           /\ Head(out) \in Calls =>
                 /\ Moved(Head(out), IF NeedsSession(Head(out)) THEN "register" ELSE "posting",
                          post[Head(out)].named, post[Head(out)].late, post[Head(out)].ok)
                 /\ task' = task
           /\ Head(out) \notin Calls =>
                 /\ Head(out)[2] \in Ids /\ Head(out) = <<"subscribe", Head(out)[2]>>
                 /\ task' = [task EXCEPT ![Head(out)[2]] = "connecting"]
                 /\ post' = post
  <1>1. out # <<>> /\ out \in Seq(Requests) /\ Head(out) \in Requests /\ out' = Tail(out)
    BY DEF Shaped, PumpTake
  <1>2. post \in [Calls -> Posts] /\ {"register", "posting"} \subseteq Steps
    BY DEF Shaped, Steps
  <1>3. CASE Head(out) \in Calls
    <2>1. Head(out)[1] # "subscribe"
      BY <1>1, <1>3, RequestShape
    <2>2. /\ post' = [post EXCEPT ![Head(out)].st =
                         IF NeedsSession(Head(out)) THEN "register" ELSE "posting"]
          /\ task' = task
      BY <2>1 DEF PumpTake
    <2>. QED
      BY <1>1, <1>2, <1>3, <2>2, Moves
  <1>4. CASE Head(out) \notin Calls
    <2>1. Head(out)[1] = "subscribe" /\ Head(out)[2] \in Ids
          /\ Head(out) = <<"subscribe", Head(out)[2]>>
      BY <1>1, <1>4, RequestShape
    <2>. QED
      BY <1>1, <1>4, <2>1 DEF PumpTake
  <1>. QED
    BY <1>1, <1>3, <1>4

\* A connection that breaks under a call ends the wire.
LEMMA BreaksKill ==
    ASSUME NEW r \in Calls, CallBreaks(r)
    PROVE  dead' = TRUE
  <1>1. \A a \in {"head", "inside"} : ReadsAs("length", a) = "error"
    BY DEF ReadsAs
  <1>. QED
    BY <1>1 DEF CallBreaks

\* Counting up keeps a table of numbers one.
LEMMA Bumped ==
    ASSUME NEW f \in [Ids -> Nat], NEW x
    PROVE  [f EXCEPT ![x] = @ + 1] \in [Ids -> Nat]
  <1>1. CASE x \in Ids
    <2>1. f[x] + 1 \in Nat
      BY <1>1
    <2>. QED
      BY <1>1, <2>1
  <1>2. CASE x \notin Ids
    BY <1>2
  <1>. QED
    BY <1>1, <1>2

-----------------------------------------------------------------------------
(* Types. *)

\* The actions keep the types.
LEMMA ShapedNext == Shaped /\ [Next]_vars => Shaped'
  <1>. SUFFICES ASSUME Shaped, [Next]_vars PROVE Shaped'
    OBVIOUS
  <1>1. /\ \A i \in Ids : <<"subscribe", i>> \in Requests
        /\ Calls \subseteq Requests
        /\ \A i \in Ids, k \in Kinds : <<k, i>> \in Frames
        /\ \A r \in Calls : Answer(r) \in Frames
    BY FrameShape DEF Requests
  <1>t. /\ hub \in [Ids -> HubStates] /\ seen \in [Ids -> Nat] /\ sent \in [Ids -> Nat]
        /\ granted \in [Ids -> Nat] /\ out \in Seq(Requests) /\ inbound \in Seq(Frames)
        /\ sessions \subseteq Ids /\ table \subseteq Ids /\ task \in [Ids -> TaskStates]
        /\ hand \in [Ids -> Frames \cup {Nothing}] /\ post \in [Calls -> Posts]
        /\ body \in [Ids -> BodyStates] /\ stream \in [Ids -> StreamStates]
        /\ outbox \in [Ids -> Seq(Frames)] /\ breaks \in Nat
    BY DEF Shaped
  <1>b. dropped \in BOOLEAN /\ pump \in BOOLEAN /\ dead \in BOOLEAN
    BY DEF Shaped
  <1>2. ASSUME NEW i \in Ids, Subscribe(i)
        PROVE  Shaped'
    <2>1. hub' \in [Ids -> HubStates]
      BY <1>2, <1>t DEF Subscribe, HubStates
    <2>2. out' \in Seq(Requests)
      BY <1>1, <1>2, <1>t DEF Subscribe
    <2>. QED
      BY <1>2, <2>1, <2>2 DEF Subscribe, Shaped, reader, server
  <1>3. ASSUME NEW r \in Calls, Fire(r)
        PROVE  Shaped'
    <2>1. post' \in [Calls -> Posts]
      BY <1>3, CallEffects DEF Moved
    <2>2. hub' \in [Ids -> HubStates]
      BY <1>3, <1>t DEF Fire, HubStates
    <2>3. out' \in Seq(Requests)
      BY <1>1, <1>3, <1>t DEF Fire
    <2>. QED
      BY <1>3, <2>1, <2>2, <2>3 DEF Fire, Shaped, reader, server
  <1>4. CASE HubRecv
    <2>1. inbound' \in Seq(Frames)
      BY <1>4, <1>t DEF HubRecv
    <2>2. seen' \in [Ids -> Nat]
      BY <1>4, <1>t, Bumped DEF HubRecv
    <2>3. hub' \in [Ids -> HubStates]
      BY <1>4, <1>t DEF HubRecv, HubStates
    <2>. QED
      BY <1>4, <2>1, <2>2, <2>3 DEF HubRecv, Shaped, reader, server
  <1>5. CASE HubDrop
    BY <1>5 DEF HubDrop, Shaped, reader, server
  <1>6. CASE PumpTake
    <2>1. out' \in Seq(Requests)
      BY <1>6, <1>t DEF PumpTake
    <2>2. post' \in [Calls -> Posts]
      BY <1>6, <1>t, TakeEffects DEF Moved
    <2>3. task' \in [Ids -> TaskStates]
      BY <1>6, <1>t, TakeEffects DEF TaskStates
    <2>. QED
      BY <1>6, <2>1, <2>2, <2>3 DEF PumpTake, Shaped, hubVars, server
  <1>7. CASE PumpStop
    <2>1. post' \in [Calls -> Posts]
      BY <1>7, <1>t, StopEffects
    <2>2. pump' \in BOOLEAN /\ dead' \in BOOLEAN
      BY <1>7 DEF PumpStop
    <2>4. out' \in Seq(Requests)
      BY <1>7 DEF PumpStop
    <2>3. UNCHANGED <<hubVars, inbound, reader, server, breaks>>
      BY <1>7 DEF PumpStop
    <2>. QED
      BY <2>1, <2>2, <2>3, <2>4 DEF Shaped, hubVars, reader, server
  <1>8. ASSUME NEW r \in Calls, Wait(r) \/ CallRefused(r)
        PROVE  Shaped'
    <2>1. post' \in [Calls -> Posts]
      BY <1>8, CallEffects DEF Moved, Wait
    <2>2. dead' \in BOOLEAN
      BY <1>8, <1>b DEF Wait, Register, Look, Sleep, WaitExpires, CallRefused, wire
    <2>3. UNCHANGED <<hubVars, out, inbound, pump, reader, server, breaks>>
      BY <1>8 DEF Wait, Register, Look, Sleep, WaitExpires, CallRefused, wire
    <2>. QED
      BY <2>1, <2>2, <2>3 DEF Shaped, hubVars, reader, server
  <1>9. ASSUME NEW r \in Calls, CallBreaks(r)
        PROVE  Shaped'
    <2>1. post' \in [Calls -> Posts]
      BY <1>9, CallEffects DEF Moved
    <2>2. dead' \in BOOLEAN
      BY <1>9, BreaksKill
    <2>3. breaks' \in Nat /\ UNCHANGED <<hubVars, out, inbound, pump, reader, server>>
      BY <1>9, <1>t DEF CallBreaks
    <2>. QED
      BY <2>1, <2>2, <2>3 DEF Shaped, hubVars, reader, server
  <1>10. ASSUME NEW r \in Calls, ServeCall(r)
         PROVE  Shaped'
    <2>1. post' \in [Calls -> Posts]
      BY <1>10, CallEffects DEF Moved
    <2>2. granted' \in [Ids -> Nat]
      BY <1>10, <1>t, Bumped DEF ServeCall
    <2>3. stream' \in [Ids -> StreamStates]
      BY <1>10, <1>t DEF ServeCall, StreamStates
    <2>. QED
      BY <1>10, <2>1, <2>2, <2>3 DEF ServeCall, Shaped, hubVars, wire, reader
  <1>11. ASSUME NEW r \in Calls, CallReturns(r)
         PROVE  Shaped'
    <2>1. post' \in [Calls -> Posts]
      BY <1>11, CallEffects DEF Moved
    <2>2. Answer(r) \in Frames
      BY <1>1
    <2>3. inbound' = inbound \/ inbound' = Append(inbound, Answer(r))
      BY <1>11 DEF CallReturns
    <2>4. inbound' \in Seq(Frames)
      <3>1. inbound \in Seq(Frames)
        BY <1>t
      <3>2. Append(inbound, Answer(r)) \in Seq(Frames)
        BY ONLY <2>2, <3>1
      <3>. QED
        BY <2>3, <3>1, <3>2
    <2>. QED
      BY <1>11, <2>1, <2>4 DEF CallReturns, Shaped, hubVars, reader, server
  <1>12. ASSUME NEW i \in Ids, Connect(i)
         PROVE  Shaped'
    BY <1>12 DEF Connect, Shaped, TaskStates, BodyStates, hubVars, wire
  <1>13. ASSUME NEW i \in Ids, Read(i)
         PROVE  Shaped'
    <2>1. outbox[i] \in Seq(Frames) /\ outbox[i] # <<>>
      BY <1>13, <1>t DEF Read
    <2>2. Head(outbox[i]) \in Frames /\ Tail(outbox[i]) \in Seq(Frames)
      BY <2>1
    <2>3. hand' \in [Ids -> Frames \cup {Nothing}] /\ outbox' \in [Ids -> Seq(Frames)]
      BY <1>13, <1>t, <2>2 DEF Read
    <2>4. post' \in [Calls -> Posts] /\ sessions' \subseteq Ids
      BY <1>13, <1>t, WokenEffects DEF Read
    <2>. QED
      BY <1>13, <2>3, <2>4 DEF Read, Shaped, hubVars, wire
  <1>14. ASSUME NEW i \in Ids, Deliver(i)
         PROVE  Shaped'
    <2>1. hand[i] \in Frames
      BY <1>14, <1>t DEF Deliver
    <2>2. inbound' \in Seq(Frames) /\ hand' \in [Ids -> Frames \cup {Nothing}]
      BY <1>14, <1>t, <2>1 DEF Deliver
    <2>. QED
      BY <1>14, <2>2 DEF Deliver, Shaped, hubVars, server
  <1>15. ASSUME NEW i \in Ids, TaskStops(i) \/ StreamBreaks(i) \/ StreamRefused(i)
         PROVE  Shaped'
    <2>1. TaskEnds(i) /\ UNCHANGED <<hubVars, out, inbound, pump, post, server>>
      BY <1>15 DEF TaskStops, StreamBreaks, StreamRefused, wire
    <2>2. (dead' = dead \/ dead' = TRUE) /\ breaks' \in Nat
      BY <1>15, <1>t DEF TaskStops, StreamBreaks, StreamRefused, wire
    <2>3. /\ task' \in [Ids -> TaskStates] /\ hand' \in [Ids -> Frames \cup {Nothing}]
          /\ sessions' \subseteq Ids
      BY <1>t, <2>1 DEF TaskEnds, TaskStates
    <2>. QED
      BY <2>1, <2>2, <2>3 DEF Shaped, hubVars, server
  <1>16. ASSUME NEW i \in Ids, TurnAway(i)
         PROVE  Shaped'
    BY <1>16 DEF TurnAway, Shaped, BodyStates, hubVars, wire, reader
  <1>17. ASSUME NEW i \in Ids, Open(i)
         PROVE  Shaped'
    <2>1. <<"welcome", i>> \in Frames /\ <<"error", i>> \in Frames
      BY <1>1 DEF Kinds
    <2>2. /\ <<<<"welcome", i>>>> \in Seq(Frames)
          /\ <<<<"welcome", i>>, <<"error", i>>>> \in Seq(Frames)
      BY <2>1
    <2>3. outbox' \in [Ids -> Seq(Frames)]
      BY <1>17, <1>t, <2>2 DEF Open, Refusal
    <2>4. granted' \in [Ids -> Nat]
      <3>1. \/ granted' = [granted EXCEPT ![i] = Window]
            \/ granted' = granted
        BY <1>17 DEF Open
      <3>2. Window \in Nat /\ granted \in [Ids -> Nat]
        BY <1>t, HttpAssumption
      <3>. QED
        BY <3>1, <3>2
    <2>5. stream' \in [Ids -> StreamStates] /\ body' \in [Ids -> BodyStates]
      BY <1>17, <1>t DEF Open, StreamStates, BodyStates
    <2>. QED
      BY <1>17, <2>3, <2>4, <2>5 DEF Open, Shaped, hubVars, wire, reader
  <1>18. ASSUME NEW i \in Ids, Push(i) \/ Finish(i)
         PROVE  Shaped'
    <2>1. <<"record", i>> \in Frames /\ <<"end", i>> \in Frames
      BY <1>1 DEF Kinds
    <2>2. \A f \in Frames : Append(outbox[i], f) \in Seq(Frames)
      BY <1>t
    <2>3. outbox' \in [Ids -> Seq(Frames)]
      BY <1>18, <1>t, <2>1, <2>2 DEF Push, Finish
    <2>4. sent' \in [Ids -> Nat]
      <3>1. sent' = sent \/ sent' = [sent EXCEPT ![i] = @ + 1]
        BY <1>18 DEF Push, Finish
      <3>. QED
        <4>1. [sent EXCEPT ![i] = @ + 1] \in [Ids -> Nat]
          BY <1>t, Bumped
        <4>. QED
          BY <1>t, <3>1, <4>1
    <2>5. stream' \in [Ids -> StreamStates]
      BY <1>18, <1>t DEF Push, Finish, StreamStates
    <2>. QED
      BY <1>18, <2>3, <2>4, <2>5 DEF Push, Finish, Shaped, hubVars, wire, reader
  <1>19. ASSUME NEW i \in Ids, BodyDrops(i)
         PROVE  Shaped'
    <2>1. /\ outbox' \in [Ids -> Seq(Frames)] /\ stream' \in [Ids -> StreamStates]
          /\ body' \in [Ids -> BodyStates] /\ table' \subseteq Ids
      BY <1>19, <1>t DEF BodyDrops, Unregister, StreamStates, BodyStates
    <2>. QED
      BY <1>19, <2>1 DEF BodyDrops, Shaped, hubVars, wire, reader
  <1>20. CASE UNCHANGED vars
    BY <1>20 DEF vars, hubVars, wire, reader, server, Shaped
  <1>. QED
    BY <1>2, <1>3, <1>4, <1>5, <1>6, <1>7, <1>8, <1>9, <1>10, <1>11, <1>12, <1>13, <1>14,
       <1>15, <1>16, <1>17, <1>18, <1>19, <1>20 DEF Next, Reader, Session, Call

-----------------------------------------------------------------------------
(* Bodies, sessions and streams. *)

\* A step that leaves a stream's body and what belongs to it alone.
LEMMA OpenedFrame ==
    ASSUME Opened, UNCHANGED <<task, sessions, hand, table, body, sent, outbox>>,
           \A i \in Ids : stream'[i] = stream[i] \/ (stream[i] = "live" /\ stream'[i] # "none")
    PROVE  Opened'
  BY DEF Opened

\* Who steers a stream finds it live, in an open body.
LEMMA OpenedServe ==
    ASSUME Shaped, Opened, NEW r \in Calls, ServeCall(r)
    PROVE  Opened'
  <1>1. UNCHANGED <<task, sessions, hand, table, body, sent, outbox>>
    BY DEF ServeCall, reader
  <1>2. CASE stream' = stream
    BY <1>1, <1>2, OpenedFrame
  <1>3. CASE Found(r) /\ stream' = [stream EXCEPT ![r[2]] = "cancelled"]
    <2>1. r[2] \in Ids /\ r[2] \in table /\ stream[r[2]] = "live"
      BY <1>3 DEF Found, Shaped
    <2>2. \A i \in Ids : stream'[i] = IF i = r[2] THEN "cancelled" ELSE stream[i]
      BY <1>3 DEF Shaped
    <2>3. body[r[2]] = "open"
      BY <2>1 DEF Opened
    <2>. QED
      BY <1>1, <2>1, <2>2, <2>3 DEF Opened
  <1>. QED
    BY <1>2, <1>3 DEF ServeCall

\* Every step keeps bodies, sessions and streams in step.
LEMMA OpenedNext ==
    ASSUME Shaped, Once, Opened, [Next]_vars
    PROVE  Opened'
  <1>1. /\ task \in [Ids -> TaskStates] /\ hand \in [Ids -> Frames \cup {Nothing}]
        /\ body \in [Ids -> BodyStates] /\ stream \in [Ids -> StreamStates]
        /\ sent \in [Ids -> Nat] /\ outbox \in [Ids -> Seq(Frames)]
        /\ sessions \subseteq Ids /\ table \subseteq Ids
    BY DEF Shaped
  <1>2. ASSUME UNCHANGED <<task, sessions, hand, table, body, sent, outbox, stream>>
        PROVE  Opened'
    BY <1>2, OpenedFrame
  <1>3. ASSUME NEW i \in Ids, Subscribe(i)
        PROVE  Opened'
    BY <1>2, <1>3 DEF Subscribe, reader, server
  <1>4. ASSUME NEW r \in Calls,
               Fire(r) \/ Wait(r) \/ CallReturns(r) \/ CallRefused(r) \/ CallBreaks(r)
        PROVE  Opened'
    BY <1>2, <1>4 DEF Fire, Wait, Register, Look, Sleep, WaitExpires, CallReturns,
       CallRefused, CallBreaks, reader, server
  <1>5. CASE HubRecv \/ HubDrop \/ PumpStop
    BY <1>2, <1>5 DEF HubRecv, HubDrop, PumpStop, reader, server
  <1>6. CASE PumpTake
    <2>0. UNCHANGED <<sessions, hand, table, body, sent, outbox, stream>>
      BY <1>6 DEF PumpTake, server
    <2>1. CASE Head(out) \in Calls
      BY <1>2, <1>6, <2>0, <2>1, TakeEffects
    <2>2. CASE Head(out) \notin Calls
      <3>1. /\ Head(out)[2] \in Ids /\ task' = [task EXCEPT ![Head(out)[2]] = "connecting"]
            /\ out # <<>> /\ out \in Seq(Requests)
        BY <1>6, <2>2, TakeEffects DEF Shaped
      <3>2. 1 \in DOMAIN out /\ Head(out) = out[1]
        BY <3>1
      <3>3. task[Head(out)[2]] = "none"
        BY <2>2, <3>2 DEF Once
      <3>. QED
        BY <1>1, <2>0, <3>1, <3>3 DEF Opened
    <2>. QED
      BY <2>1, <2>2
  <1>7. ASSUME NEW r \in Calls, ServeCall(r)
        PROVE  Opened'
    BY <1>7, OpenedServe
  <1>8. ASSUME NEW i \in Ids, Connect(i)
        PROVE  Opened'
    BY <1>1, <1>8 DEF Connect, Opened
  <1>9. ASSUME NEW i \in Ids, Read(i)
        PROVE  Opened'
    <2>1. /\ body[i] = "open" /\ outbox[i] # <<>> /\ outbox[i] \in Seq(Frames)
          /\ hand' = [hand EXCEPT ![i] = Head(outbox[i])]
          /\ outbox' = [outbox EXCEPT ![i] = Tail(outbox[i])]
          /\ sessions' \subseteq sessions \cup {i}
          /\ UNCHANGED <<task, table, body, stream, sent>>
      BY <1>1, <1>9 DEF Read
    <2>2. /\ 1 \in DOMAIN outbox[i] /\ Head(outbox[i]) = outbox[i][1]
          /\ \A k \in DOMAIN Tail(outbox[i]) :
                k + 1 \in DOMAIN outbox[i] /\ Tail(outbox[i])[k] = outbox[i][k + 1]
      BY <2>1
    <2>3. Head(outbox[i])[2] = i /\ \A k \in DOMAIN Tail(outbox[i]) : Tail(outbox[i])[k][2] = i
      BY <2>2 DEF Opened
    <2>. QED
      BY <1>1, <2>1, <2>3 DEF Opened
  <1>10. ASSUME NEW i \in Ids, Deliver(i)
         PROVE  Opened'
    BY <1>1, <1>10 DEF Deliver, Opened, server
  <1>11. ASSUME NEW i \in Ids, TaskStops(i) \/ StreamBreaks(i) \/ StreamRefused(i)
         PROVE  Opened'
    <2>1. TaskEnds(i) /\ UNCHANGED server
      BY <1>11 DEF TaskStops, StreamBreaks, StreamRefused
    <2>. QED
      BY <1>1, <2>1 DEF TaskEnds, Opened, server
  <1>12. ASSUME NEW i \in Ids, TurnAway(i)
         PROVE  Opened'
    BY <1>1, <1>12 DEF TurnAway, Opened, reader
  <1>13. ASSUME NEW i \in Ids, Open(i)
         PROVE  Opened'
    <2>1. /\ body[i] = "asked"
          /\ \/ /\ body' = [body EXCEPT ![i] = "open"]
                /\ stream' = [stream EXCEPT ![i] = "live"] \/ stream' = stream
             \/ body' = [body EXCEPT ![i] = "stuck"] /\ stream' = stream
          /\ table' = table \cup {i} /\ UNCHANGED <<task, hand, sessions, sent>>
          /\ \/ outbox' = [outbox EXCEPT ![i] = <<<<"welcome", i>>>>]
             \/ outbox' = [outbox EXCEPT ![i] = <<<<"welcome", i>>, <<"error", i>>>>]
      BY <1>13 DEF Open, Refusal, reader
    <2>2. \A j \in Ids : \A k \in DOMAIN outbox'[j] : outbox'[j][k][2] = j
      <3>. DEFINE one == <<<<"welcome", i>>>>
                  two == <<<<"welcome", i>>, <<"error", i>>>>
      <3>1. /\ \A k \in DOMAIN one : one[k][2] = i
            /\ \A k \in DOMAIN two : two[k][2] = i
        OBVIOUS
      <3>. HIDE DEF one, two
      <3>2. \/ outbox' = [outbox EXCEPT ![i] = one]
            \/ outbox' = [outbox EXCEPT ![i] = two]
        BY <2>1 DEF one, two
      <3>3. ASSUME NEW j \in Ids, j # i
            PROVE  outbox'[j] = outbox[j]
        BY <1>1, <3>2, <3>3
      <3>4. outbox'[i] = one \/ outbox'[i] = two
        BY <1>1, <3>2
      <3>. QED
        BY <3>1, <3>3, <3>4 DEF Opened
    <2>3. /\ \A j \in Ids \ {i} : body'[j] = body[j] /\ stream'[j] = stream[j]
                                   /\ outbox'[j] = outbox[j]
          /\ body'[i] = "open" \/ (body'[i] = "stuck" /\ stream'[i] = stream[i])
      <3>1. CASE /\ body' = [body EXCEPT ![i] = "open"]
                 /\ stream' = [stream EXCEPT ![i] = "live"] \/ stream' = stream
        BY <1>1, <2>1, <3>1
      <3>2. CASE body' = [body EXCEPT ![i] = "stuck"] /\ stream' = stream
        BY <1>1, <2>1, <3>2
      <3>. QED
        BY <2>1, <3>1, <3>2
    <2>4. stream[i] = "none" /\ sent[i] = 0 /\ i \notin sessions
          /\ task[i] \notin {"none", "connecting"}
      BY <2>1 DEF Opened
    <2>5. UNCHANGED <<task, hand, sessions, sent>> /\ table' = table \cup {i}
      BY <2>1
    <2>. QED
      BY <2>2, <2>3, <2>4, <2>5 DEF Opened
  <1>14. ASSUME NEW i \in Ids, Push(i) \/ Finish(i)
         PROVE  Opened'
    <2>1. /\ stream[i] \in {"live", "cancelled"}
          /\ \E k \in {"record", "end"} :
                outbox' = [outbox EXCEPT ![i] = Append(outbox[i], <<k, i>>)]
          /\ \A j \in Ids \ {i} : sent'[j] = sent[j] /\ stream'[j] = stream[j]
          /\ stream'[i] # "none"
          /\ UNCHANGED <<task, sessions, hand, table, body>>
      BY <1>1, <1>14 DEF Push, Finish, reader
    <2>2. body[i] = "open"
      <3>1. body[i] \in BodyStates
        BY <1>1
      <3>2. /\ body[i] \in {"none", "asked", "refused", "stuck"} => stream[i] = "none"
            /\ body[i] = "dropped" => stream[i] = "ended"
        BY DEF Opened
      <3>. QED
        BY <2>1, <3>1, <3>2 DEF BodyStates
    <2>3. \A j \in Ids : \A k \in DOMAIN outbox'[j] : outbox'[j][k][2] = j
      <3>1. outbox[i] \in Seq(Frames)
        BY <1>1
      <3>3. ASSUME NEW x \in {"record", "end"}, NEW k \in DOMAIN Append(outbox[i], <<x, i>>)
            PROVE  Append(outbox[i], <<x, i>>)[k][2] = i
        BY <3>1, <3>3 DEF Opened
      <3>. QED
        BY <1>1, <2>1, <3>3 DEF Opened
    <2>. QED
      BY <1>1, <2>1, <2>2, <2>3 DEF Opened
  <1>15. ASSUME NEW i \in Ids, BodyDrops(i)
         PROVE  Opened'
    <2>1. /\ body[i] = "open" /\ body' = [body EXCEPT ![i] = "dropped"]
          /\ task[i] = "done" /\ table' = table \ {i}
          /\ stream' = [stream EXCEPT ![i] = "ended"]
          /\ outbox' = [outbox EXCEPT ![i] = <<>>]
          /\ UNCHANGED <<task, sessions, hand, sent>>
      BY <1>15 DEF BodyDrops, Unregister, reader
    <2>. QED
      BY <1>1, <2>1 DEF Opened
  <1>16. CASE UNCHANGED vars
    BY <1>2, <1>16 DEF vars, reader, server
  <1>. QED
    BY <1>3, <1>4, <1>5, <1>6, <1>7, <1>8, <1>9, <1>10, <1>11, <1>12, <1>13, <1>14, <1>15,
       <1>16 DEF Next, Reader, Session, Call

-----------------------------------------------------------------------------
(* Requests on their way to the pump. *)

\* A step that leaves the channel and the readers alone.
LEMMA OnceFrame ==
    ASSUME Shaped, Once, UNCHANGED <<out, task>>,
           \A i \in Ids : hub[i] # "none" => hub'[i] # "none",
           \A i \in Ids : hub'[i] = "none" => hub[i] = "none",
           \A r \in Calls : post[r].st = "queued" => post'[r].st = "queued"
    PROVE  Once'
  <1>1. \A k \in DOMAIN out : out[k] \notin Calls => out[k][2] \in Ids
    BY RequestShape DEF Shaped
  <1>. QED
    BY <1>1 DEF Once

\* A request that is sent was not on its way before.
LEMMA OnceJoins ==
    ASSUME Shaped, Once, NEW r \in Requests, out' = Append(out, r), task' = task,
           \A k \in DOMAIN out : out[k] # r,
           \A i \in Ids : hub[i] # "none" => hub'[i] # "none",
           \A i \in Ids : hub'[i] = "none" => hub[i] = "none",
           \A q \in Calls : post[q].st = "queued" => post'[q].st = "queued",
           r \in Calls => post'[r].st = "queued",
           r \notin Calls => hub'[r[2]] # "none" /\ task[r[2]] = "none"
    PROVE  Once'
  <1>1. out \in Seq(Requests) /\ Len(out) \in Nat
    BY DEF Shaped
  <1>2. /\ DOMAIN out = 1..Len(out) /\ DOMAIN out' = 1..(Len(out) + 1)
        /\ \A k \in 1..Len(out) : out'[k] = out[k]
        /\ out'[Len(out) + 1] = r
    BY <1>1
  <1>3. ASSUME NEW j \in DOMAIN out', NEW k \in DOMAIN out', out'[j] = out'[k]
        PROVE  j = k
    BY <1>1, <1>2, <1>3 DEF Once
  <1>4. ASSUME NEW k \in DOMAIN out'
        PROVE  /\ out'[k] \in Calls => post'[out'[k]].st = "queued"
               /\ out'[k] \notin Calls =>
                     hub'[out'[k][2]] # "none" /\ task'[out'[k][2]] = "none"
    <2>1. CASE k \in DOMAIN out
      <3>1. out'[k] = out[k] /\ out[k] \in Requests
        BY <1>1, <1>2, <2>1
      <3>2. out[k] \notin Calls => out[k][2] \in Ids
        BY <3>1, RequestShape
      <3>. QED
        BY <2>1, <3>1, <3>2 DEF Once
    <2>2. CASE k \notin DOMAIN out
      <3>1. k = Len(out) + 1
        BY <1>1, <1>2, <2>2
      <3>. QED
        BY <1>2, <3>1
    <2>. QED
      BY <2>1, <2>2
  <1>5. \A i \in Ids : hub'[i] = "none" => task'[i] = "none"
    BY DEF Once
  <1>. QED
    BY <1>3, <1>4, <1>5 DEF Once

\* The pump takes a request, which is then nowhere on its way.
LEMMA OnceTake ==
    ASSUME Shaped, Once, PumpTake
    PROVE  Once'
  <1>1. out \in Seq(Requests) /\ out # <<>> /\ out' = Tail(out) /\ hub' = hub
    BY DEF Shaped, PumpTake, hubVars
  <1>2. /\ 1 \in DOMAIN out /\ Head(out) = out[1]
        /\ \A k \in DOMAIN out' : k + 1 \in DOMAIN out /\ out'[k] = out[k + 1] /\ k \in Nat
        /\ \A k \in DOMAIN out' : k + 1 # 1
    BY <1>1
  <1>3. \A k \in DOMAIN out' : out'[k] # Head(out) /\ out'[k] \in Requests
    BY <1>1, <1>2 DEF Once
  <1>4. ASSUME NEW j \in DOMAIN out', NEW k \in DOMAIN out', out'[j] = out'[k]
        PROVE  j = k
    <2>1. j + 1 = k + 1
      BY <1>2, <1>4 DEF Once
    <2>. QED
      BY <1>2, <2>1
  <1>5. ASSUME NEW k \in DOMAIN out'
        PROVE  /\ out'[k] \in Calls => post'[out'[k]].st = "queued"
               /\ out'[k] \notin Calls =>
                     hub'[out'[k][2]] # "none" /\ task'[out'[k][2]] = "none"
    <2>1. /\ out'[k] \in Calls => post[out'[k]].st = "queued"
          /\ out'[k] \notin Calls => hub[out'[k][2]] # "none" /\ task[out'[k][2]] = "none"
      BY <1>2 DEF Once
    <2>2. out'[k] \in Calls => post'[out'[k]] = post[out'[k]]
      BY <1>3, TakeEffects DEF Moved
    <2>3. ASSUME out'[k] \notin Calls
          PROVE  task'[out'[k][2]] = task[out'[k][2]]
      <3>1. out'[k] = <<"subscribe", out'[k][2]>> /\ out'[k][2] \in Ids
        BY <1>3, <2>3, RequestShape
      <3>2. CASE Head(out) \in Calls
        BY <3>2, TakeEffects
      <3>3. CASE Head(out) \notin Calls
        <4>1. Head(out)[2] # out'[k][2]
          BY <1>3, <3>1, <3>3, TakeEffects
        <4>. QED
          BY <3>1, <3>3, <4>1, TakeEffects DEF Shaped
      <3>. QED
        BY <3>2, <3>3
    <2>. QED
      BY <1>1, <2>1, <2>2, <2>3
  <1>6. ASSUME NEW i \in Ids, hub'[i] = "none"
        PROVE  task'[i] = "none"
    <2>1. task[i] = "none"
      BY <1>1, <1>6 DEF Once
    <2>2. CASE Head(out) \in Calls
      BY <2>1, <2>2, TakeEffects
    <2>3. CASE Head(out) \notin Calls
      <3>1. hub[Head(out)[2]] # "none"
        BY <1>2, <2>3 DEF Once
      <3>2. Head(out)[2] # i
        BY <1>1, <1>6, <3>1
      <3>. QED
        BY <2>1, <2>3, <3>2, TakeEffects DEF Shaped
    <2>. QED
      BY <2>2, <2>3
  <1>. QED
    BY <1>4, <1>5, <1>6 DEF Once

\* No request is sent twice, nor taken twice.
LEMMA OnceNext ==
    ASSUME Shaped, Once, [Next]_vars
    PROVE  Once'
  <1>1. /\ task \in [Ids -> TaskStates] /\ hub \in [Ids -> HubStates]
        /\ post \in [Calls -> Posts] /\ out \in Seq(Requests)
    BY DEF Shaped
  <1>2. ASSUME UNCHANGED <<out, task, hub, post>>
        PROVE  Once'
    BY <1>2, OnceFrame
  <1>3. ASSUME NEW i \in Ids, Subscribe(i)
        PROVE  Once'
    <2>. DEFINE r == <<"subscribe", i>>
    <2>1. /\ hub[i] = "none" /\ hub' = [hub EXCEPT ![i] = "open"] /\ out' = Append(out, r)
          /\ UNCHANGED <<task, post>>
      BY <1>3 DEF Subscribe, reader
    <2>2. r \in Requests /\ r \notin Calls /\ r[2] = i
      BY CallShape DEF Requests
    <2>. HIDE DEF r
    <2>3. \A k \in DOMAIN out : out[k] # r
      BY <2>1, <2>2 DEF Once
    <2>4. task[i] = "none" /\ hub'[i] # "none"
      BY <1>1, <2>1 DEF Once
    <2>5. /\ \A j \in Ids : hub[j] # "none" => hub'[j] # "none"
          /\ \A j \in Ids : hub'[j] = "none" => hub[j] = "none"
      BY <1>1, <2>1
    <2>. QED
      BY <2>1, <2>2, <2>3, <2>4, <2>5, OnceJoins
  <1>4. ASSUME NEW r \in Calls, Fire(r)
        PROVE  Once'
    <2>1. post[r].st = "idle" /\ out' = Append(out, r) /\ task' = task
      BY <1>4 DEF Fire, reader
    <2>2. /\ \A j \in Ids : hub[j] # "none" => hub'[j] # "none"
          /\ \A j \in Ids : hub'[j] = "none" => hub[j] = "none"
      BY <1>1, <1>4 DEF Fire, Wants
    <2>3. /\ post'[r].st = "queued"
          /\ \A q \in Calls : post[q].st = "queued" => post'[q].st = "queued"
      BY <1>4, CallEffects DEF Moved
    <2>4. \A k \in DOMAIN out : out[k] # r
      BY <2>1 DEF Once
    <2>5. r \in Requests
      BY DEF Requests
    <2>. QED
      BY <2>1, <2>2, <2>3, <2>4, <2>5, OnceJoins
  <1>5. CASE HubRecv
    <2>1. UNCHANGED <<out, task, post>>
      BY <1>5 DEF HubRecv, reader
    <2>2. \A i \in Ids : hub'[i] = hub[i] \/ (hub[i] = "open" /\ hub'[i] = "ended")
      BY <1>1, <1>5 DEF HubRecv
    <2>. QED
      BY <2>1, <2>2, OnceFrame
  <1>6. CASE HubDrop
    BY <1>2, <1>6 DEF HubDrop, reader
  <1>7. CASE PumpTake
    BY <1>7, OnceTake
  <1>8. CASE PumpStop
    BY <1>8 DEF PumpStop, Once, hubVars, reader
  <1>9. ASSUME NEW r \in Calls, Wait(r) \/ Call(r) \/ CallBreaks(r)
        PROVE  Once'
    <2>1. post[r].st # "queued" /\ UNCHANGED <<out, task, hub>>
      BY <1>9 DEF Wait, Call, Register, Look, Sleep, WaitExpires, Waiting, ServeCall,
         CallReturns, CallRefused, CallBreaks, hubVars, wire, reader
    <2>2. \A q \in Calls : q # r => post'[q] = post[q]
      BY <1>9, CallEffects DEF Wait, Call, Moved
    <2>. QED
      BY <2>1, <2>2, OnceFrame
  <1>10. ASSUME NEW i \in Ids, Connect(i) \/ TaskStops(i) \/ StreamBreaks(i) \/ StreamRefused(i)
         PROVE  Once'
    <2>1. /\ task[i] \in {"connecting", "reading"}
          /\ \A j \in Ids : j # i => task'[j] = task[j]
          /\ UNCHANGED <<out, hub, post>>
      BY <1>1, <1>10 DEF Connect, TaskStops, StreamBreaks, StreamRefused, TaskEnds, hubVars,
         wire
    <2>2. \A k \in DOMAIN out : out[k] \notin Calls => out[k][2] \in Ids
      BY <1>1, RequestShape
    <2>. QED
      BY <2>1, <2>2 DEF Once
  <1>11. ASSUME NEW i \in Ids, Read(i)
         PROVE  Once'
    <2>1. UNCHANGED <<out, task, hub>> /\ (post' = post \/ post' = Woken)
      BY <1>11 DEF Read, hubVars, wire
    <2>2. \A q \in Calls : post[q].st = "queued" => post'[q].st = "queued"
      BY <1>1, <2>1, WokenEffects DEF Registered
    <2>. QED
      BY <2>1, <2>2, OnceFrame
  <1>12. ASSUME NEW i \in Ids, Deliver(i) \/ TurnAway(i) \/ Session(i) \/ Finish(i)
         PROVE  Once'
    BY <1>2, <1>12 DEF Deliver, TurnAway, Session, Open, Push, BodyDrops, Finish, hubVars,
       wire, reader
  <1>13. CASE UNCHANGED vars
    BY <1>2, <1>13 DEF vars, hubVars, wire, reader
  <1>. QED
    BY <1>3, <1>4, <1>5, <1>6, <1>7, <1>8, <1>9, <1>10, <1>11, <1>12, <1>13
       DEF Next, Reader

-----------------------------------------------------------------------------
(* Steering calls. *)

\* A step that leaves the calls and the sessions alone, and no body unopened.
LEMMA SteeringFrame ==
    ASSUME Steering, post' = post, sessions' \subseteq sessions,
           \A i \in Ids : body[i] \in {"open", "dropped"} => body'[i] \in {"open", "dropped"}
    PROVE  Steering'
  BY DEF Steering, Steered

\* The step of one call.
LEMMA SteeringMoves ==
    ASSUME Steering, NEW r \in Calls, UNCHANGED <<sessions, body>>,
           \A q \in Calls : q # r => post'[q] = post[q], Steered(r)'
    PROVE  Steering'
  BY DEF Steering, Steered

\* No call goes out without a name before its wait expired, nor sleeps past its session.
LEMMA SteeringNext ==
    ASSUME Shaped, Once, Opened, Steering, [Next]_vars
    PROVE  Steering'
  <1>1. /\ post \in [Calls -> Posts] /\ body \in [Ids -> BodyStates] /\ sessions \subseteq Ids
        /\ \A r \in Calls : /\ post[r].st \in Steps /\ post[r].named \in BOOLEAN
                            /\ post[r].late \in BOOLEAN
    BY DEF Shaped, Posts
  <1>2. ASSUME UNCHANGED <<post, sessions, body>>
        PROVE  Steering'
    BY <1>2, SteeringFrame
  <1>3. ASSUME NEW i \in Ids, Subscribe(i) \/ Deliver(i) \/ Push(i) \/ Finish(i)
        PROVE  Steering'
    BY <1>2, <1>3 DEF Subscribe, Deliver, Push, Finish, reader, server
  <1>4. CASE HubRecv \/ HubDrop \/ UNCHANGED vars
    BY <1>2, <1>4 DEF HubRecv, HubDrop, vars, reader, server
  <1>5. ASSUME NEW r \in Calls, Fire(r)
        PROVE  Steering'
    <2>1. /\ post[r].st = "idle" /\ UNCHANGED <<sessions, body>>
          /\ Moved(r, "queued", post[r].named, post[r].late, post[r].ok)
      BY <1>5, CallEffects DEF Fire, reader, server
    <2>2. Steered(r)'
      BY <2>1 DEF Steering, Steered, Moved, Waiting, Registered
    <2>. QED
      BY <2>1, <2>2, SteeringMoves DEF Moved
  <1>6. CASE PumpTake
    <2>1. UNCHANGED <<sessions, body>>
      BY <1>6 DEF PumpTake, server
    <2>2. CASE Head(out) \in Calls
      <3>0. PICK r \in Calls : r = Head(out)
        BY <2>2
      <3>1. /\ out # <<>> /\ out \in Seq(Requests)
            /\ Moved(r, IF NeedsSession(r) THEN "register" ELSE "posting", post[r].named,
                     post[r].late, post[r].ok)
        BY <1>6, <2>2, <3>0, TakeEffects DEF Shaped
      <3>2. 1 \in DOMAIN out /\ r = out[1]
        BY <3>0, <3>1
      <3>3. post[r].st = "queued"
        BY <3>2 DEF Once
      <3>4. NeedsSession(r) <=> r[1] # "call"
        BY CallShape DEF NeedsSession
      <3>6. CASE r[1] # "call"
        <4>1. Moved(r, "register", post[r].named, post[r].late, post[r].ok)
          BY <3>1, <3>4, <3>6
        <4>2. Steered(r)'
          BY <2>1, <3>3, <4>1 DEF Steering, Steered, Moved, Waiting, Registered
        <4>. QED
          BY <2>1, <4>1, <4>2, SteeringMoves DEF Moved
      <3>7. CASE r[1] = "call"
        <4>1. Moved(r, "posting", post[r].named, post[r].late, post[r].ok)
          BY <3>1, <3>4, <3>7
        <4>2. Steered(r)'
          BY <2>1, <3>3, <3>7, <4>1 DEF Steering, Steered, Moved, Waiting, Registered
        <4>. QED
          BY <2>1, <4>1, <4>2, SteeringMoves DEF Moved
      <3>. QED
        BY <3>6, <3>7
    <2>3. CASE Head(out) \notin Calls
      BY <1>2, <1>6, <2>1, <2>3, TakeEffects
    <2>. QED
      BY <2>2, <2>3
  <1>7. CASE PumpStop
    <2>1. UNCHANGED <<sessions, body>>
      BY <1>7 DEF PumpStop, reader, server
    <2>2. ASSUME NEW r \in Calls
          PROVE  Steered(r)'
      <3>1. CASE post[r].st = "queued"
        BY <1>1, <1>7, <2>1, <3>1, StopEffects DEF Steering, Steered, Waiting, Registered
      <3>2. CASE post[r].st # "queued"
        <4>1. post'[r] = post[r]
          BY <1>1, <1>7, <3>2, StopEffects
        <4>. QED
          BY <2>1, <4>1 DEF Steering, Steered
      <3>. QED
        BY <3>1, <3>2
    <2>. QED
      BY <2>2 DEF Steering
  <1>8. ASSUME NEW r \in Calls, Register(r) \/ Look(r) \/ Sleep(r) \/ WaitExpires(r)
        PROVE  Steering'
    <2>1. post[r].st \in Waiting /\ UNCHANGED <<sessions, body>>
          /\ ~post[r].named /\ ~post[r].late
      BY <1>8 DEF Register, Look, Sleep, WaitExpires, Waiting, reader, server, Steering, Steered
    <2>2. CASE Register(r)
      <3>1. Steered(r)'
        BY <2>1, <2>2, CallEffects DEF Steered, Moved, Registered
      <3>. QED
        BY <2>1, <2>2, <3>1, CallEffects, SteeringMoves DEF Moved
    <2>3. CASE Look(r) /\ r[2] \in sessions
      <3>1. Moved(r, "posting", TRUE, post[r].late, post[r].ok)
        BY <2>3, CallEffects
      <3>2. r[2] \in Ids /\ r[1] # "call" /\ body[r[2]] \in {"open", "dropped"}
        BY <1>1, <2>3, CallShape, HttpAssumption DEF Opened
      <3>3. Steered(r)'
        BY <2>1, <3>1, <3>2 DEF Steered, Moved, Waiting, Registered
      <3>. QED
        BY <2>1, <3>1, <3>3, SteeringMoves DEF Moved
    <2>4. CASE Look(r) /\ r[2] \notin sessions
      <3>1. Moved(r, "missed", post[r].named, post[r].late, post[r].ok)
        BY <2>4, CallEffects
      <3>2. Steered(r)'
        BY <2>1, <2>4, <3>1 DEF Steered, Moved
      <3>. QED
        BY <2>1, <3>1, <3>2, SteeringMoves DEF Moved
    <2>5. CASE Sleep(r)
      <3>1. r[2] \notin sessions
        BY <2>5 DEF Sleep, Steering, Steered, Registered
      <3>2. Steered(r)'
        BY <2>1, <2>5, <3>1, CallEffects DEF Steered, Moved
      <3>. QED
        BY <2>1, <2>5, <3>2, CallEffects, SteeringMoves DEF Moved
    <2>6. CASE WaitExpires(r)
      <3>1. Steered(r)'
        BY <2>1, <2>6, CallEffects DEF Steered, Moved, Waiting, Registered
      <3>. QED
        BY <2>1, <2>6, <3>1, CallEffects, SteeringMoves DEF Moved
    <2>. QED
      BY <1>8, <2>2, <2>3, <2>4, <2>5, <2>6
  <1>9. ASSUME NEW r \in Calls,
               ServeCall(r) \/ CallReturns(r) \/ CallRefused(r) \/ CallBreaks(r)
        PROVE  Steering'
    <2>1. /\ post[r].st \in {"posting", "replied"} /\ UNCHANGED <<sessions, body>>
          /\ ServeCall(r) => post[r].st = "posting"
      BY <1>9 DEF ServeCall, CallReturns, CallRefused, CallBreaks, reader, server
    <2>2. PICK st \in {"replied", "done"}, ok \in BOOLEAN :
             Moved(r, st, post[r].named, post[r].late, ok)
      <3>1. (r[1] = "call" \/ Found(r)) \in BOOLEAN /\ post[r].ok \in BOOLEAN
        BY DEF Found, Shaped, Posts
      <3>. QED
        BY <1>9, <3>1, CallEffects
    <2>3. Steered(r)'
      BY <2>1, <2>2 DEF Steering, Steered, Moved, Waiting, Registered
    <2>. QED
      BY <2>1, <2>2, <2>3, SteeringMoves DEF Moved
  <1>10. ASSUME NEW i \in Ids, Connect(i) \/ TurnAway(i) \/ Open(i) \/ BodyDrops(i)
         PROVE  Steering'
    <2>1. post' = post /\ sessions' = sessions
      BY <1>10 DEF Connect, TurnAway, Open, BodyDrops, reader
    <2>2. \A j \in Ids : body[j] \in {"open", "dropped"} => body'[j] \in {"open", "dropped"}
      <3>1. CASE Connect(i)
        <4>1. body[i] = "none" /\ body' = [body EXCEPT ![i] = "asked"]
          BY <3>1 DEF Connect, Opened
        <4>. QED
          BY <1>1, <4>1
      <3>2. CASE TurnAway(i) \/ Open(i) \/ BodyDrops(i)
        BY <1>1, <3>2 DEF TurnAway, Open, BodyDrops
      <3>. QED
        BY <1>10, <3>1, <3>2
    <2>. QED
      BY <2>1, <2>2, SteeringFrame
  <1>11. ASSUME NEW i \in Ids, TaskStops(i) \/ StreamBreaks(i) \/ StreamRefused(i)
         PROVE  Steering'
    <2>1. post' = post /\ sessions' \subseteq sessions /\ body' = body
      BY <1>11 DEF TaskStops, StreamBreaks, StreamRefused, TaskEnds, server
    <2>. QED
      BY <2>1, SteeringFrame
  <1>12. ASSUME NEW i \in Ids, Read(i)
         PROVE  Steering'
    <2>1. body' = body
      BY <1>12 DEF Read
    <2>2. CASE UNCHANGED <<sessions, post>>
      BY <1>2, <2>1, <2>2
    <2>3. CASE post' = Woken
      <3>1. ASSUME NEW r \in Calls
            PROVE  Steered(r)'
        <4>1. CASE post[r].st \in Registered
          BY <1>1, <2>1, <2>3, <4>1, WokenEffects DEF Steering, Steered, Waiting, Registered
        <4>2. CASE post[r].st \notin Registered
          <5>1. post'[r] = post[r]
            BY <1>1, <2>3, <4>2, WokenEffects
          <5>. QED
            BY <2>1, <4>2, <5>1 DEF Steering, Steered
        <4>. QED
          BY <4>1, <4>2
      <3>. QED
        BY <3>1 DEF Steering
    <2>. QED
      BY <1>12, <2>2, <2>3 DEF Read
  <1>. QED
    BY <1>3, <1>4, <1>5, <1>6, <1>7, <1>8, <1>9, <1>10, <1>11, <1>12
       DEF Next, Reader, Session, Wait, Call

-----------------------------------------------------------------------------
(* Refused calls, and what ends. *)

\* A stream comes to life with the body its reader asked for, and never again.
LEMMA LiveOnce ==
    ASSUME Shaped, [Next]_vars, NEW i \in Ids, stream'[i] = "live"
    PROVE  stream[i] = "live" \/ body[i] = "asked"
  <1>1. stream \in [Ids -> StreamStates]
    BY DEF Shaped
  <1>2. ASSUME stream' = stream
        PROVE  stream[i] = "live"
    BY <1>2
  <1>3. ASSUME NEW j \in Ids, Open(j)
        PROVE  stream[i] = "live" \/ body[i] = "asked"
    BY <1>1, <1>3 DEF Open
  <1>4. ASSUME NEW j \in Ids, Finish(j) \/ BodyDrops(j)
        PROVE  stream[i] = "live"
    BY <1>1, <1>4 DEF Finish, BodyDrops
  <1>5. ASSUME NEW r \in Calls, ServeCall(r)
        PROVE  stream[i] = "live"
    BY <1>1, <1>5 DEF ServeCall
  <1>6. ASSUME NEW j \in Ids, \/ Subscribe(j) \/ Reader(j) \/ StreamBreaks(j) \/ Push(j)
                              \/ TurnAway(j)
        PROVE  stream' = stream
    BY <1>6 DEF Subscribe, Reader, StreamBreaks, Push, TurnAway, Connect, Read, Deliver,
       TaskStops, StreamRefused, server
  <1>7. ASSUME NEW r \in Calls,
               Fire(r) \/ Wait(r) \/ CallReturns(r) \/ CallRefused(r) \/ CallBreaks(r)
        PROVE  stream' = stream
    BY <1>7 DEF Fire, Wait, Register, Look, Sleep, WaitExpires, CallReturns, CallRefused,
       CallBreaks, server
  <1>8. CASE HubRecv \/ HubDrop \/ PumpTake \/ PumpStop \/ UNCHANGED vars
    BY <1>2, <1>8 DEF HubRecv, HubDrop, PumpTake, PumpStop, vars, server
  <1>. QED
    BY <1>2, <1>3, <1>4, <1>5, <1>6, <1>7, <1>8 DEF Next, Session, Call

\* A call is left alone, woken or lost, or takes its own step.
LEMMA CallSteps ==
    ASSUME Shaped, Once, [Next]_vars, NEW r \in Calls
    PROVE  \/ post'[r] = post[r]
           \/ post'[r].st \notin {"replied", "done"}
           \/ ServeCall(r) \/ CallReturns(r) \/ CallRefused(r) \/ CallBreaks(r)
  <1>1. post \in [Calls -> Posts]
    BY DEF Shaped
  <1>2. ASSUME NEW q \in Calls, Fire(q) \/ Wait(q)
        PROVE  post'[r] = post[r] \/ post'[r].st \notin {"replied", "done"}
    BY <1>2, CallEffects DEF Wait, Moved
  <1>3. ASSUME NEW q \in Calls, q # r, Call(q) \/ CallBreaks(q)
        PROVE  post'[r] = post[r]
    BY <1>3, CallEffects DEF Call, Moved
  <1>4. CASE PumpTake
    BY <1>4, TakeEffects DEF Moved
  <1>5. CASE PumpStop
    BY <1>1, <1>5, StopEffects
  <1>6. ASSUME NEW i \in Ids, Read(i)
        PROVE  post'[r] = post[r] \/ post'[r].st \notin {"replied", "done"}
    <2>1. post' = post \/ post' = Woken
      BY <1>6 DEF Read
    <2>. QED
      BY <1>1, <2>1, WokenEffects
  <1>7. ASSUME NEW i \in Ids, \/ Subscribe(i) \/ Connect(i) \/ Deliver(i) \/ TaskStops(i)
                              \/ StreamRefused(i) \/ StreamBreaks(i) \/ Session(i)
                              \/ Finish(i) \/ TurnAway(i)
        PROVE  post' = post
    BY <1>7 DEF Subscribe, Connect, Deliver, TaskStops, StreamRefused, StreamBreaks,
       Session, Open, Push, BodyDrops, Finish, TurnAway
  <1>8. CASE HubRecv \/ HubDrop \/ UNCHANGED vars
    BY <1>8 DEF HubRecv, HubDrop, vars
  <1>. QED
    BY <1>2, <1>3, <1>4, <1>5, <1>6, <1>7, <1>8 DEF Next, Reader, Call

\* The server refuses a call that names a session only when its stream is over,
\* and the stream stays so.
LEMMA FindsNext ==
    ASSUME Shaped, Once, Opened, Steering, SteeringFindsItsStream, [Next]_vars
    PROVE  SteeringFindsItsStream'
  <1>. SUFFICES ASSUME NEW r \in Calls, r[1] # "call", post'[r].st = "replied",
                       ~post'[r].ok, ~post'[r].late
                PROVE  stream'[r[2]] # "live"
    BY DEF SteeringFindsItsStream
  <1>1. r[2] \in Ids
    BY CallShape
  <1>2. CASE post'[r] = post[r]
    <2>1. stream[r[2]] # "live" /\ post[r].named
      BY <1>2 DEF SteeringFindsItsStream, Steering, Steered
    <2>2. body[r[2]] # "asked"
      BY <2>1 DEF Steering, Steered
    <2>. QED
      BY <1>1, <2>1, <2>2, LiveOnce
  <1>3. CASE ServeCall(r)
    <2>1. /\ post[r].st = "posting" /\ ~post[r].late /\ ~Found(r)
      BY <1>3, CallEffects DEF ServeCall, Moved
    <2>2. post[r].named /\ body[r[2]] \in {"open", "dropped"} /\ stream' = stream
      BY <1>3, <2>1 DEF ServeCall, Steering, Steered
    <2>3. r[2] \notin table \/ stream[r[2]] # "live"
      BY <2>1, <2>2 DEF Found
    <2>4. r[2] \notin table => stream[r[2]] = "ended"
      BY <1>1, <2>2 DEF Opened
    <2>. QED
      BY <2>2, <2>3, <2>4
  <1>4. ~(CallReturns(r) \/ CallRefused(r) \/ CallBreaks(r))
    BY CallEffects DEF Moved
  <1>. QED
    BY <1>2, <1>3, <1>4, CallSteps

\* A wire that died and a hub that let go stay so.
LEMMA StaysDead ==
    ASSUME [Next]_vars
    PROVE  (dead => dead') /\ (dropped => dropped')
  <1>1. ASSUME NEW i \in Ids, Subscribe(i) \/ Reader(i) \/ StreamBreaks(i) \/ Session(i)
                              \/ Finish(i) \/ TurnAway(i)
        PROVE  (dead => dead') /\ (dropped => dropped')
    BY <1>1 DEF Subscribe, Reader, StreamBreaks, Session, Finish, TurnAway, Connect, Read,
       Deliver, TaskStops, StreamRefused, Open, Push, BodyDrops, hubVars, wire
  <1>2. ASSUME NEW r \in Calls, Fire(r) \/ Wait(r) \/ Call(r)
        PROVE  (dead => dead') /\ (dropped => dropped')
    BY <1>2 DEF Fire, Wait, Call, Register, Look, Sleep, WaitExpires, ServeCall,
       CallReturns, CallRefused, hubVars, wire
  <1>3. ASSUME NEW r \in Calls, CallBreaks(r)
        PROVE  (dead => dead') /\ (dropped => dropped')
    BY <1>3, BreaksKill DEF CallBreaks, hubVars
  <1>4. CASE HubRecv \/ HubDrop \/ PumpTake \/ PumpStop \/ UNCHANGED vars
    BY <1>4 DEF HubRecv, HubDrop, PumpTake, PumpStop, vars, hubVars, wire
  <1>. QED
    BY <1>1, <1>2, <1>3, <1>4 DEF Next

\* A call that ends without its reply, and a reader that ends, leave the wire dead or
\* the hub gone.
LEMMA SilenceNext ==
    ASSUME Shaped, Once, NothingEndsInSilence, [Next]_vars
    PROVE  NothingEndsInSilence'
  <1>1. ASSUME NEW r \in Calls, post'[r].st = "done"
        PROVE  post'[r].ok \/ dead'
    <2>1. CASE post'[r] = post[r]
      BY <1>1, <2>1, StaysDead DEF NothingEndsInSilence
    <2>2. CASE ServeCall(r)
      BY <1>1, <2>2, CallEffects DEF Moved
    <2>3. CASE CallReturns(r)
      BY <2>3, CallEffects DEF Moved, CallReturns
    <2>4. CASE CallRefused(r)
      BY <2>4 DEF CallRefused
    <2>5. CASE CallBreaks(r)
      BY <2>5, BreaksKill
    <2>. QED
      BY <1>1, <2>1, <2>2, <2>3, <2>4, <2>5, CallSteps
  <1>2. ASSUME NEW i \in Ids, task'[i] = "done", task[i] # "done"
        PROVE  dead' \/ dropped'
    <2>1. task \in [Ids -> TaskStates]
      BY DEF Shaped
    <2>2. task' # task
      BY <1>2
    <2>3. ASSUME NEW j \in Ids, TaskStops(j) \/ StreamBreaks(j) \/ StreamRefused(j)
          PROVE  dead' \/ dropped'
      BY <2>3 DEF TaskStops, StopsReading, StreamBreaks, StreamRefused, wire, hubVars
    <2>4. ASSUME NEW j \in Ids
          PROVE  ~Connect(j)
      BY <1>2, <2>1 DEF Connect
    <2>5. ~PumpTake
      BY <1>2, <2>1, TakeEffects
    <2>6. ASSUME NEW j \in Ids
          PROVE  /\ ~Subscribe(j) /\ ~Read(j) /\ ~Deliver(j) /\ ~Session(j) /\ ~Finish(j)
                 /\ ~TurnAway(j)
      BY <2>2 DEF Subscribe, Read, Deliver, Session, Open, Push, BodyDrops, Finish, TurnAway,
         reader
    <2>7. ASSUME NEW r \in Calls
          PROVE  ~Fire(r) /\ ~Wait(r) /\ ~Call(r) /\ ~CallBreaks(r)
      BY <2>2 DEF Fire, Wait, Call, CallBreaks, Register, Look, Sleep, WaitExpires, ServeCall,
         CallReturns, CallRefused, reader
    <2>8. ~HubRecv /\ ~HubDrop /\ ~PumpStop /\ ~UNCHANGED vars
      BY <2>2 DEF HubRecv, HubDrop, PumpStop, vars, reader
    <2>. QED
      BY <2>3, <2>4, <2>5, <2>6, <2>7, <2>8 DEF Next, Reader
  <1>. QED
    BY <1>1, <1>2, StaysDead DEF NothingEndsInSilence

-----------------------------------------------------------------------------
(* Limits. *)

\* A call that was served or ended is not put back.
LEMMA SpentStays ==
    ASSUME Shaped, Once, [Next]_vars, NEW r \in Calls, post[r].st \in Spent
    PROVE  post'[r].st \in Spent
  <1>1. post \in [Calls -> Posts]
    BY DEF Shaped
  <1>2. ASSUME NEW q \in Calls, Fire(q) \/ Wait(q)
        PROVE  post'[r] = post[r]
    <2>1. post[q].st \notin Spent
      BY <1>2 DEF Fire, Wait, Register, Look, Sleep, WaitExpires, Waiting, Spent
    <2>. QED
      BY <1>2, <2>1, CallEffects DEF Wait, Moved
  <1>3. ASSUME NEW q \in Calls, Call(q) \/ CallBreaks(q)
        PROVE  post'[r] = post[r] \/ post'[r].st \in Spent
    BY <1>3, CallEffects DEF Call, Moved, Spent
  <1>4. CASE PumpTake
    <2>1. out # <<>> /\ out \in Seq(Requests) /\ 1 \in DOMAIN out /\ Head(out) = out[1]
      BY <1>4 DEF PumpTake, Shaped
    <2>2. Head(out) \in Calls => Head(out) # r
      BY <2>1 DEF Once, Spent
    <2>. QED
      BY <1>4, <2>2, TakeEffects DEF Moved
  <1>5. CASE PumpStop
    BY <1>1, <1>5, StopEffects DEF Spent
  <1>6. ASSUME NEW i \in Ids, Read(i)
        PROVE  post'[r] = post[r]
    <2>1. post' = post \/ post' = Woken
      BY <1>6 DEF Read
    <2>. QED
      BY <1>1, <2>1, WokenEffects DEF Registered, Spent
  <1>7. ASSUME NEW i \in Ids, \/ Subscribe(i) \/ Connect(i) \/ Deliver(i) \/ TaskStops(i)
                              \/ StreamRefused(i) \/ StreamBreaks(i) \/ Session(i)
                              \/ Finish(i) \/ TurnAway(i)
        PROVE  post' = post
    BY <1>7 DEF Subscribe, Connect, Deliver, TaskStops, StreamRefused, StreamBreaks,
       Session, Open, Push, BodyDrops, Finish, TurnAway
  <1>8. CASE HubRecv \/ HubDrop \/ UNCHANGED vars
    BY <1>8 DEF HubRecv, HubDrop, vars
  <1>. QED
    BY <1>2, <1>3, <1>4, <1>5, <1>6, <1>7, <1>8 DEF Next, Reader

\* A stream is given its window, and one credit more for the call that grants it.
LEMMA GrantedNext ==
    ASSUME Shaped, Once, Bounded, [Next]_vars, NEW i \in Ids
    PROVE  /\ granted'[i] <= Window + 1
           /\ <<"credit", i>> \in Calls /\ post'[<<"credit", i>>].st \notin Spent =>
                 granted'[i] <= Window
  <1>. DEFINE c == <<"credit", i>>
  <1>1. granted \in [Ids -> Nat] /\ Window \in Nat
    BY HttpAssumption DEF Shaped
  <1>2. /\ granted[i] <= Window + 1
        /\ c \in Calls /\ post[c].st \notin Spent => granted[i] <= Window
    BY DEF Bounded
  <1>3. c \in Calls /\ post'[c].st \notin Spent => post[c].st \notin Spent
    BY SpentStays
  <1>. HIDE DEF c
  <1>4. CASE granted'[i] = granted[i]
    BY <1>2, <1>3, <1>4 DEF c
  <1>5. ASSUME NEW j \in Ids, Open(j)
        PROVE  granted'[i] = granted[i] \/ granted'[i] = Window
    BY <1>1, <1>5 DEF Open
  <1>6. CASE granted'[i] = Window
    BY <1>1, <1>6
  <1>7. ASSUME NEW r \in Calls, ServeCall(r), granted'[i] # granted[i]
        PROVE  /\ granted'[i] <= Window + 1
               /\ c \in Calls /\ post'[c].st \notin Spent => granted'[i] <= Window
    <2>1. r[1] = "credit" /\ granted' = [granted EXCEPT ![r[2]] = @ + 1] /\ post[r].st = "posting"
      BY <1>7 DEF ServeCall
    <2>2. r[2] = i /\ granted'[i] = granted[i] + 1
      BY <1>1, <1>7, <2>1
    <2>3. r = c
      BY <2>1, <2>2, CallShape DEF c
    <2>4. granted[i] <= Window
      BY <1>2, <2>1, <2>3 DEF Spent
    <2>5. post'[c].st \in Spent
      BY <1>7, <2>3, CallEffects DEF Moved, Spent
    <2>. QED
      BY <1>1, <2>2, <2>4, <2>5
  <1>8. ASSUME NEW j \in Ids, \/ Subscribe(j) \/ Reader(j) \/ StreamBreaks(j) \/ Push(j)
                              \/ TurnAway(j) \/ Finish(j) \/ BodyDrops(j)
        PROVE  granted' = granted
    BY <1>8 DEF Subscribe, Reader, StreamBreaks, Push, TurnAway, Finish, BodyDrops, Connect,
       Read, Deliver, TaskStops, StreamRefused, server
  <1>9. ASSUME NEW r \in Calls,
               Fire(r) \/ Wait(r) \/ CallReturns(r) \/ CallRefused(r) \/ CallBreaks(r)
        PROVE  granted' = granted
    BY <1>9 DEF Fire, Wait, Register, Look, Sleep, WaitExpires, CallReturns, CallRefused,
       CallBreaks, server
  <1>10. CASE HubRecv \/ HubDrop \/ PumpTake \/ PumpStop \/ UNCHANGED vars
    BY <1>4, <1>10 DEF HubRecv, HubDrop, PumpTake, PumpStop, vars, server
  <1>. QED
    BY <1>4, <1>5, <1>6, <1>7, <1>8, <1>9, <1>10 DEF Next, Session, Call, c

\* The two channels of the wire.
LEMMA WireNext ==
    ASSUME Shaped, Bounded, [Next]_vars
    PROVE  Len(out') <= Buffer /\ Len(inbound') <= Buffer
  <1>1. /\ out \in Seq(Requests) /\ inbound \in Seq(Frames) /\ Buffer \in Nat
        /\ Len(out) \in Nat /\ Len(inbound) \in Nat /\ Len(<<>>) = 0
        /\ Len(out) <= Buffer /\ Len(inbound) <= Buffer
    BY HttpAssumption DEF Shaped, Bounded
  <1>2. /\ \A f : Len(Append(out, f)) = Len(out) + 1 /\ Len(Append(inbound, f)) = Len(inbound) + 1
        /\ out # <<>> => Len(Tail(out)) <= Len(out)
        /\ inbound # <<>> => Len(Tail(inbound)) <= Len(inbound)
    BY <1>1
  <1>3. /\ \A i \in Ids : Subscribe(i) => Len(out') <= Buffer
        /\ \A r \in Calls : Fire(r) => Len(out') <= Buffer
        /\ PumpTake => Len(out') <= Buffer
        /\ PumpStop => Len(out') <= Buffer
    BY <1>1, <1>2 DEF Subscribe, Fire, CanSend, PumpTake, PumpStop
  <1>4. /\ \A i \in Ids : Deliver(i) => Len(inbound') <= Buffer
        /\ \A r \in Calls : CallReturns(r) => Len(inbound') <= Buffer
        /\ HubRecv => Len(inbound') <= Buffer
        /\ HubDrop => Len(inbound') <= Buffer
    BY <1>1, <1>2 DEF Deliver, Room, CallReturns, HubRecv, HubDrop
  <1>5. /\ \A i \in Ids : Subscribe(i) => inbound' = inbound
        /\ \A i \in Ids : Deliver(i) => out' = out
        /\ \A r \in Calls : Fire(r) => inbound' = inbound
        /\ \A r \in Calls : CallReturns(r) => out' = out
        /\ PumpTake \/ PumpStop => inbound' = inbound
        /\ HubRecv \/ HubDrop => out' = out
    BY DEF Subscribe, Deliver, Fire, CallReturns, PumpTake, PumpStop, HubRecv, HubDrop
  <1>6. ASSUME NEW i \in Ids, \/ Connect(i) \/ Read(i) \/ TaskStops(i) \/ StreamRefused(i)
                              \/ StreamBreaks(i) \/ Session(i) \/ Finish(i) \/ TurnAway(i)
        PROVE  UNCHANGED <<out, inbound>>
    BY <1>6 DEF Connect, Read, TaskStops, StreamRefused, StreamBreaks, Session, Open, Push,
       BodyDrops, Finish, TurnAway, wire
  <1>7. ASSUME NEW r \in Calls, Wait(r) \/ ServeCall(r) \/ CallRefused(r) \/ CallBreaks(r)
        PROVE  UNCHANGED <<out, inbound>>
    BY <1>7 DEF Wait, Register, Look, Sleep, WaitExpires, ServeCall, CallRefused, CallBreaks,
       wire
  <1>8. UNCHANGED vars => UNCHANGED <<out, inbound>>
    BY DEF vars, wire
  <1>. QED
    BY <1>1, <1>3, <1>4, <1>5, <1>6, <1>7, <1>8 DEF Next, Reader, Call

\* The outbox of a session, and the records that went through it.
LEMMA OutboxNext ==
    ASSUME Shaped, Bounded, [Next]_vars, NEW i \in Ids
    PROVE  Len(outbox'[i]) <= Outbox /\ sent'[i] <= MaxRecords
  <1>0. 1 <= Outbox /\ (Outbox > 1 => 2 <= Outbox)
    BY HttpAssumption
  <1>1. /\ outbox \in [Ids -> Seq(Frames)] /\ sent \in [Ids -> Nat] /\ Outbox \in Nat
        /\ MaxRecords \in Nat /\ sent[i] <= MaxRecords /\ Len(outbox[i]) <= Outbox
    BY HttpAssumption DEF Shaped, Bounded
  <1>2. outbox[i] \in Seq(Frames) /\ Len(outbox[i]) \in Nat /\ sent[i] \in Nat
    BY <1>1
  <1>3. /\ \A f : Len(Append(outbox[i], f)) = Len(outbox[i]) + 1
        /\ outbox[i] # <<>> => Len(Tail(outbox[i])) <= Len(outbox[i])
        /\ Len(<<>>) = 0 /\ (\A f : Len(<<f>>) = 1) /\ (\A g, h : Len(<<g, h>>) = 2)
    BY <1>2
  <1>4. ASSUME NEW j \in Ids, Push(j)
        PROVE  Len(outbox'[i]) <= Outbox /\ sent'[i] <= MaxRecords
    <2>1. CASE j = i
      <3>1. sent'[i] = sent[i] + 1 /\ outbox'[i] = Append(outbox[i], <<"record", i>>)
        BY <1>1, <1>4, <2>1 DEF Push
      <3>2. sent[i] < MaxRecords /\ Len(outbox[i]) < Outbox
        BY <1>4, <2>1 DEF Push, OutboxRoom
      <3>. QED
        BY <1>1, <1>2, <1>3, <3>1, <3>2
    <2>2. CASE j # i
      BY <1>1, <1>4, <2>2 DEF Push
    <2>. QED
      BY <2>1, <2>2
  <1>5. ASSUME NEW j \in Ids, Finish(j)
        PROVE  Len(outbox'[i]) <= Outbox /\ sent' = sent
    <2>1. CASE j = i
      <3>1. outbox'[i] = Append(outbox[i], <<"end", i>>) /\ Len(outbox[i]) < Outbox
        BY <1>1, <1>5, <2>1 DEF Finish, OutboxRoom
      <3>. QED
        BY <1>1, <1>2, <1>3, <1>5, <3>1 DEF Finish
    <2>2. CASE j # i
      BY <1>1, <1>5, <2>2 DEF Finish
    <2>. QED
      BY <2>1, <2>2
  <1>6. ASSUME NEW j \in Ids, Open(j)
        PROVE  Len(outbox'[i]) <= Outbox /\ sent' = sent
    <2>1. CASE j = i
      <3>1. \/ outbox'[i] = <<<<"welcome", i>>>>
            \/ Outbox > 1 /\ outbox'[i] = <<<<"welcome", i>>, <<"error", i>>>>
        BY <1>1, <1>6, <2>1 DEF Open, Refusal
      <3>2. Len(outbox'[i]) = 1 \/ (Outbox > 1 /\ Len(outbox'[i]) = 2)
        BY <3>1
      <3>3. Len(outbox'[i]) <= Outbox
        BY <1>0, <3>2, Zenon
      <3>. QED
        BY <1>6, <3>3 DEF Open
    <2>2. CASE j # i
      BY <1>1, <1>6, <2>2 DEF Open
    <2>. QED
      BY <2>1, <2>2
  <1>7. ASSUME NEW j \in Ids, Read(j)
        PROVE  Len(outbox'[i]) <= Outbox /\ sent' = sent
    <2>1. CASE j = i
      <3>1. outbox'[i] = Tail(outbox[i]) /\ outbox[i] # <<>>
        BY <1>1, <1>7, <2>1 DEF Read
      <3>2. Len(Tail(outbox[i])) \in Nat
        BY <1>2, <3>1
      <3>. QED
        BY <1>1, <1>2, <1>3, <1>7, <3>1, <3>2 DEF Read
    <2>2. CASE j # i
      BY <1>1, <1>7, <2>2 DEF Read
    <2>. QED
      BY <2>1, <2>2
  <1>8. ASSUME NEW j \in Ids, BodyDrops(j)
        PROVE  Len(outbox'[i]) <= Outbox /\ sent' = sent
    <2>1. outbox'[i] = outbox[i] \/ outbox'[i] = <<>>
      BY <1>1, <1>8 DEF BodyDrops
    <2>. QED
      BY <1>1, <1>3, <1>8, <2>1 DEF BodyDrops
  <1>9. ASSUME NEW j \in Ids, \/ Subscribe(j) \/ Connect(j) \/ Deliver(j) \/ TaskStops(j)
                              \/ StreamRefused(j) \/ StreamBreaks(j) \/ TurnAway(j)
        PROVE  UNCHANGED <<outbox, sent>>
    BY <1>9 DEF Subscribe, Connect, Deliver, TaskStops, StreamRefused, StreamBreaks, TurnAway,
       server
  <1>10. ASSUME NEW r \in Calls, Fire(r) \/ Wait(r) \/ Call(r) \/ CallBreaks(r)
         PROVE  UNCHANGED <<outbox, sent>>
    BY <1>10 DEF Fire, Wait, Call, Register, Look, Sleep, WaitExpires, ServeCall, CallReturns,
       CallRefused, CallBreaks, server
  <1>11. HubRecv \/ HubDrop \/ PumpTake \/ PumpStop \/ UNCHANGED vars => UNCHANGED <<outbox, sent>>
    BY DEF HubRecv, HubDrop, PumpTake, PumpStop, vars, server
  <1>. QED
    BY <1>1, <1>4, <1>5, <1>6, <1>7, <1>8, <1>9, <1>10, <1>11 DEF Next, Reader, Session

\* Everything stays within its limit.
LEMMA BoundedNext ==
    ASSUME Shaped, Once, Bounded, [Next]_vars
    PROVE  Bounded'
  <1>1. breaks' <= MaxBreaks
    <2>1. breaks \in Nat /\ MaxBreaks \in Nat /\ breaks <= MaxBreaks
      BY HttpAssumption DEF Shaped, Bounded
    <2>2. ASSUME NEW i \in Ids, StreamBreaks(i) \/ TurnAway(i)
          PROVE  breaks' <= MaxBreaks
      BY <2>1, <2>2 DEF StreamBreaks, TurnAway
    <2>3. ASSUME NEW r \in Calls, CallBreaks(r)
          PROVE  breaks' <= MaxBreaks
      BY <2>1, <2>3 DEF CallBreaks
    <2>4. ASSUME NEW i \in Ids, Subscribe(i) \/ Reader(i) \/ Session(i) \/ Finish(i)
          PROVE  breaks' = breaks
      BY <2>4 DEF Subscribe, Reader, Session, Finish, Connect, Read, Deliver, TaskStops,
         StreamRefused, Open, Push, BodyDrops
    <2>5. ASSUME NEW r \in Calls, Fire(r) \/ Wait(r) \/ Call(r)
          PROVE  breaks' = breaks
      BY <2>5 DEF Fire, Wait, Call, Register, Look, Sleep, WaitExpires, ServeCall,
         CallReturns, CallRefused
    <2>6. HubRecv \/ HubDrop \/ PumpTake \/ PumpStop \/ UNCHANGED vars => breaks' = breaks
      BY DEF HubRecv, HubDrop, PumpTake, PumpStop, vars
    <2>. QED
      BY <2>1, <2>2, <2>3, <2>4, <2>5, <2>6 DEF Next
  <1>. QED
    BY <1>1, GrantedNext, WireNext, OutboxNext DEF Bounded

-----------------------------------------------------------------------------
(* Counting the records of a stream among frames. *)

Marks(s, i) == {k \in DOMAIN s : s[k] = <<"record", i>>}
One(f, i) == IF f = <<"record", i>> THEN 1 ELSE 0

\* The places of the records are finitely many.
LEMMA CountType ==
    ASSUME NEW S, NEW s \in Seq(S), NEW i
    PROVE  IsFiniteSet(Marks(s, i)) /\ Count(s, i) = Cardinality(Marks(s, i)) /\ Count(s, i) \in Nat
  <1>1. DOMAIN s = 1..Len(s) /\ Len(s) \in Nat
    OBVIOUS
  <1>2. IsFiniteSet(1..Len(s))
    BY <1>1, FS_Interval
  <1>3. IsFiniteSet(Marks(s, i))
    BY <1>1, <1>2, FS_Subset DEF Marks
  <1>. QED
    BY <1>3, FS_CardinalityType DEF Count, Marks

\* Without records the count is none.
LEMMA CountNone ==
    ASSUME NEW s, NEW i, \A k \in DOMAIN s : s[k] # <<"record", i>>
    PROVE  Count(s, i) = 0
  <1>1. Marks(s, i) = {}
    BY DEF Marks
  <1>. QED
    BY <1>1, FS_EmptySet DEF Count, Marks

\* One frame alone.
LEMMA CountUnit ==
    ASSUME NEW f, NEW i
    PROVE  Count(<<f>>, i) = One(f, i)
  <1>1. DOMAIN <<f>> = {1} /\ <<f>>[1] = f
    OBVIOUS
  <1>2. CASE f = <<"record", i>>
    <2>1. Marks(<<f>>, i) = {1}
      BY <1>1, <1>2 DEF Marks
    <2>. QED
      BY <1>2, <2>1, FS_Singleton DEF Count, Marks, One
  <1>3. CASE f # <<"record", i>>
    BY <1>1, <1>3, CountNone DEF One
  <1>. QED
    BY <1>2, <1>3

\* A frame that joins.
LEMMA CountAppend ==
    ASSUME NEW S, NEW s \in Seq(S), NEW f, NEW i
    PROVE  Count(Append(s, f), i) = Count(s, i) + One(f, i)
  <1>1. /\ Len(s) \in Nat /\ DOMAIN s = 1..Len(s) /\ DOMAIN Append(s, f) = 1..(Len(s) + 1)
        /\ \A k \in 1..Len(s) : Append(s, f)[k] = s[k]
        /\ Append(s, f)[Len(s) + 1] = f
    OBVIOUS
  <1>2. Len(s) + 1 \notin Marks(s, i)
    BY <1>1 DEF Marks
  <1>3. CASE f = <<"record", i>>
    <2>1. Marks(Append(s, f), i) = Marks(s, i) \cup {Len(s) + 1}
      BY <1>1, <1>3 DEF Marks
    <2>2. Cardinality(Marks(Append(s, f), i)) = Cardinality(Marks(s, i)) + 1
      <3>1. IsFiniteSet(Marks(s, i))
        BY CountType
      <3>. QED
        BY <1>2, <2>1, <3>1, FS_AddElement
    <2>. QED
      BY <1>3, <2>2 DEF Count, Marks, One
  <1>4. CASE f # <<"record", i>>
    <2>1. Marks(Append(s, f), i) = Marks(s, i)
      <3>0. \A n \in Nat : \A k \in 1..(n + 1) : k \in 1..n \/ k = n + 1
        OBVIOUS
      <3>1. ASSUME NEW k \in DOMAIN Append(s, f), k \notin DOMAIN s
            PROVE  Append(s, f)[k] # <<"record", i>>
        <4>1. k = Len(s) + 1
          BY <1>1, <3>0, <3>1
        <4>2. Append(s, f)[k] = f
          BY <1>1, <4>1, Zenon
        <4>. QED
          BY <1>4, <4>2, Zenon
      <3>2. \A k \in DOMAIN s : k \in DOMAIN Append(s, f) /\ Append(s, f)[k] = s[k]
        BY <1>1
      <3>. QED
        BY ONLY <3>1, <3>2 DEF Marks
    <2>2. Count(Append(s, f), i) = Count(s, i)
      BY <2>1 DEF Count, Marks
    <2>. QED
      BY <1>4, <2>2, CountType DEF One
  <1>. QED
    BY <1>3, <1>4

\* A frame that leaves.
LEMMA CountTail ==
    ASSUME NEW S, NEW s \in Seq(S), s # <<>>, NEW i
    PROVE  Count(s, i) = One(Head(s), i) + Count(Tail(s), i)
  <1>1. /\ Len(s) \in Nat /\ Len(s) # 0 /\ DOMAIN s = 1..Len(s) /\ Tail(s) \in Seq(S)
        /\ DOMAIN Tail(s) = 1..(Len(s) - 1) /\ Head(s) = s[1]
        /\ \A k \in 1..(Len(s) - 1) : Tail(s)[k] = s[k + 1]
    OBVIOUS
  <1>. DEFINE R == Marks(Tail(s), i)
              T == {k \in Marks(s, i) : k # 1}
              g == [k \in R |-> k + 1]
  <1>2. R \subseteq 1..(Len(s) - 1) /\ T \subseteq 2..Len(s)
    BY <1>1 DEF Marks
  <1>3. IsFiniteSet(R) /\ Count(Tail(s), i) = Cardinality(R) /\ Cardinality(R) \in Nat
    BY <1>1, CountType
  <1>4. \A k \in R : k + 1 \in T
    BY <1>1 DEF Marks
  <1>5. \A t \in T : t - 1 \in R /\ t = (t - 1) + 1
    BY <1>1 DEF Marks
  <1>6. g \in [R -> T]
    BY <1>4
  <1>7. \A a, b \in R : g[a] = g[b] => a = b
    BY <1>2
  <1>8. \A t \in T : \E k \in R : g[k] = t
    BY <1>5
  <1>. HIDE DEF g, R, T
  <1>9. g \in Bijection(R, T)
    BY <1>6, <1>7, <1>8 DEF Bijection, Injection, Surjection, IsInjective
  <1>10. IsFiniteSet(T) /\ Cardinality(T) = Cardinality(R)
    BY <1>3, <1>9, FS_Bijection DEF ExistsBijection
  <1>11. CASE Head(s) = <<"record", i>>
    <2>1. Marks(s, i) = T \cup {1} /\ 1 \notin T
      BY <1>1, <1>11 DEF Marks, T
    <2>2. Cardinality(Marks(s, i)) = Cardinality(T) + 1
      BY <1>10, <2>1, FS_AddElement
    <2>3. Count(s, i) = Cardinality(Marks(s, i))
      BY DEF Count, Marks
    <2>. QED
      BY <1>3, <1>10, <1>11, <2>2, <2>3 DEF One
  <1>12. CASE Head(s) # <<"record", i>>
    <2>1. Marks(s, i) = T
      BY <1>1, <1>12 DEF Marks, T
    <2>2. Count(s, i) = Cardinality(T)
      BY <2>1 DEF Count, Marks
    <2>. QED
      BY <1>3, <1>10, <1>12, <2>2 DEF One
  <1>. QED
    BY <1>11, <1>12

-----------------------------------------------------------------------------
(* The records of a stream on their way to the hub. *)

\* The connection of a stream lives, and the hub reads.
Live(i) == ~dropped /\ task[i] = "reading" /\ body[i] = "open"

Flows(i) ==
    /\ InTransit(i) + seen[i] <= sent[i]
    /\ Live(i) => sent[i] = InTransit(i) + seen[i]

\* Where the records of a stream are.
LEMMA TransitType ==
    ASSUME Shaped, NEW i \in Ids
    PROVE  /\ Count(outbox[i], i) \in Nat /\ One(hand[i], i) \in Nat
           /\ Count(inbound, i) \in Nat /\ seen[i] \in Nat /\ sent[i] \in Nat
           /\ InTransit(i) = Count(outbox[i], i) + One(hand[i], i) + Count(inbound, i)
           /\ InTransit(i) \in Nat
  <1>1. outbox[i] \in Seq(Frames) /\ inbound \in Seq(Frames) /\ seen[i] \in Nat /\ sent[i] \in Nat
    BY DEF Shaped
  <1>2. Count(outbox[i], i) \in Nat /\ Count(inbound, i) \in Nat
    BY <1>1, CountType
  <1>3. One(hand[i], i) \in Nat /\ Count(<<hand[i]>>, i) = One(hand[i], i)
    BY CountUnit DEF One
  <1>. QED
    BY <1>1, <1>2, <1>3 DEF InTransit

\* And where they are after a step.
LEMMA TransitNext ==
    ASSUME Shaped', NEW i \in Ids
    PROVE  /\ Count(outbox'[i], i) \in Nat /\ One(hand'[i], i) \in Nat
           /\ Count(inbound', i) \in Nat /\ seen'[i] \in Nat /\ sent'[i] \in Nat
           /\ InTransit(i)' = Count(outbox'[i], i) + One(hand'[i], i) + Count(inbound', i)
           /\ InTransit(i)' \in Nat
  <1>1. /\ outbox'[i] \in Seq(Frames) /\ inbound' \in Seq(Frames) /\ seen'[i] \in Nat
        /\ sent'[i] \in Nat
    BY DEF Shaped
  <1>2. Count(outbox'[i], i) \in Nat /\ Count(inbound', i) \in Nat
    BY <1>1, CountType
  <1>3. One(hand'[i], i) \in Nat /\ Count(<<hand'[i]>>, i) = One(hand'[i], i)
    BY CountUnit DEF One
  <1>. QED
    BY <1>1, <1>2, <1>3 DEF InTransit

\* A step that moves records along, and no connection to life.
LEMMA FlowsOn ==
    ASSUME Shaped, Shaped', NEW i \in Ids, Flows(i), Live(i)' => Live(i),
           InTransit(i)' + seen'[i] + sent[i] = InTransit(i) + seen[i] + sent'[i]
    PROVE  Flows(i)'
  <1>1. InTransit(i) \in Nat /\ seen[i] \in Nat /\ sent[i] \in Nat
    BY TransitType
  <1>2. InTransit(i)' \in Nat /\ seen'[i] \in Nat /\ sent'[i] \in Nat
    BY TransitNext
  <1>. QED
    BY <1>1, <1>2 DEF Flows

\* A step that leaves the stream alone.
LEMMA FlowsSame ==
    ASSUME Shaped, Shaped', NEW i \in Ids, Flows(i), Live(i)' => Live(i),
           outbox'[i] = outbox[i], hand'[i] = hand[i], Count(inbound', i) = Count(inbound, i),
           seen'[i] = seen[i], sent'[i] = sent[i]
    PROVE  Flows(i)'
  <1>1. InTransit(i)' = InTransit(i)
    BY DEF InTransit
  <1>. QED
    BY <1>1, FlowsOn

\* A step that lets records go with the connection, or with the hub.
LEMMA FlowsLess ==
    ASSUME Shaped, Shaped', NEW i \in Ids, Flows(i), ~Live(i)',
           Count(outbox'[i], i) <= Count(outbox[i], i), One(hand'[i], i) <= One(hand[i], i),
           Count(inbound', i) <= Count(inbound, i), seen'[i] = seen[i], sent'[i] = sent[i]
    PROVE  Flows(i)'
  <1>1. /\ InTransit(i) = Count(outbox[i], i) + One(hand[i], i) + Count(inbound, i)
        /\ Count(outbox[i], i) \in Nat /\ One(hand[i], i) \in Nat
        /\ Count(inbound, i) \in Nat /\ seen[i] \in Nat /\ sent[i] \in Nat
    BY TransitType
  <1>2. /\ InTransit(i)' = Count(outbox'[i], i) + One(hand'[i], i) + Count(inbound', i)
        /\ Count(outbox'[i], i) \in Nat /\ One(hand'[i], i) \in Nat
        /\ Count(inbound', i) \in Nat
    BY TransitNext
  <1>3. InTransit(i) + seen[i] <= sent[i]
    BY DEF Flows
  <1>4. InTransit(i)' + seen'[i] <= sent'[i]
    BY <1>1, <1>2, <1>3
  <1>. QED
    BY <1>4 DEF Flows

\* The hub takes a frame, and counts it when it is a record of the stream.
LEMMA FlowsHub ==
    ASSUME Shaped, Shaped', NEW i \in Ids, Flows(i), HubRecv
    PROVE  Flows(i)'
  <1>1. /\ inbound \in Seq(Frames) /\ inbound # <<>> /\ inbound' = Tail(inbound)
        /\ seen \in [Ids -> Nat] /\ Head(inbound) \in Frames
        /\ UNCHANGED <<outbox, hand, sent, dropped, task, body>>
    BY DEF Shaped, HubRecv, reader, server
  <1>2. PICK f \in Frames : f = Head(inbound)
    BY <1>1
  <1>3. Count(inbound, i) = One(f, i) + Count(inbound', i)
    BY <1>1, <1>2, CountTail
  <1>4. seen'[i] = seen[i] + One(f, i)
    <2>1. seen' = IF f[1] = "record" THEN [seen EXCEPT ![f[2]] = @ + 1] ELSE seen
      BY <1>2 DEF HubRecv
    <2>2. f = <<f[1], f[2]>> /\ seen[i] \in Nat
      BY <1>1, FrameShape
    <2>3. CASE f = <<"record", i>>
      BY <1>1, <2>1, <2>3 DEF One
    <2>4. CASE f # <<"record", i>>
      <3>1. f[1] # "record" \/ f[2] # i
        BY <2>2, <2>4
      <3>2. seen'[i] = seen[i]
        BY <1>1, <2>1, <3>1
      <3>. QED
        BY <2>2, <2>4, <3>2 DEF One
    <2>. QED
      BY <2>3, <2>4
  <1>5. InTransit(i)' + seen'[i] + sent[i] = InTransit(i) + seen[i] + sent'[i]
    <2>1. /\ InTransit(i) = Count(outbox[i], i) + One(hand[i], i) + Count(inbound, i)
          /\ Count(outbox[i], i) \in Nat /\ One(hand[i], i) \in Nat
          /\ seen[i] \in Nat /\ sent[i] \in Nat
      BY TransitType
    <2>2. /\ InTransit(i)' = Count(outbox[i], i) + One(hand[i], i) + Count(inbound', i)
          /\ Count(inbound', i) \in Nat
      BY <1>1, TransitNext
    <2>3. One(f, i) \in Nat /\ sent'[i] = sent[i]
      BY <1>1 DEF One
    <2>. QED
      BY <1>3, <1>4, <2>1, <2>2, <2>3
  <1>6. Live(i)' => Live(i)
    BY <1>1 DEF Live
  <1>. QED
    BY <1>5, <1>6, FlowsOn

\* The reader takes a frame off the body.
LEMMA FlowsRead ==
    ASSUME Shaped, Shaped', NEW i \in Ids, Flows(i), Read(i)
    PROVE  Flows(i)'
  <1>1. /\ outbox[i] \in Seq(Frames) /\ outbox[i] # <<>> /\ outbox'[i] = Tail(outbox[i])
        /\ hand[i] = Nothing /\ hand'[i] = Head(outbox[i])
        /\ UNCHANGED <<inbound, seen, sent, dropped, task, body>>
    BY DEF Shaped, Read, hubVars, wire
  <1>2. Count(outbox[i], i) = One(hand'[i], i) + Count(outbox'[i], i)
    BY <1>1, CountTail
  <1>3. One(hand[i], i) = 0
    BY <1>1 DEF One, Nothing
  <1>4. InTransit(i)' + seen'[i] + sent[i] = InTransit(i) + seen[i] + sent'[i]
    <2>1. /\ InTransit(i) = Count(outbox[i], i) + One(hand[i], i) + Count(inbound, i)
          /\ Count(inbound, i) \in Nat /\ seen[i] \in Nat /\ sent[i] \in Nat
      BY TransitType
    <2>2. /\ InTransit(i)' = Count(outbox'[i], i) + One(hand'[i], i) + Count(inbound, i)
          /\ Count(outbox'[i], i) \in Nat /\ One(hand'[i], i) \in Nat
      BY <1>1, TransitNext
    <2>3. seen'[i] = seen[i] /\ sent'[i] = sent[i]
      BY <1>1
    <2>. QED
      BY <1>2, <1>3, <2>1, <2>2, <2>3
  <1>5. Live(i)' => Live(i)
    BY <1>1 DEF Live
  <1>. QED
    BY <1>4, <1>5, FlowsOn

\* The reader hands its frame to the wire.
LEMMA FlowsDeliver ==
    ASSUME Shaped, Shaped', Opened, NEW i \in Ids, NEW j \in Ids, Flows(i), Deliver(j)
    PROVE  Flows(i)'
  <1>1. /\ inbound \in Seq(Frames) /\ inbound' = Append(inbound, hand[j])
        /\ hand \in [Ids -> Frames \cup {Nothing}] /\ hand' = [hand EXCEPT ![j] = Nothing]
        /\ hand[j] # Nothing /\ UNCHANGED <<outbox, seen, sent, dropped, task, body>>
    BY DEF Shaped, Deliver, Room, hubVars, server
  <1>2. Count(inbound', i) = Count(inbound, i) + One(hand[j], i)
    BY <1>1, CountAppend
  <1>3. Live(i)' => Live(i)
    BY <1>1 DEF Live
  <1>4. CASE j = i
    <2>1. One(hand'[i], i) = 0
      BY <1>1, <1>4 DEF One, Nothing
    <2>2. InTransit(i)' + seen'[i] + sent[i] = InTransit(i) + seen[i] + sent'[i]
      <3>1. /\ InTransit(i) = Count(outbox[i], i) + One(hand[i], i) + Count(inbound, i)
            /\ Count(outbox[i], i) \in Nat /\ One(hand[i], i) \in Nat
            /\ Count(inbound, i) \in Nat /\ seen[i] \in Nat /\ sent[i] \in Nat
        BY TransitType
      <3>2. InTransit(i)' = Count(outbox[i], i) + One(hand'[i], i) + Count(inbound', i)
        BY <1>1, TransitNext
      <3>3. seen'[i] = seen[i] /\ sent'[i] = sent[i]
        BY <1>1
      <3>. QED
        BY <1>2, <1>4, <2>1, <3>1, <3>2, <3>3
    <2>. QED
      BY <1>3, <2>2, FlowsOn
  <1>5. CASE j # i
    <2>1. One(hand[j], i) = 0
      BY <1>1, <1>5 DEF Opened, One
    <2>2. Count(inbound', i) = Count(inbound, i)
      BY <1>2, <2>1, TransitType
    <2>3. hand'[i] = hand[i]
      BY <1>1, <1>5
    <2>. QED
      BY <1>1, <1>3, <2>2, <2>3, FlowsSame
  <1>. QED
    BY <1>4, <1>5

\* The stream task pushes a record, or its end.
LEMMA FlowsPush ==
    ASSUME Shaped, Shaped', NEW i \in Ids, Flows(i), Push(i) \/ Finish(i)
    PROVE  Flows(i)'
  <1>1. PICK f \in {<<"record", i>>, <<"end", i>>} :
           /\ outbox'[i] = Append(outbox[i], f)
           /\ sent'[i] = sent[i] + One(f, i)
    <2>1. outbox \in [Ids -> Seq(Frames)] /\ sent \in [Ids -> Nat] /\ sent[i] \in Nat
      BY DEF Shaped
    <2>2. CASE Push(i)
      <3>1. outbox'[i] = Append(outbox[i], <<"record", i>>) /\ sent'[i] = sent[i] + 1
        BY <2>1, <2>2 DEF Push
      <3>. QED
        BY <3>1 DEF One
    <2>3. CASE Finish(i)
      <3>1. outbox'[i] = Append(outbox[i], <<"end", i>>) /\ sent'[i] = sent[i]
        BY <2>1, <2>3 DEF Finish
      <3>2. One(<<"end", i>>, i) = 0
        BY DEF One
      <3>. QED
        BY <2>1, <3>1, <3>2
    <2>. QED
      BY <2>2, <2>3
  <1>2. outbox[i] \in Seq(Frames) /\ UNCHANGED <<hand, inbound, seen, dropped, task, body>>
    BY DEF Shaped, Push, Finish, hubVars, wire, reader
  <1>3. Count(outbox'[i], i) = Count(outbox[i], i) + One(f, i)
    BY <1>1, <1>2, CountAppend
  <1>4. InTransit(i)' + seen'[i] + sent[i] = InTransit(i) + seen[i] + sent'[i]
    <2>1. /\ InTransit(i) = Count(outbox[i], i) + One(hand[i], i) + Count(inbound, i)
          /\ Count(outbox[i], i) \in Nat /\ One(hand[i], i) \in Nat
          /\ Count(inbound, i) \in Nat /\ seen[i] \in Nat /\ sent[i] \in Nat
      BY TransitType
    <2>2. InTransit(i)' = Count(outbox'[i], i) + One(hand[i], i) + Count(inbound, i)
      BY <1>2, TransitNext
    <2>3. seen'[i] = seen[i] /\ One(f, i) \in Nat
      BY <1>2 DEF One
    <2>. QED
      BY <1>1, <1>3, <2>1, <2>2, <2>3
  <1>5. Live(i)' => Live(i)
    BY <1>2 DEF Live
  <1>. QED
    BY <1>4, <1>5, FlowsOn

\* A body that opens has nothing to say of the stream but its Welcome, and nothing was
\* said before.
LEMMA FlowsOpen ==
    ASSUME Shaped, Shaped', Opened, NEW i \in Ids, Flows(i), Open(i)
    PROVE  Flows(i)'
  <1>1. /\ outbox'[i] = <<<<"welcome", i>>>> \/ outbox'[i] = <<<<"welcome", i>>, <<"error", i>>>>
        /\ body[i] = "asked" /\ UNCHANGED <<hand, inbound, seen, sent>>
    BY DEF Shaped, Open, Refusal, hubVars, wire, reader
  <1>2. \A k \in DOMAIN outbox'[i] : outbox'[i][k] # <<"record", i>>
    <2>1. CASE outbox'[i] = <<<<"welcome", i>>>>
      BY <2>1
    <2>2. CASE outbox'[i] = <<<<"welcome", i>>, <<"error", i>>>>
      BY <2>2
    <2>. QED
      BY <1>1, <2>1, <2>2
  <1>3. Count(outbox'[i], i) = 0
    BY <1>2, CountNone
  <1>4. sent[i] = 0 /\ outbox[i] = <<>>
    BY <1>1 DEF Opened
  <1>5. /\ InTransit(i) = Count(outbox[i], i) + One(hand[i], i) + Count(inbound, i)
        /\ Count(outbox[i], i) \in Nat /\ One(hand[i], i) \in Nat
        /\ Count(inbound, i) \in Nat /\ seen[i] \in Nat
    BY TransitType
  <1>6. InTransit(i) + seen[i] <= sent[i]
    BY DEF Flows
  <1>7. One(hand[i], i) = 0 /\ Count(inbound, i) = 0 /\ seen[i] = 0
    BY <1>4, <1>5, <1>6
  <1>8. InTransit(i)' = Count(outbox'[i], i) + One(hand[i], i) + Count(inbound, i)
    BY <1>1, TransitNext
  <1>9. InTransit(i)' = 0 /\ seen'[i] = 0 /\ sent'[i] = 0
    BY <1>1, <1>3, <1>4, <1>7, <1>8
  <1>. QED
    BY <1>9 DEF Flows

\* No record is lost or doubled on its way while the connection lives, and none is made
\* up after.
LEMMA FlowsNext ==
    ASSUME Shaped, Shaped', Opened, [Next]_vars, NEW i \in Ids, Flows(i)
    PROVE  Flows(i)'
  <1>1. /\ outbox \in [Ids -> Seq(Frames)] /\ hand \in [Ids -> Frames \cup {Nothing}]
        /\ sent \in [Ids -> Nat] /\ task \in [Ids -> TaskStates] /\ body \in [Ids -> BodyStates]
        /\ inbound \in Seq(Frames)
    BY DEF Shaped
  <1>2. ASSUME UNCHANGED <<outbox, hand, inbound, seen, sent, dropped>>,
               Live(i)' => task[i] = "reading" /\ body[i] = "open"
        PROVE  Flows(i)'
    BY <1>2, FlowsSame DEF Live
  <1>3. ASSUME NEW j \in Ids, Subscribe(j) \/ TurnAway(j) \/ Connect(j)
        PROVE  Flows(i)'
    <2>1. UNCHANGED <<outbox, hand, inbound, seen, sent, dropped>>
      BY <1>3 DEF Subscribe, TurnAway, Connect, hubVars, wire, reader, server
    <2>2. /\ body' = body \/ body' = [body EXCEPT ![j] = "refused"]
                          \/ body' = [body EXCEPT ![j] = "asked"]
          /\ task' = task \/ (task' = [task EXCEPT ![j] = "reading"]
                              /\ body' = [body EXCEPT ![j] = "asked"])
      BY <1>3 DEF Subscribe, TurnAway, Connect, reader, server
    <2>3. Live(i)' => task[i] = "reading" /\ body[i] = "open"
      BY <1>1, <2>2 DEF Live
    <2>. QED
      BY <1>2, <2>1, <2>3
  <1>4. ASSUME NEW r \in Calls,
               Fire(r) \/ Wait(r) \/ ServeCall(r) \/ CallRefused(r) \/ CallBreaks(r)
        PROVE  Flows(i)'
    <2>1. UNCHANGED <<outbox, hand, inbound, seen, sent, dropped, task, body>>
      BY <1>4 DEF Fire, Wait, Register, Look, Sleep, WaitExpires, ServeCall, CallRefused,
         CallBreaks, hubVars, wire, reader, server
    <2>. QED
      BY <1>2, <2>1 DEF Live
  <1>5. CASE PumpTake
    <2>1. UNCHANGED <<outbox, hand, inbound, seen, sent, dropped, body>>
      BY <1>5 DEF PumpTake, hubVars, server
    <2>2. Live(i)' => task[i] = "reading"
      BY <1>1, <1>5, TakeEffects DEF Live
    <2>. QED
      BY <1>2, <2>1, <2>2 DEF Live
  <1>6. CASE PumpStop \/ UNCHANGED vars
    <2>1. UNCHANGED <<outbox, hand, inbound, seen, sent, dropped, task, body>>
      BY <1>6 DEF PumpStop, vars, hubVars, wire, reader, server
    <2>. QED
      BY <1>2, <2>1 DEF Live
  <1>7. ASSUME NEW r \in Calls, CallReturns(r)
        PROVE  Flows(i)'
    <2>1. /\ inbound' = inbound \/ inbound' = Append(inbound, Answer(r))
          /\ UNCHANGED <<outbox, hand, seen, sent, dropped, task, body>>
      BY <1>7 DEF CallReturns, hubVars, reader, server
    <2>2. One(Answer(r), i) = 0
      BY FrameShape DEF One
    <2>3. Count(Append(inbound, Answer(r)), i) = Count(inbound, i)
      BY <1>1, <2>2, CountAppend, CountType
    <2>4. Count(inbound', i) = Count(inbound, i)
      BY <2>1, <2>3
    <2>. QED
      BY <2>1, <2>4, FlowsSame DEF Live
  <1>8. CASE HubRecv
    BY <1>8, FlowsHub
  <1>9. ASSUME NEW n \in Nat
        PROVE  Count(<<>>, i) = 0 /\ Count(<<>>, i) <= n
    BY CountNone
  <1>10. /\ Count(outbox[i], i) \in Nat /\ One(hand[i], i) \in Nat /\ Count(inbound, i) \in Nat
         /\ One(Nothing, i) = 0
    BY TransitType DEF One, Nothing
  <1>11. CASE HubDrop
    <2>1. inbound' = <<>> /\ dropped' /\ UNCHANGED <<outbox, hand, seen, sent>>
      BY <1>11 DEF HubDrop, reader, server
    <2>. QED
      BY <1>9, <1>10, <2>1, FlowsLess DEF Live
  <1>12. ASSUME NEW j \in Ids, Read(j)
         PROVE  Flows(i)'
    <2>1. CASE j = i
      BY <1>12, <2>1, FlowsRead
    <2>2. CASE j # i
      <3>1. /\ outbox'[i] = outbox[i] /\ hand'[i] = hand[i]
            /\ UNCHANGED <<inbound, seen, sent, dropped, task, body>>
        BY <1>1, <1>12, <2>2 DEF Read, hubVars, wire
      <3>. QED
        BY <3>1, FlowsSame DEF Live
    <2>. QED
      BY <2>1, <2>2
  <1>13. ASSUME NEW j \in Ids, Deliver(j)
         PROVE  Flows(i)'
    BY <1>13, FlowsDeliver
  <1>14. ASSUME NEW j \in Ids, TaskStops(j) \/ StreamBreaks(j) \/ StreamRefused(j)
         PROVE  Flows(i)'
    <2>1. TaskEnds(j) /\ UNCHANGED <<outbox, inbound, seen, sent, dropped, body>>
      BY <1>14 DEF TaskStops, StreamBreaks, StreamRefused, hubVars, wire, server
    <2>2. CASE j = i
      <3>1. task'[i] = "done" /\ hand'[i] = Nothing
        BY <1>1, <2>1, <2>2 DEF TaskEnds
      <3>. QED
        BY <1>10, <2>1, <3>1, FlowsLess DEF Live
    <2>3. CASE j # i
      <3>1. task'[i] = task[i] /\ hand'[i] = hand[i]
        BY <1>1, <2>1, <2>3 DEF TaskEnds
      <3>. QED
        BY <2>1, <3>1, FlowsSame DEF Live
    <2>. QED
      BY <2>2, <2>3
  <1>15. ASSUME NEW j \in Ids, Open(j) \/ Push(j) \/ Finish(j) \/ BodyDrops(j), j # i
         PROVE  Flows(i)'
    <2>1. /\ outbox'[i] = outbox[i] /\ sent'[i] = sent[i] /\ body'[i] = body[i]
          /\ UNCHANGED <<inbound, hand, seen, dropped, task>>
      BY <1>1, <1>15 DEF Open, Push, Finish, BodyDrops, hubVars, wire, reader
    <2>. QED
      BY <2>1, FlowsSame DEF Live
  <1>16. CASE Open(i)
    BY <1>16, FlowsOpen
  <1>17. CASE Push(i) \/ Finish(i)
    BY <1>17, FlowsPush
  <1>18. CASE BodyDrops(i)
    <2>1. /\ outbox'[i] = <<>> /\ body'[i] = "dropped"
          /\ UNCHANGED <<inbound, hand, seen, sent>>
      BY <1>1, <1>18 DEF BodyDrops, hubVars, wire, reader
    <2>. QED
      BY <1>9, <1>10, <2>1, FlowsLess DEF Live
  <1>. QED
    BY <1>3, <1>4, <1>5, <1>6, <1>7, <1>8, <1>11, <1>12, <1>13, <1>14, <1>15, <1>16, <1>17,
       <1>18 DEF Next, Reader, Session, Call

\* A wire that was just dialled.
LEMMA IInvInit == Init => IInv
  <1>. SUFFICES ASSUME Init PROVE IInv
    OBVIOUS
  <1>1. Shaped
    <2>1. /\ hub \in [Ids -> HubStates] /\ task \in [Ids -> TaskStates]
          /\ body \in [Ids -> BodyStates] /\ stream \in [Ids -> StreamStates]
      BY DEF Init, HubStates, TaskStates, BodyStates, StreamStates
    <2>2. /\ out \in Seq(Requests) /\ inbound \in Seq(Frames) /\ outbox \in [Ids -> Seq(Frames)]
          /\ hand \in [Ids -> Frames \cup {Nothing}]
      BY DEF Init
    <2>3. post \in [Calls -> Posts]
      BY DEF Init, NotPosted, Posts, Steps
    <2>. QED
      BY <2>1, <2>2, <2>3 DEF Init, Shaped
  <1>2. Bounded
    <2>1. Len(<<>>) = 0
      OBVIOUS
    <2>. QED
      BY <2>1, HttpAssumption DEF Init, Bounded
  <1>3. Once
    BY DEF Init, Once
  <1>4. Opened
    BY DEF Init, Opened
  <1>5. Steering /\ SteeringFindsItsStream
    BY DEF Init, NotPosted, Steering, Steered, Waiting, Registered, SteeringFindsItsStream
  <1>6. NothingEndsInSilence
    BY DEF Init, NotPosted, NothingEndsInSilence
  <1>7. ASSUME NEW i \in Ids
        PROVE  InTransit(i) = 0 /\ seen[i] = 0 /\ sent[i] = 0
    <2>1. /\ outbox[i] = <<>> /\ inbound = <<>> /\ hand[i] = Nothing
          /\ seen[i] = 0 /\ sent[i] = 0
      BY DEF Init
    <2>2. Count(<<>>, i) = 0
      BY CountNone
    <2>3. One(hand[i], i) = 0
      BY <2>1 DEF One, Nothing
    <2>. QED
      BY <1>1, <2>1, <2>2, <2>3, TransitType
  <1>8. Counted /\ NothingIsDropped
    BY <1>7 DEF Counted, NothingIsDropped
  <1>. QED
    BY <1>1, <1>2, <1>3, <1>4, <1>5, <1>6, <1>8 DEF IInv

\* Every step keeps the invariant.
LEMMA IInvNext == IInv /\ [Next]_vars => IInv'
  <1>. SUFFICES ASSUME IInv, [Next]_vars PROVE IInv'
    OBVIOUS
  <1>1. /\ Shaped /\ Bounded /\ Once /\ Opened /\ Steering /\ SteeringFindsItsStream
        /\ NothingEndsInSilence /\ Counted /\ NothingIsDropped
    BY DEF IInv
  <1>2. Shaped'
    BY <1>1, ShapedNext
  <1>3. Bounded' /\ Once' /\ Opened' /\ Steering'
    BY <1>1, BoundedNext, OnceNext, OpenedNext, SteeringNext
  <1>4. SteeringFindsItsStream' /\ NothingEndsInSilence'
    BY <1>1, FindsNext, SilenceNext
  <1>5. ASSUME NEW i \in Ids
        PROVE  Flows(i)'
    <2>1. Flows(i)
      BY <1>1 DEF Flows, Live, Counted, NothingIsDropped
    <2>. QED
      BY <1>1, <1>2, <2>1, FlowsNext
  <1>6. Counted' /\ NothingIsDropped'
    BY <1>5 DEF Flows, Live, Counted, NothingIsDropped
  <1>. QED
    BY <1>2, <1>3, <1>4, <1>6 DEF IInv

-----------------------------------------------------------------------------
(* The results. *)

(* Credits and cancels meet their stream however they race with its Welcome, for  *)
(* any streams, calls and limits: none sleeps past the arrival of its session     *)
(* (Sessions::wait registers before it looks), and one that goes out under a name *)
(* is refused only when its stream is over; the types hold with it.               *)
THEOREM SteeringHolds == Spec => []SteeringIsSafe
  <1>1. IInv => SteeringIsSafe
    <2>. SUFFICES ASSUME IInv PROVE SteeringIsSafe
      OBVIOUS
    <2>1. Shaped /\ Bounded /\ Steering /\ SteeringFindsItsStream /\ Counted
      BY DEF IInv
    <2>2. NoMissedSession
      BY <2>1 DEF Steering, Steered, Registered, NoMissedSession
    <2>3. seen \in [Ids -> 0..MaxRecords] /\ sent \in [Ids -> 0..MaxRecords]
      <3>1. seen \in [Ids -> Nat] /\ sent \in [Ids -> Nat] /\ MaxRecords \in Nat
        BY <2>1, HttpAssumption DEF Shaped
      <3>2. ASSUME NEW i \in Ids
            PROVE  seen[i] \in 0..MaxRecords /\ sent[i] \in 0..MaxRecords
        <4>1. InTransit(i) \in Nat /\ seen[i] \in Nat /\ sent[i] \in Nat
          BY <2>1, TransitType
        <4>2. sent[i] <= MaxRecords /\ InTransit(i) + seen[i] <= sent[i]
          BY <2>1 DEF Bounded, Counted
        <4>. QED
          BY <3>1, <4>1, <4>2
      <3>. QED
        BY <3>1, <3>2
    <2>4. granted \in [Ids -> 0..(Window + 1)] /\ breaks \in 0..MaxBreaks
      <3>1. granted \in [Ids -> Nat] /\ Window \in Nat /\ MaxBreaks \in Nat /\ breaks \in Nat
        BY <2>1, HttpAssumption DEF Shaped
      <3>2. breaks <= MaxBreaks /\ \A i \in Ids : granted[i] <= Window + 1
        BY <2>1 DEF Bounded
      <3>3. \A i \in Ids : granted[i] \in 0..(Window + 1)
        BY <3>1, <3>2
      <3>. QED
        BY <3>1, <3>2, <3>3
    <2>5. \A k \in DOMAIN inbound : inbound[k] \in Kinds \X (Ids \cup {NoId})
      BY <2>1 DEF Shaped, Frames
    <2>6. \A r \in Calls : /\ post[r].st \in Steps
                           /\ post[r].named => r[1] # "call" /\ ~post[r].late
      BY <2>1 DEF Shaped, Posts, Steering, Steered
    <2>7. {dropped, pump, dead} \subseteq BOOLEAN
      BY <2>1 DEF Shaped
    <2>8. TypeOK
      BY <2>1, <2>3, <2>4, <2>5, <2>6, <2>7
         DEF TypeOK, Shaped, Bounded, HubStates, TaskStates, BodyStates, StreamStates, Steps
    <2>. QED
      BY <2>1, <2>2, <2>8 DEF SteeringIsSafe
  <1>. QED
    BY <1>1, IInvInit, IInvNext, PTL DEF Spec

(* No reply, record or failure gets lost between the two ends of a wire, for any  *)
(* streams, calls and limits: a call ends with its reply or with the wire, a      *)
(* reader only with the wire, and while its connection lives every record of a    *)
(* stream that was pushed is in the outbox, in the reader's hand, on the wire or  *)
(* with the hub, once.                                                            *)
THEOREM LossHolds == Spec => []NothingIsLost
  <1>1. IInv => NothingIsLost
    BY DEF IInv, NothingIsLost
  <1>. QED
    BY <1>1, IInvInit, IInvNext, PTL DEF Spec
=============================================================================
