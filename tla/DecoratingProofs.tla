-------------------------- MODULE DecoratingProofs --------------------------
(***************************************************************************)
(* Theorems about the records of decorated methods, and about the classes  *)
(* that a decoration changes (Decorating), for any classes, options and    *)
(* number of threads and calls.                                            *)
(***************************************************************************)
EXTENDS Decorating, WellFoundedInduction, TLAPS

-----------------------------------------------------------------------------
(* The invariant.  A thread writes arguments and starts points only in its *)
(* innermost call; and while classes are decorated there is no call.       *)

IsFrame(f) == f = [object |-> f.object, call |-> f.call, pc |-> f.pc]
IsSequence(s) == s \in Seq({s[i] : i \in DOMAIN s})

FramesOK(s) ==
  /\ IsSequence(s)
  /\ \A i \in DOMAIN s : IsFrame(s[i])
  /\ \A i \in DOMAIN s : i # Len(s) => s[i].pc = "body"

AtWrite(t) == frames[t] # << >> /\ Top(t).pc = "write"
AtStart(t) == frames[t] # << >> /\ Top(t).pc = "start"

CallsInv ==
  /\ frames = [t \in Threads |-> frames[t]]
  /\ \A t \in Threads : FramesOK(frames[t])
  /\ \A t \in Threads : AtWrite(t) \/ AtStart(t) => Top(t).object \in DOMAIN info

InfoInv ==
  /\ DOMAIN info = DOMAIN wraps
  /\ info = [w \in DOMAIN wraps |-> [name |-> info[w].name, args |-> info[w].args]]
  /\ \A w \in DOMAIN info : info[w].name \in {None, Original[w]}

LoadingInv ==
  /\ made \in Nat
  /\ made # 0 => \A c \in Classes : status[c] # "body"
  /\ made = 0 => /\ \A t \in Threads : frames[t] = << >>
                 /\ records = {}
                 /\ \A w \in DOMAIN info : info[w].name = None

(* What the dictionary of a wrapper holds for the threads that are to send *)
(* it.                                                                     *)
StartInv ==
  \A t \in Threads : AtStart(t) =>
    LET w == Top(t).object IN
    /\ info[w].name = Original[w]
    /\ Top(t).call \in overtaken \/ info[w].args = Top(t).call

RecordInv == CallsInv /\ InfoInv /\ LoadingInv /\ StartInv /\ RecordsOfTheirCall

-----------------------------------------------------------------------------
(* The calls of a thread, as sequences.                                    *)

LEMMA SequenceProperties ==
  ASSUME NEW S, NEW s \in Seq(S)
  PROVE  /\ IsSequence(s) /\ Len(s) \in Nat /\ DOMAIN s = 1 .. Len(s)
         /\ s # << >> <=> Len(s) > 0
<1>1. Len(s) \in Nat /\ DOMAIN s = 1 .. Len(s) /\ s = [i \in 1 .. Len(s) |-> s[i]]
  OBVIOUS
<1>2. s \in Seq({s[i] : i \in 1 .. Len(s)})
  BY <1>1
<1>. QED BY <1>1, <1>2 DEF IsSequence

LEMMA FramesProperties ==
  ASSUME NEW s, FramesOK(s)
  PROVE  /\ Len(s) \in Nat /\ DOMAIN s = 1 .. Len(s)
         /\ s # << >> <=> Len(s) > 0
         /\ \A i \in 1 .. Len(s) : IsFrame(s[i])
         /\ \A i \in 1 .. Len(s) : i # Len(s) => s[i].pc = "body"
BY SequenceProperties DEF FramesOK, IsSequence

LEMMA FramesPushed ==
  ASSUME NEW s, FramesOK(s), NEW f, IsFrame(f), s # << >> => s[Len(s)].pc = "body"
  PROVE  FramesOK(Append(s, f)) /\ Last(Append(s, f)) = f
<1>. DEFINE S == {s[i] : i \in DOMAIN s} \cup {f}
<1>1. s \in Seq(S) /\ f \in S
  <2>1. s \in Seq({s[i] : i \in DOMAIN s})
    BY DEF FramesOK, IsSequence
  <2>. QED BY <2>1
<1>2. /\ Append(s, f) \in Seq(S) /\ Len(Append(s, f)) = Len(s) + 1
      /\ \A i \in 1 .. Len(s) : Append(s, f)[i] = s[i]
      /\ Append(s, f)[Len(s) + 1] = f
  BY <1>1
<1>3. IsSequence(Append(s, f)) /\ DOMAIN Append(s, f) = 1 .. (Len(s) + 1)
  BY <1>2, SequenceProperties
<1>4. \A i \in 1 .. (Len(s) + 1) : i = Len(s) + 1 \/ i \in 1 .. Len(s)
  BY FramesProperties
<1>. QED BY <1>2, <1>3, <1>4, FramesProperties DEF FramesOK, Last

LEMMA FrontProperties ==
  ASSUME NEW S, NEW s \in Seq(S), s # << >>
  PROVE  /\ Front(s) \in Seq(S) /\ Len(Front(s)) = Len(s) - 1
         /\ \A i \in 1 .. (Len(s) - 1) : Front(s)[i] = s[i]
<1>1. Len(s) \in Nat /\ Len(s) > 0 /\ DOMAIN s = 1 .. Len(s) /\ \A i \in 1 .. Len(s) : s[i] \in S
  OBVIOUS
<1>2. Front(s) = [i \in 1 .. (Len(s) - 1) |-> s[i]]
  BY <1>1 DEF Front
<1>3. \A i \in 1 .. (Len(s) - 1) : s[i] \in S
  BY <1>1
<1>. QED BY <1>1, <1>2, <1>3

LEMMA FramesPopped ==
  ASSUME NEW s, FramesOK(s), s # << >>
  PROVE  /\ FramesOK(Front(s))
         /\ Front(s) # << >> => Last(Front(s)).pc = "body"
<1>. DEFINE S == {s[i] : i \in DOMAIN s}
            r == Front(s)
<1>1. s \in Seq(S) /\ Len(s) \in Nat /\ Len(s) > 0
  BY FramesProperties DEF FramesOK, IsSequence
<1>. HIDE DEF S
<1>2. /\ r \in Seq(S) /\ Len(r) = Len(s) - 1
      /\ \A i \in 1 .. (Len(s) - 1) : r[i] = s[i]
  BY <1>1, FrontProperties
<1>. HIDE DEF r
<1>3. IsSequence(r) /\ DOMAIN r = 1 .. Len(r) /\ (r # << >> <=> Len(r) > 0)
  BY <1>2, SequenceProperties
<1>4. \A i \in 1 .. Len(r) : IsFrame(r[i]) /\ r[i].pc = "body"
  <2>1. ASSUME NEW i \in 1 .. Len(r) PROVE IsFrame(r[i]) /\ r[i].pc = "body"
    <3>1. i \in 1 .. Len(s) /\ i # Len(s) /\ r[i] = s[i]
      BY <1>1, <1>2, <2>1
    <3>. QED BY <3>1, FramesProperties
  <2>. QED BY <2>1
<1>5. FramesOK(r)
  BY <1>3, <1>4 DEF FramesOK
<1>6. ASSUME r # << >> PROVE r[Len(r)].pc = "body"
  <2>1. Len(r) \in 1 .. Len(r)
    BY <1>1, <1>2, <1>3, <1>6
  <2>. QED BY <1>4, <2>1
<1>. QED BY <1>5, <1>6 DEF Last, r

LEMMA FramesReplaced ==
  ASSUME NEW s, FramesOK(s), s # << >>, NEW f, IsFrame(f)
  PROVE  /\ FramesOK(Front(s) \o <<f>>) /\ Last(Front(s) \o <<f>>) = f
         /\ Front(s) \o <<f>> # << >>
<1>. DEFINE S == {s[i] : i \in DOMAIN s} \cup {f}
            r == Front(s) \o <<f>>
<1>1. s \in Seq(S) /\ f \in S /\ Len(s) \in Nat /\ Len(s) > 0
  <2>1. s \in Seq({s[i] : i \in DOMAIN s})
    BY DEF FramesOK, IsSequence
  <2>. QED BY <2>1, FramesProperties
<1>2. /\ Front(s) \in Seq(S) /\ Len(Front(s)) = Len(s) - 1
      /\ \A i \in 1 .. (Len(s) - 1) : Front(s)[i] = s[i]
  BY <1>1, FrontProperties
<1>3. /\ r \in Seq(S) /\ Len(r) = Len(s) /\ r[Len(s)] = f
      /\ \A i \in 1 .. (Len(s) - 1) : r[i] = s[i]
  BY <1>1, <1>2
<1>4. IsSequence(r) /\ DOMAIN r = 1 .. Len(s) /\ r # << >>
  BY <1>1, <1>3, SequenceProperties
<1>5. \A i \in 1 .. Len(s) : i = Len(s) \/ i \in 1 .. (Len(s) - 1)
  BY <1>1
<1>. QED BY <1>1, <1>3, <1>4, <1>5, FramesProperties DEF FramesOK, Last

-----------------------------------------------------------------------------
(* Steps that load and decorate classes.                                   *)

LEMMA RecordInvInit == Init => RecordInv
<1>. SUFFICES ASSUME Init PROVE RecordInv
  OBVIOUS
<1>1. /\ frames = [t \in Threads |-> << >>] /\ info = << >> /\ wraps = << >>
      /\ records = {} /\ made = 0
  BY DEF Init
<1>2. DOMAIN info = {} /\ DOMAIN wraps = {}
  BY <1>1
<1>3. \A t \in Threads : FramesOK(frames[t])
  BY <1>1 DEF FramesOK, IsSequence
<1>4. CallsInv
  BY <1>1, <1>3 DEF CallsInv, AtWrite, AtStart
<1>5. InfoInv
  BY <1>1, <1>2 DEF InfoInv
<1>. QED BY <1>1, <1>2, <1>4, <1>5
         DEF RecordInv, LoadingInv, StartInv, AtStart, RecordsOfTheirCall

(* A decoration adds wrappers with empty dictionaries.                     *)
LEMMA WrappedInfo ==
  ASSUME InfoInv, NEW c, NEW A, Wrapped(c, A), \A w \in DOMAIN info : info[w].name = None
  PROVE  InfoInv' /\ \A w \in DOMAIN info' : info'[w].name = None
<1>. DEFINE W == {<<count + 1, a>> : a \in A}
<1>1. DOMAIN wraps' = DOMAIN wraps \cup W
  BY DEF Wrapped
<1>2. info' = [w \in DOMAIN info \cup W |->
                IF w \in DOMAIN info THEN info[w] ELSE [name |-> None, args |-> None]]
  BY DEF Wrapped
<1>3. DOMAIN info' = DOMAIN wraps'
  BY <1>1, <1>2 DEF InfoInv
<1>4. ASSUME NEW w \in DOMAIN info'
      PROVE  /\ info'[w] = [name |-> info'[w].name, args |-> info'[w].args]
             /\ info'[w].name = None
  <2>1. CASE w \in DOMAIN info
    BY <1>2, <2>1 DEF InfoInv
  <2>2. CASE w \notin DOMAIN info
    BY <1>2, <1>4, <2>2
  <2>. QED BY <2>1, <2>2
<1>5. info' = [w \in DOMAIN wraps' |-> [name |-> info'[w].name, args |-> info'[w].args]]
  BY <1>2, <1>3, <1>4
<1>. QED BY <1>3, <1>4, <1>5 DEF InfoInv

LEMMA LoadStep ==
  ASSUME RecordInv, made = 0, UNCHANGED <<frames, records, made, overtaken>>,
         UNCHANGED <<wraps, info>> \/ \E c, A : Wrapped(c, A)
  PROVE  RecordInv'
<1>1. /\ InfoInv /\ \A t \in Threads : frames[t] = << >>
      /\ records = {} /\ \A w \in DOMAIN info : info[w].name = None
  BY DEF RecordInv, LoadingInv
<1>2. InfoInv' /\ \A w \in DOMAIN info' : info'[w].name = None
  BY <1>1, WrappedInfo DEF InfoInv
<1>3. frames' = [t \in Threads |-> frames'[t]]
  BY DEF RecordInv, CallsInv
<1>4. \A t \in Threads : frames'[t] = << >> /\ FramesOK(frames'[t])
  BY <1>1 DEF RecordInv, CallsInv
<1>5. CallsInv' /\ StartInv'
  BY <1>3, <1>4 DEF CallsInv, StartInv, AtWrite, AtStart
<1>. QED BY <1>1, <1>2, <1>4, <1>5 DEF RecordInv, LoadingInv, RecordsOfTheirCall

LEMMA LoadingOK ==
  ASSUME RecordInv, NEW c \in Classes, Create(c) \/ TracedMeta(c) \/ trace_cls(c) \/ trace(c)
  PROVE  RecordInv'
<1>1. made = 0
  BY DEF Create, TracedMeta, trace_cls, trace, Loading, RecordInv, LoadingInv
<1>2. UNCHANGED <<frames, records, made, overtaken>>
  BY DEF Create, TracedMeta, trace_cls, trace, Decorated, callVars
<1>3. UNCHANGED <<wraps, info>> \/ \E A : Wrapped(c, A)
  BY DEF Create, TracedMeta, trace_cls, trace, Decorated, callVars
<1>. QED BY <1>1, <1>2, <1>3, LoadStep

-----------------------------------------------------------------------------
(* Steps of calls.  The wrappers are those that were there.                *)

LEMMA OriginalKept ==
  ASSUME UNCHANGED wraps
  PROVE  Original' = Original
BY Zenon DEF Original, IsWrapper

LEMMA OtherThreads ==
  ASSUME CallsInv, NEW t \in Threads, NEW s, FramesOK(s),
         frames' = [frames EXCEPT ![t] = s]
  PROVE  /\ frames' = [u \in Threads |-> frames'[u]]
         /\ frames'[t] = s
         /\ \A u \in Threads \ {t} : frames'[u] = frames[u]
         /\ \A u \in Threads : FramesOK(frames'[u])
<1>1. /\ frames' = [u \in Threads |-> frames'[u]] /\ frames'[t] = s
      /\ \A u \in Threads \ {t} : frames'[u] = frames[u]
  BY DEF CallsInv
<1>. QED BY <1>1 DEF CallsInv

LEMMA CallOK ==
  ASSUME RecordInv, NEW t \in Threads, Call(t)
  PROVE  RecordInv'
<1>1. PICK c \in Classes, a \in Attrs :
        /\ \A d \in Classes : status[d] # "body"
        /\ IsWrapper(Lookup(c, a).object)
        /\ frames' = [frames EXCEPT ![t] =
             Append(@, [object |-> Lookup(c, a).object, call |-> made + 1, pc |-> "write"])]
  BY DEF Call
<1>. DEFINE f == [object |-> Lookup(c, a).object, call |-> made + 1, pc |-> "write"]
            s == Append(frames[t], f)
<1>2. /\ InBody(t) /\ made' = made + 1
      /\ UNCHANGED <<status, wraps, info, records, overtaken>>
  BY DEF Call, classVars
<1>3. IsFrame(f) /\ f.pc = "write" /\ f.object \in DOMAIN info
  BY <1>1 DEF IsFrame, IsWrapper, RecordInv, InfoInv
<1>. HIDE DEF f
<1>4. FramesOK(s) /\ Last(s) = f
  <2>1. FramesOK(frames[t]) /\ (frames[t] # << >> => frames[t][Len(frames[t])].pc = "body")
    BY <1>2 DEF RecordInv, CallsInv, InBody, Top, Last
  <2>. QED BY <1>3, <2>1, FramesPushed
<1>5. frames' = [frames EXCEPT ![t] = s]
  BY <1>1 DEF f, RecordInv, CallsInv
<1>. HIDE DEF s
<1>6. /\ frames' = [u \in Threads |-> frames'[u]] /\ frames'[t] = s
      /\ \A u \in Threads \ {t} : frames'[u] = frames[u]
      /\ \A u \in Threads : FramesOK(frames'[u])
  BY <1>4, <1>5, OtherThreads DEF RecordInv
<1>7. CallsInv'
  <2>1. ASSUME NEW u \in Threads, AtWrite(u)' \/ AtStart(u)'
        PROVE  Top(u)'.object \in DOMAIN info'
    <3>1. CASE u = t
      BY <1>2, <1>3, <1>4, <1>6, <3>1 DEF Top
    <3>2. CASE u # t
      BY <1>2, <1>6, <2>1, <3>2 DEF RecordInv, CallsInv, AtWrite, AtStart, Top
    <3>. QED BY <3>1, <3>2
  <2>. QED BY <1>6, <2>1 DEF CallsInv
<1>8. StartInv'
  <2>1. ASSUME NEW u \in Threads, AtStart(u)'
        PROVE  AtStart(u) /\ Top(u)' = Top(u)
    <3>1. u # t
      BY <1>3, <1>4, <1>6, <2>1 DEF AtStart, Top
    <3>. QED BY <1>6, <2>1, <3>1 DEF AtStart, Top
  <2>. QED BY <1>2, <2>1, OriginalKept DEF RecordInv, StartInv
<1>9. InfoInv' /\ RecordsOfTheirCall'
  BY <1>2, OriginalKept DEF RecordInv, InfoInv, RecordsOfTheirCall
<1>10. LoadingInv'
  BY <1>1, <1>2 DEF RecordInv, LoadingInv
<1>. QED BY <1>7, <1>8, <1>9, <1>10 DEF RecordInv

(* A wrapper has written the arguments of a call: the dictionary has its   *)
(* name and these arguments, and whoever was about to send it is overtaken.*)
LEMMA WriteArgsOK ==
  ASSUME RecordInv, NEW t \in Threads, WriteArgs(t)
  PROVE  RecordInv'
<1>. DEFINE w == Top(t).object
            f == [Top(t) EXCEPT !.pc = "start"]
            s == Front(frames[t]) \o <<f>>
<1>1. /\ AtWrite(t) /\ w \in DOMAIN info
      /\ UNCHANGED <<status, wraps, records, made>>
      /\ frames' = [frames EXCEPT ![t] = s]
  BY DEF WriteArgs, SetTop, RecordInv, CallsInv, AtWrite, classVars
<1>2. /\ info' = [info EXCEPT ![w].name = IF @ = None THEN Original[w] ELSE @,
                             ![w].args = Top(t).call]
      /\ overtaken' = overtaken \cup {Top(u).call : u \in {v \in Threads \ {t} :
           AtStart(v) /\ Top(v).object = w}}
  BY DEF WriteArgs, InfoOf, ArgsWritten, AtStart
<1>3. IsFrame(Top(t)) /\ FramesOK(frames[t]) /\ frames[t] # << >>
  <2>1. FramesOK(frames[t]) /\ frames[t] # << >>
    BY <1>1 DEF RecordInv, CallsInv, AtWrite
  <2>2. Len(frames[t]) \in 1 .. Len(frames[t])
    BY <2>1, FramesProperties
  <2>. QED BY <2>1, <2>2, FramesProperties DEF Top, Last
<1>4. IsFrame(f) /\ f.pc = "start" /\ f.object = w /\ f.call = Top(t).call
  BY <1>3 DEF IsFrame
<1>5. FramesOK(s) /\ Last(s) = f
  BY <1>3, <1>4, FramesReplaced
<1>. HIDE DEF f, s
<1>6. /\ frames' = [u \in Threads |-> frames'[u]] /\ frames'[t] = s
      /\ \A u \in Threads \ {t} : frames'[u] = frames[u]
      /\ \A u \in Threads : FramesOK(frames'[u])
  BY <1>1, <1>5, OtherThreads DEF RecordInv
<1>7. /\ Top(t)' = f
      /\ \A u \in Threads \ {t} :
           (Top(u)' = Top(u)) /\ (AtWrite(u)' <=> AtWrite(u)) /\ (AtStart(u)' <=> AtStart(u))
  BY <1>5, <1>6 DEF Top, AtWrite, AtStart
<1>8. /\ DOMAIN info' = DOMAIN info
      /\ info'[w].name = Original[w] /\ info'[w].args = Top(t).call
      /\ info'[w] = [name |-> info'[w].name, args |-> info'[w].args]
      /\ \A o \in DOMAIN info \ {w} : info'[o] = info[o]
  <2>. DEFINE d == info[w]
  <2>1. d = [name |-> d.name, args |-> d.args] /\ d.name \in {None, Original[w]}
    BY <1>1 DEF RecordInv, InfoInv
  <2>. QED BY <1>1, <1>2, <2>1
<1>9. CallsInv'
  <2>1. ASSUME NEW u \in Threads, AtWrite(u)' \/ AtStart(u)'
        PROVE  Top(u)'.object \in DOMAIN info'
    <3>1. CASE u = t
      BY <1>1, <1>4, <1>7, <1>8, <3>1
    <3>2. CASE u # t
      BY <1>7, <1>8, <2>1, <3>2 DEF RecordInv, CallsInv
    <3>. QED BY <3>1, <3>2
  <2>. QED BY <1>6, <2>1 DEF CallsInv
<1>10. InfoInv'
  <2>1. ASSUME NEW o \in DOMAIN info
        PROVE  /\ info'[o] = [name |-> info'[o].name, args |-> info'[o].args]
               /\ info'[o].name \in {None, Original[o]}
    <3>1. CASE o = w
      BY <1>8, <3>1
    <3>2. CASE o # w
      BY <1>8, <3>2 DEF RecordInv, InfoInv
    <3>. QED BY <3>1, <3>2
  <2>2. DOMAIN info' = DOMAIN wraps' /\ info' = [o \in DOMAIN info |-> info'[o]]
    BY <1>1, <1>2, <1>8 DEF RecordInv, InfoInv
  <2>3. info' = [o \in DOMAIN wraps' |-> [name |-> info'[o].name, args |-> info'[o].args]]
    BY <1>8, <2>1, <2>2
  <2>. QED BY <1>1, <1>8, <2>1, <2>2, <2>3, OriginalKept DEF InfoInv
<1>11. StartInv'
  <2>1. ASSUME NEW u \in Threads, AtStart(u)'
        PROVE  LET o == Top(u)'.object IN
               /\ info'[o].name = Original[o]
               /\ Top(u)'.call \in overtaken' \/ info'[o].args = Top(u)'.call
    <3>1. CASE u = t
      BY <1>4, <1>7, <1>8, <3>1
    <3>2. CASE u # t /\ Top(u).object = w
      <4>1. AtStart(u) /\ Top(u)' = Top(u)
        BY <1>7, <2>1, <3>2
      <4>2. Top(u).call \in overtaken'
        BY <1>2, <3>2, <4>1
      <4>. QED BY <1>8, <3>2, <4>1, <4>2
    <3>3. CASE u # t /\ Top(u).object # w
      <4>1. AtStart(u) /\ Top(u)' = Top(u) /\ Top(u).object \in DOMAIN info
        BY <1>7, <2>1, <3>3 DEF RecordInv, CallsInv
      <4>2. info'[Top(u).object] = info[Top(u).object]
        BY <1>8, <3>3, <4>1
      <4>. QED BY <1>2, <4>1, <4>2 DEF RecordInv, StartInv
    <3>. QED BY <3>1, <3>2, <3>3
  <2>. QED BY <1>1, <2>1, OriginalKept DEF StartInv
<1>12. LoadingInv'
  BY <1>1 DEF RecordInv, LoadingInv, AtWrite
<1>13. RecordsOfTheirCall'
  BY <1>1, <1>2, OriginalKept DEF RecordInv, RecordsOfTheirCall
<1>. QED BY <1>9, <1>10, <1>11, <1>12, <1>13 DEF RecordInv

LEMMA StartPointOK ==
  ASSUME RecordInv, NEW t \in Threads, StartPoint(t)
  PROVE  RecordInv'
<1>. DEFINE w == Top(t).object
            f == [Top(t) EXCEPT !.object = wraps[w].of, !.pc = At(wraps[w].of)]
            s == Front(frames[t]) \o <<f>>
            r == [object |-> w, call |-> Top(t).call, name |-> info[w].name, args |-> info[w].args]
<1>1. /\ AtStart(t) /\ w \in DOMAIN info
      /\ UNCHANGED <<status, wraps, info, made, overtaken>>
      /\ frames' = [frames EXCEPT ![t] = s]
      /\ records' = records \cup {r}
  BY DEF StartPoint, SetTop, InfoOf, RecordInv, CallsInv, AtStart, classVars
<1>2. IsFrame(Top(t)) /\ FramesOK(frames[t]) /\ frames[t] # << >>
  <2>1. FramesOK(frames[t]) /\ frames[t] # << >>
    BY <1>1 DEF RecordInv, CallsInv, AtStart
  <2>2. Len(frames[t]) \in 1 .. Len(frames[t])
    BY <2>1, FramesProperties
  <2>. QED BY <2>1, <2>2, FramesProperties DEF Top, Last
<1>3. /\ IsFrame(f) /\ f.pc # "start"
      /\ f.pc = "write" => f.object \in DOMAIN info
  <2>. DEFINE g == Top(t)
              o == wraps[w].of
              p == At(o)
  <2>1. IsFrame(f) /\ f.object = o /\ f.pc = p
    <3>1. f = [g EXCEPT !.object = o, !.pc = p] /\ g = [object |-> g.object, call |-> g.call, pc |-> g.pc]
      BY <1>2 DEF IsFrame
    <3>. HIDE DEF f, g, o, p
    <3>2. f = [object |-> o, call |-> g.call, pc |-> p]
      BY <3>1
    <3>. QED BY <3>2 DEF IsFrame
  <2>2. At(wraps[w].of) = IF wraps[w].of \in DOMAIN info THEN "write" ELSE "body"
    BY DEF At, IsWrapper, RecordInv, InfoInv
  <2>. HIDE DEF f
  <2>. QED BY <2>1, <2>2
<1>4. FramesOK(s) /\ Last(s) = f
  BY <1>2, <1>3, FramesReplaced
<1>. HIDE DEF f, s
<1>5. /\ frames' = [u \in Threads |-> frames'[u]] /\ frames'[t] = s
      /\ \A u \in Threads \ {t} : frames'[u] = frames[u]
      /\ \A u \in Threads : FramesOK(frames'[u])
  BY <1>1, <1>4, OtherThreads DEF RecordInv
<1>6. /\ Top(t)' = f
      /\ \A u \in Threads \ {t} :
           (Top(u)' = Top(u)) /\ (AtWrite(u)' <=> AtWrite(u)) /\ (AtStart(u)' <=> AtStart(u))
  BY <1>4, <1>5 DEF Top, AtWrite, AtStart
<1>7. ~AtStart(t)' /\ (AtWrite(t)' => Top(t)'.object \in DOMAIN info)
  BY <1>3, <1>6 DEF AtWrite, AtStart
<1>8. CallsInv'
  <2>1. ASSUME NEW u \in Threads, AtWrite(u)' \/ AtStart(u)'
        PROVE  Top(u)'.object \in DOMAIN info'
    <3>1. CASE u = t
      BY <1>1, <1>7, <2>1, <3>1
    <3>2. CASE u # t
      BY <1>1, <1>6, <2>1, <3>2 DEF RecordInv, CallsInv
    <3>. QED BY <3>1, <3>2
  <2>. QED BY <1>5, <2>1 DEF CallsInv
<1>9. StartInv'
  <2>1. ASSUME NEW u \in Threads, AtStart(u)'
        PROVE  AtStart(u) /\ Top(u)' = Top(u)
    BY <1>6, <1>7, <2>1
  <2>. QED BY <1>1, <2>1, OriginalKept DEF RecordInv, StartInv
<1>10. InfoInv'
  BY <1>1, OriginalKept DEF RecordInv, InfoInv
<1>11. made # 0 /\ LoadingInv'
  BY <1>1 DEF RecordInv, LoadingInv, AtStart
<1>12. RecordsOfTheirCall'
  <2>1. r.name = Original[r.object] /\ (r.call \notin overtaken => r.args = r.call)
    BY <1>1 DEF RecordInv, StartInv
  <2>. HIDE DEF r
  <2>. QED BY <1>1, <2>1, OriginalKept DEF RecordInv, RecordsOfTheirCall
<1>. QED BY <1>8, <1>9, <1>10, <1>11, <1>12 DEF RecordInv

LEMMA ReturnOK ==
  ASSUME RecordInv, NEW t \in Threads, Return(t)
  PROVE  RecordInv'
<1>. DEFINE s == Front(frames[t])
<1>1. /\ frames[t] # << >> /\ FramesOK(frames[t])
      /\ UNCHANGED <<status, wraps, info, made, overtaken, records>>
      /\ frames' = [frames EXCEPT ![t] = s]
  BY DEF Return, RecordInv, CallsInv, classVars
<1>2. FramesOK(s) /\ (s # << >> => Last(s).pc = "body")
  BY <1>1, FramesPopped
<1>. HIDE DEF s
<1>3. /\ frames' = [u \in Threads |-> frames'[u]] /\ frames'[t] = s
      /\ \A u \in Threads \ {t} : frames'[u] = frames[u]
      /\ \A u \in Threads : FramesOK(frames'[u])
  BY <1>1, <1>2, OtherThreads DEF RecordInv
<1>4. /\ ~AtWrite(t)' /\ ~AtStart(t)'
      /\ \A u \in Threads \ {t} :
           (Top(u)' = Top(u)) /\ (AtWrite(u)' <=> AtWrite(u)) /\ (AtStart(u)' <=> AtStart(u))
  BY <1>2, <1>3 DEF Top, AtWrite, AtStart
<1>5. CallsInv'
  BY <1>1, <1>3, <1>4 DEF RecordInv, CallsInv
<1>6. StartInv'
  BY <1>1, <1>4, OriginalKept DEF RecordInv, StartInv
<1>7. InfoInv' /\ RecordsOfTheirCall'
  BY <1>1, OriginalKept DEF RecordInv, InfoInv, RecordsOfTheirCall
<1>8. LoadingInv'
  BY <1>1 DEF RecordInv, LoadingInv
<1>. QED BY <1>5, <1>6, <1>7, <1>8 DEF RecordInv

LEMMA RecordInvNext == RecordInv /\ [Next]_vars => RecordInv'
<1>. SUFFICES ASSUME RecordInv, [Next]_vars PROVE RecordInv'
  OBVIOUS
<1>1. CASE \E c \in Classes : Create(c) \/ TracedMeta(c) \/ trace_cls(c) \/ trace(c)
  BY <1>1, LoadingOK
<1>2. CASE \E t \in Threads : Call(t) \/ WriteArgs(t) \/ StartPoint(t) \/ Return(t)
  BY <1>2, CallOK, WriteArgsOK, StartPointOK, ReturnOK
<1>3. CASE UNCHANGED vars
  <2>1. UNCHANGED <<status, wraps, frames, info, records, made, overtaken>>
    BY <1>3 DEF vars, classVars, callVars
  <2>2. \A t \in Threads :
          (Top(t)' = Top(t)) /\ (AtWrite(t)' <=> AtWrite(t)) /\ (AtStart(t)' <=> AtStart(t))
    BY <2>1 DEF Top, AtWrite, AtStart
  <2>3. CallsInv' /\ StartInv'
    BY <2>1, <2>2, OriginalKept DEF RecordInv, CallsInv, StartInv
  <2>4. InfoInv' /\ LoadingInv' /\ RecordsOfTheirCall'
    BY <2>1, OriginalKept DEF RecordInv, InfoInv, LoadingInv, RecordsOfTheirCall
  <2>. QED BY <2>3, <2>4 DEF RecordInv
<1>. QED BY <1>1, <1>2, <1>3 DEF Next

(* Whatever classes are decorated, inherited and called, in any recursion  *)
(* and from any number of threads, a start record names the function that  *)
(* was called; and it has the arguments of its own call, unless a call of  *)
(* the same wrapper in another thread wrote its own between the two steps: *)
(* the one dictionary of each wrapper (profiler.py trace()) is the only    *)
(* way for arguments to get into a record of another call.                 *)
THEOREM RecordsAreOfTheirCall == Spec => []RecordsOfTheirCall
<1>1. RecordInv => RecordsOfTheirCall
  BY DEF RecordInv
<1>. QED BY RecordInvInit, RecordInvNext, <1>1, PTL DEF Spec

-----------------------------------------------------------------------------
(* What a decoration leaves alone.                                         *)

DictInv == dict = [c \in Classes |-> dict[c]]

(* A step changes the dictionary of its target only.                       *)
LEMMA OneDictChanges ==
  ASSUME DictInv, [Next]_vars
  PROVE  /\ DictInv'
         /\ \A d \in Classes \ {target'}, a \in Attrs : dict'[d][a] = dict[d][a]
<1>1. ASSUME NEW c \in Classes, Create(c)
      PROVE  /\ DictInv'
             /\ \A d \in Classes \ {target'}, a \in Attrs : dict'[d][a] = dict[d][a]
  <2>1. target' = c /\ dict' = [dict EXCEPT ![c] = dict'[c]]
    BY <1>1 DEF Create, DictInv
  <2>. QED BY <2>1 DEF DictInv
<1>2. ASSUME NEW c \in Classes, NEW A, Wrapped(c, A), target' = c
      PROVE  /\ DictInv'
             /\ \A d \in Classes \ {target'}, a \in Attrs : dict'[d][a] = dict[d][a]
  <2>1. dict' = [d \in Classes |-> [a \in Attrs |->
                  IF a \in A /\ d = c THEN [kind |-> KindOf(c, a), object |-> <<count + 1, a>>]
                  ELSE dict[d][a]]]
    BY <1>2 DEF Wrapped, Holder
  <2>. QED BY <1>2, <2>1 DEF DictInv
<1>3. CASE UNCHANGED dict
  BY <1>3 DEF DictInv
<1>4. \/ UNCHANGED dict
      \/ \E c \in Classes : Create(c) \/ \E A : Wrapped(c, A) /\ target' = c
  BY DEF Next, TracedMeta, trace_cls, trace, Decorated, Call, WriteArgs, StartPoint, Return,
         vars, classVars
<1>. QED BY <1>1, <1>2, <1>3, <1>4

LEMMA MinOfNaturals ==
  ASSUME NEW S \in SUBSET Nat, S # {}
  PROVE  Min(S) \in S /\ \A i \in S : Min(S) <= i
<1>. DEFINE R == OpToRel(<, Nat)
<1>1. IsWellFoundedOn(R, Nat)
  BY NatLessThanWellFounded, Zenon
<1>2. \A i, j \in Nat : <<i, j>> \in R <=> i < j
  BY DEF OpToRel
<1>. HIDE DEF R
<1>3. PICK i \in S : \A j \in S : ~ (<<j, i>> \in R)
  BY <1>1, WFMin
<1>4. ASSUME NEW j \in S PROVE i <= j
  <2>1. i \in Nat /\ j \in Nat /\ ~ (<<j, i>> \in R)
    BY <1>3
  <2>2. ~ (j < i)
    BY <1>2, <2>1
  <2>. QED BY <2>1, <2>2
<1>. QED BY <1>4 DEF Min

LEMMA LookupKept ==
  ASSUME NEW c \in Classes, NEW a \in Attrs,
         \A d \in ToSet(MRO[c]) : dict'[d][a] = dict[d][a]
  PROVE  Lookup(c, a)' = Lookup(c, a)
<1>1. \A i \in DOMAIN MRO[c] : dict'[MRO[c][i]][a] = dict[MRO[c][i]][a]
  BY DEF ToSet
<1>2. Holders(c, a)' = Holders(c, a)
  BY <1>1 DEF Holders
<1>3. CASE Holders(c, a) = {}
  BY <1>2, <1>3 DEF Lookup
<1>4. CASE Holders(c, a) # {}
  <2>1. Holders(c, a) \subseteq DOMAIN MRO[c] /\ DOMAIN MRO[c] \subseteq Nat
    BY MroAssumption DEF Holders
  <2>2. Min(Holders(c, a)) \in Holders(c, a)
    BY <1>4, <2>1, MinOfNaturals
  <2>. QED BY <1>1, <1>2, <1>4, <2>1, <2>2 DEF Lookup, FirstHolder
<1>. QED BY <1>3, <1>4

(* Whatever is decorated, with whatever options: a class that does not     *)
(* inherit from the one that the step is about (trace_cls() and TracedMeta *)
(* set the wrappers on the class itself, also those of inherited methods)  *)
(* does with each of its attributes what it did before.                    *)
THEOREM OthersAreUntouched == Spec => OthersUntouched
<1>1. Init => DictInv
  BY DEF Init, DictInv
<1>2. DictInv /\ [Next]_vars => DictInv'
  BY OneDictChanges
<1>3. DictInv /\ [Next]_vars =>
        [\A d \in Classes : target' \notin ToSet(MRO[d]) =>
           \A a \in Attrs : Lookup(d, a)' = Lookup(d, a)]_vars
  <2>. SUFFICES ASSUME DictInv, [Next]_vars, NEW d \in Classes, target' \notin ToSet(MRO[d]),
                       NEW a \in Attrs
                PROVE  Lookup(d, a)' = Lookup(d, a)
    OBVIOUS
  <2>1. ToSet(MRO[d]) \subseteq Classes
    BY MroAssumption DEF ToSet
  <2>2. \A e \in ToSet(MRO[d]) : dict'[e][a] = dict[e][a]
    BY <2>1, OneDictChanges
  <2>. QED BY <2>2, LookupKept
<1>. QED BY <1>1, <1>2, <1>3, PTL DEF Spec, OthersUntouched
-----------------------------------------------------------------------------
(* The chains of wrappers: from a wrapper to what it calls, down to the    *)
(* function that a class has defined.                                      *)
Known == Originals \cup DOMAIN wraps

DictOK ==
  /\ dict \in [Classes -> [Attrs -> Entries \cup {None}]]
  /\ \A d \in Classes, a \in Attrs : dict[d][a] # None =>
       dict[d][a].object \in Known /\ dict[d][a].object[2] = a
  /\ status = [d \in Classes |-> status[d]]
  /\ \A d \in Classes : status[d] = "none" => \A a \in Attrs : dict[d][a] = None

Descends(W) ==
  /\ DOMAIN W \subseteq Wrappers
  /\ \A w \in DOMAIN W : /\ W[w].of \in Originals \cup DOMAIN W
                         /\ W[w].of \in DOMAIN W => W[w].of[1] < w[1]

WrapsOK ==
  /\ count \in Nat
  /\ \A w \in DOMAIN wraps : w[1] <= count
  /\ Descends(wraps)

OriginalEq(f, W) == f = [o \in Objects |-> IF o \in DOMAIN W THEN f[W[o].of] ELSE o]
LayersEq(f, W) == f = [o \in Objects |-> IF o \in DOMAIN W THEN 1 + f[W[o].of] ELSE 0]
BoundEq(f, W) ==
  f = [o \in Objects |-> IF o \in DOMAIN W THEN f[W[o].of] + (IF W[o].bound THEN 1 ELSE 0) ELSE 0]

ChainsOK ==
  /\ OriginalEq(Original, wraps) /\ LayersEq(Layers, wraps) /\ BoundEq(BoundLayers, wraps)
  /\ \A o \in Known : Original[o] \in Originals /\ Layers[o] \in Nat

KindIn(f, o) == Defined[f[o][1]][f[o][2]]
KindAt(o) == KindIn(Original, o)
KindsOK ==
  /\ \A d \in Classes, a \in Attrs :
       dict[d][a] # None => dict[d][a].kind = KindAt(dict[d][a].object)
  /\ \A o \in Known : BoundLayers[o] = IF KindAt(o) = "class" THEN Layers[o] ELSE 0

MarksOK ==
  /\ traced \in [Objects -> Nat]
  /\ \A o \in Known : KindAt(o) # "class" =>
       /\ traced[o] = 0 => Layers[o] = 0
       /\ ~multiple => Layers[o] <= 1

ChainInv == DictOK /\ WrapsOK /\ ChainsOK /\ KindsOK /\ MarksOK

LEMMA ObjectShape ==
  /\ \A o \in Originals : o[1] \in Classes /\ o[2] \in Attrs /\ o = <<o[1], o[2]>>
  /\ \A o \in Wrappers : o[1] \in 1 .. MaxDecorations /\ o[2] \in Attrs /\ o = <<o[1], o[2]>>
  /\ \A c \in Classes, a \in Attrs : <<c, a>> \in Originals
  /\ \A n \in 1 .. MaxDecorations, a \in Attrs : <<n, a>> \in Wrappers
  /\ Originals \cap Wrappers = {}
<1>1. \A o \in Originals : o[1] \in Classes /\ o[2] \in Attrs /\ o = <<o[1], o[2]>>
  BY DEF Originals
<1>2. \A o \in Wrappers : o[1] \in 1 .. MaxDecorations /\ o[2] \in Attrs /\ o = <<o[1], o[2]>>
  BY DEF Wrappers
<1>3. \A c \in Classes, a \in Attrs : <<c, a>> \in Originals
  BY DEF Originals
<1>4. \A n \in 1 .. MaxDecorations, a \in Attrs : <<n, a>> \in Wrappers
  BY DEF Wrappers
<1>5. ASSUME NEW o \in Originals, o \in Wrappers PROVE FALSE
  <2>1. o[1] \in Classes /\ o[1] \in 1 .. MaxDecorations
    BY <1>1, <1>2, <1>5
  <2>. QED BY <2>1, ClassesAssumption, BoundsAssumption
<1>. QED BY <1>1, <1>2, <1>3, <1>4, <1>5

(* What is computed along a chain of wrappers is determined by what it is  *)
(* at the end, since a wrapper calls an earlier one.                       *)
LEMMA ChainsAgree ==
  ASSUME NEW W, Descends(W), NEW f, NEW g,
         \A o \in Objects \ DOMAIN W : f[o] = g[o],
         \A w \in DOMAIN W : f[W[w].of] = g[W[w].of] => f[w] = g[w]
  PROVE  \A o \in Objects : f[o] = g[o]
<1>. DEFINE S == {n \in 1 .. MaxDecorations :
                    \E a \in Attrs : <<n, a>> \in DOMAIN W /\ f[<<n, a>>] # g[<<n, a>>]}
<1>1. ASSUME S # {} PROVE FALSE
  <2>1. S \in SUBSET Nat /\ Min(S) \in S
    <3>1. S \in SUBSET Nat
      BY BoundsAssumption
    <3>. HIDE DEF S
    <3>. QED BY <1>1, <3>1, MinOfNaturals
  <2>2. PICK a \in Attrs : LET w == <<Min(S), a>> IN w \in DOMAIN W /\ f[w] # g[w]
    BY <2>1
  <2>. DEFINE w == <<Min(S), a>>
              v == W[w].of
  <2>3. v \in Originals \cup DOMAIN W /\ (v \in DOMAIN W => v[1] < Min(S))
    BY <2>2 DEF Descends
  <2>4. ASSUME v \in DOMAIN W PROVE f[v] = g[v]
    <3>1. v \in Wrappers /\ v[1] \in 1 .. MaxDecorations /\ v[2] \in Attrs /\ v = <<v[1], v[2]>>
      BY <2>4, ObjectShape DEF Descends
    <3>2. v[1] \notin S
      <4>1. v[1] \in Nat /\ Min(S) \in Nat /\ v[1] < Min(S)
        BY <2>1, <2>3, <2>4, <3>1, BoundsAssumption
      <4>. HIDE DEF S, v
      <4>. QED BY <1>1, <2>1, <4>1, MinOfNaturals
    <3>. HIDE DEF v
    <3>3. <<v[1], v[2]>> \in DOMAIN W => f[<<v[1], v[2]>>] = g[<<v[1], v[2]>>]
      BY <3>1, <3>2
    <3>. QED BY <2>4, <3>1, <3>3
  <2>5. ASSUME v \notin DOMAIN W PROVE f[v] = g[v]
    BY <2>3, <2>5 DEF Objects
  <2>. QED BY <2>2, <2>4, <2>5
<1>2. ASSUME NEW o \in DOMAIN W PROVE f[o] = g[o]
  <2>1. o[1] \in 1 .. MaxDecorations /\ o[2] \in Attrs /\ o = <<o[1], o[2]>>
    BY <1>2, ObjectShape DEF Descends
  <2>2. <<o[1], o[2]>> \in DOMAIN W => f[<<o[1], o[2]>>] = g[<<o[1], o[2]>>]
    BY <1>1, <2>1
  <2>. QED BY <1>2, <2>1, <2>2
<1>. QED BY <1>2

LEMMA ChainsDefined ==
  /\ (\E f : OriginalEq(f, wraps)) => OriginalEq(Original, wraps)
  /\ (\E f : LayersEq(f, wraps)) => LayersEq(Layers, wraps)
  /\ (\E f : BoundEq(f, wraps)) => BoundEq(BoundLayers, wraps)
<1>1. (\E f : OriginalEq(f, wraps)) => OriginalEq(Original, wraps)
  BY Zenon DEF OriginalEq, Original, IsWrapper
<1>2. (\E f : LayersEq(f, wraps)) => LayersEq(Layers, wraps)
  BY Zenon DEF LayersEq, Layers, IsWrapper
<1>3. (\E f : BoundEq(f, wraps)) => BoundEq(BoundLayers, wraps)
  BY Zenon DEF BoundEq, BoundLayers, IsWrapper
<1>. QED BY <1>1, <1>2, <1>3

LEMMA ChainsDefinedNext ==
  /\ (\E f : OriginalEq(f, wraps')) => OriginalEq(Original', wraps')
  /\ (\E f : LayersEq(f, wraps')) => LayersEq(Layers', wraps')
  /\ (\E f : BoundEq(f, wraps')) => BoundEq(BoundLayers', wraps')
<1>1. (\E f : OriginalEq(f, wraps')) => OriginalEq(Original', wraps')
  BY Zenon DEF OriginalEq, Original, IsWrapper
<1>2. (\E f : LayersEq(f, wraps')) => LayersEq(Layers', wraps')
  BY Zenon DEF LayersEq, Layers, IsWrapper
<1>3. (\E f : BoundEq(f, wraps')) => BoundEq(BoundLayers', wraps')
  BY Zenon DEF BoundEq, BoundLayers, IsWrapper
<1>. QED BY <1>1, <1>2, <1>3

LEMMA LookupFinds ==
  ASSUME DictOK, NEW c \in Classes, NEW a \in Members(c)
  PROVE  /\ Lookup(c, a) \in Entries /\ Lookup(c, a).object[2] = a
         /\ Lookup(c, a).object \in Known
         /\ \E d \in Classes : dict[d][a] # None /\ Lookup(c, a) = dict[d][a]
<1>1. a \in Attrs /\ Lookup(c, a) # None /\ Holders(c, a) # {}
      /\ Lookup(c, a) = dict[FirstHolder(c, a)][a]
  BY DEF Members, Lookup
<1>2. MRO[c] \in Seq(Classes) /\ DOMAIN MRO[c] \subseteq Nat
  BY MroAssumption
<1>3. Min(Holders(c, a)) \in DOMAIN MRO[c] /\ FirstHolder(c, a) \in Classes
  <2>1. Holders(c, a) \in SUBSET Nat /\ Holders(c, a) \subseteq DOMAIN MRO[c]
    BY <1>2 DEF Holders
  <2>2. Min(Holders(c, a)) \in DOMAIN MRO[c]
    BY <1>1, <2>1, MinOfNaturals
  <2>. QED BY <1>2, <2>2 DEF FirstHolder
<1>. QED BY <1>1, <1>3 DEF DictOK

(* A class comes first in its own resolution order.                        *)
LEMMA OwnIsFirst ==
  ASSUME NEW c \in Classes, NEW a \in Attrs, dict[c][a] # None
  PROVE  Lookup(c, a) = dict[c][a]
<1>1. 1 \in DOMAIN MRO[c] /\ MRO[c][1] = c /\ DOMAIN MRO[c] = 1 .. Len(MRO[c])
      /\ Len(MRO[c]) \in Nat
  BY MroAssumption
<1>2. 1 \in Holders(c, a) /\ Holders(c, a) \in SUBSET Nat /\ \A i \in Holders(c, a) : 1 <= i
  BY <1>1 DEF Holders
<1>3. Min(Holders(c, a)) = 1
  <2>1. Min(Holders(c, a)) \in Holders(c, a) /\ Min(Holders(c, a)) <= 1
    BY <1>2, MinOfNaturals
  <2>. QED BY <1>2, <2>1
<1>. QED BY <1>1, <1>2, <1>3 DEF Lookup, FirstHolder

(* A wrapper continues the chain of what it calls, and leaves the chains   *)
(* that there were as they are.                                            *)
LEMMA ChainsGrow ==
  ASSUME DictOK, WrapsOK, ChainsOK, count < MaxDecorations,
         NEW c \in Classes, NEW A \in SUBSET Members(c), Wrapped(c, A)
  PROVE  /\ WrapsOK' /\ ChainsOK'
         /\ Known' = Known \cup {<<count + 1, a>> : a \in A}
         /\ \A o \in Known : /\ o \notin {<<count + 1, a>> : a \in A}
                             /\ Original'[o] = Original[o] /\ Layers'[o] = Layers[o]
                             /\ BoundLayers'[o] = BoundLayers[o]
         /\ \A a \in A : LET o == <<count + 1, a>> 
                             e == Lookup(c, a) IN
              /\ Original'[o] = Original[e.object]
              /\ Layers'[o] = 1 + Layers[e.object]
              /\ BoundLayers'[o] = BoundLayers[e.object] + IF e.kind = "class" THEN 1 ELSE 0
<1>. DEFINE n == count + 1
            new == {<<n, a>> : a \in A}
            E(a) == Lookup(c, a)
<1>1. /\ count' = n /\ n \in 1 .. MaxDecorations /\ A \subseteq Attrs
      /\ wraps' = [w \in DOMAIN wraps \cup new |->
           IF w \in DOMAIN wraps THEN wraps[w]
           ELSE [of |-> E(w[2]).object, bound |-> E(w[2]).kind = "class"]]
  BY BoundsAssumption DEF Wrapped, WrapsOK, Members
<1>2. /\ new \subseteq Wrappers /\ new \cap Originals = {} /\ new \cap DOMAIN wraps = {}
      /\ new \cap Known = {}
  <2>1. new \subseteq Wrappers
    BY <1>1, ObjectShape
  <2>2. ASSUME NEW w \in new, w \in DOMAIN wraps PROVE FALSE
    <3>1. w[1] = n /\ w[1] <= count /\ count \in Nat
      BY <2>2 DEF WrapsOK
    <3>. QED BY <3>1
  <2>. QED BY <2>1, <2>2, ObjectShape DEF Known
<1>3. \A a \in A : E(a).object \in Known /\ E(a).object[2] = a /\ E(a) \in Entries
  BY LookupFinds
<1>4. /\ DOMAIN wraps' = DOMAIN wraps \cup new
      /\ \A w \in DOMAIN wraps : wraps'[w] = wraps[w]
      /\ \A a \in A : /\ wraps'[<<n, a>>].of = E(a).object
                      /\ wraps'[<<n, a>>].bound = (E(a).kind = "class")
  <2>1. \A a \in A : <<n, a>> \in new /\ <<n, a>> \notin DOMAIN wraps /\ <<n, a>>[2] = a
    BY <1>2
  <2>. HIDE DEF new, E, n
  <2>. QED BY <1>1, <2>1
<1>5. Known' = Known \cup new
  BY <1>4 DEF Known
<1>. HIDE DEF E, new
<1>6. WrapsOK'
  <2>1. ASSUME NEW w \in DOMAIN wraps'
        PROVE  /\ w[1] <= n /\ w \in Wrappers
               /\ wraps'[w].of \in Originals \cup DOMAIN wraps'
               /\ wraps'[w].of \in DOMAIN wraps' => wraps'[w].of[1] < w[1]
    <3>1. CASE w \in DOMAIN wraps
      <4>1. w[1] <= count /\ w \in Wrappers /\ wraps[w].of \in Originals \cup DOMAIN wraps
            /\ (wraps[w].of \in DOMAIN wraps => wraps[w].of[1] < w[1]) /\ count \in Nat
        BY <3>1 DEF WrapsOK, Descends
      <4>2. w[1] \in 1 .. MaxDecorations
        BY <4>1, ObjectShape
      <4>3. wraps'[w] = wraps[w] /\ wraps[w].of \notin new
        BY <1>2, <1>4, <3>1, <4>1
      <4>. QED BY <1>4, <4>1, <4>2, <4>3, BoundsAssumption
    <3>2. CASE w \in new
      <4>1. PICK a \in A : w = <<n, a>>
        BY <3>2 DEF new
      <4>2. wraps'[w].of = E(a).object /\ E(a).object \in Known /\ w[1] = n
        BY <1>3, <1>4, <4>1
      <4>3. E(a).object \in DOMAIN wraps => E(a).object[1] <= count
        BY DEF WrapsOK
      <4>4. E(a).object \notin new
        BY <1>2, <4>2
      <4>5. E(a).object \in DOMAIN wraps => E(a).object[1] \in 1 .. MaxDecorations
        BY ObjectShape DEF WrapsOK, Descends
      <4>. QED BY <1>1, <1>2, <1>4, <3>2, <4>2, <4>3, <4>4, <4>5, BoundsAssumption DEF Known, WrapsOK
    <3>. QED BY <1>4, <2>1, <3>1, <3>2
  <2>2. count' \in Nat
    BY <1>1 DEF WrapsOK
  <2>. QED BY <1>1, <2>1, <2>2 DEF WrapsOK, Descends
<1>7. \A w \in DOMAIN wraps : wraps[w].of \in Known /\ wraps'[w] = wraps[w]
  BY <1>4 DEF WrapsOK, Descends, Known
<1>8. /\ Known \subseteq Objects /\ new \subseteq Objects
      /\ DOMAIN wraps \subseteq Known
  BY <1>2 DEF Objects, Known, WrapsOK, Descends
<1>9. \A w \in new : w[2] \in A /\ w = <<n, w[2]>>
  BY DEF new
<1>. HIDE DEF n
(* The extended chains satisfy the equations, and so are the chains.       *)
<1>10. /\ \A o \in Known : Original'[o] = Original[o]
       /\ \A w \in new : Original'[w] = Original[E(w[2]).object]
       /\ OriginalEq(Original', wraps')
  <2>. DEFINE f == [o \in Objects |-> IF o \in new THEN Original[E(o[2]).object] ELSE Original[o]]
  <2>1. ASSUME NEW o \in Objects
        PROVE  f[o] = IF o \in DOMAIN wraps' THEN f[wraps'[o].of] ELSE o
    <3>1. CASE o \in DOMAIN wraps
      <4>1. f[o] = Original[wraps[o].of] /\ wraps[o].of \in Known
        BY <1>2, <1>7, <3>1, <2>1 DEF ChainsOK, OriginalEq
      <4>2. f[wraps[o].of] = Original[wraps[o].of]
        BY <1>2, <1>8, <4>1
      <4>. QED BY <1>4, <1>7, <3>1, <4>1, <4>2
    <3>2. CASE o \in new
      <4>1. f[E(o[2]).object] = Original[E(o[2]).object]
        BY <1>2, <1>3, <1>8, <1>9, <3>2
      <4>2. wraps'[o].of = E(o[2]).object
        BY <1>4, <1>9, <3>2
      <4>. QED BY <1>4, <3>2, <4>1, <4>2
    <3>3. CASE o \notin DOMAIN wraps \cup new
      BY <1>4, <2>1, <3>3 DEF ChainsOK, OriginalEq
    <3>. QED BY <3>1, <3>2, <3>3
  <2>2. OriginalEq(f, wraps')
    BY <2>1 DEF OriginalEq
  <2>3. OriginalEq(Original', wraps')
    BY <2>2, ChainsDefinedNext
  <2>4. \A o \in Objects : f[o] = Original'[o]
    <3>1. \A o \in Objects \ DOMAIN wraps' : f[o] = Original'[o]
      BY <2>1, <2>3 DEF OriginalEq
    <3>2. DOMAIN wraps' \subseteq Objects
      BY <1>4, <1>8
    <3>3. \A w \in DOMAIN wraps' : f[wraps'[w].of] = Original'[wraps'[w].of] => f[w] = Original'[w]
      BY <2>1, <2>3, <3>2 DEF OriginalEq
    <3>. HIDE DEF f
    <3>. QED BY <1>6, <3>1, <3>3, ChainsAgree DEF WrapsOK
  <2>5. /\ \A o \in Known : Original'[o] = Original[o]
        /\ \A w \in new : Original'[w] = Original[E(w[2]).object]
    BY <1>2, <1>8, <2>4
  <2>. QED BY <2>3, <2>5
<1>11. /\ \A o \in Known : Layers'[o] = Layers[o]
       /\ \A w \in new : Layers'[w] = 1 + Layers[E(w[2]).object]
       /\ LayersEq(Layers', wraps')
  <2>. DEFINE f == [o \in Objects |-> IF o \in new THEN 1 + Layers[E(o[2]).object] ELSE Layers[o]]
  <2>1. ASSUME NEW o \in Objects
        PROVE  f[o] = IF o \in DOMAIN wraps' THEN 1 + f[wraps'[o].of] ELSE 0
    <3>1. CASE o \in DOMAIN wraps
      <4>1. f[o] = 1 + Layers[wraps[o].of] /\ wraps[o].of \in Known
        BY <1>2, <1>7, <3>1, <2>1 DEF ChainsOK, LayersEq
      <4>2. f[wraps[o].of] = Layers[wraps[o].of]
        BY <1>2, <1>8, <4>1
      <4>. QED BY <1>4, <1>7, <3>1, <4>1, <4>2
    <3>2. CASE o \in new
      <4>1. f[E(o[2]).object] = Layers[E(o[2]).object]
        BY <1>2, <1>3, <1>8, <1>9, <3>2
      <4>2. wraps'[o].of = E(o[2]).object
        BY <1>4, <1>9, <3>2
      <4>3. f[o] = 1 + Layers[E(o[2]).object]
        BY <2>1, <3>2
      <4>. HIDE DEF f
      <4>. QED BY <1>4, <3>2, <4>1, <4>2, <4>3
    <3>3. CASE o \notin DOMAIN wraps \cup new
      BY <1>4, <2>1, <3>3 DEF ChainsOK, LayersEq
    <3>. QED BY <3>1, <3>2, <3>3
  <2>2. LayersEq(f, wraps')
    BY <2>1 DEF LayersEq
  <2>3. LayersEq(Layers', wraps')
    BY <2>2, ChainsDefinedNext
  <2>4. \A o \in Objects : f[o] = Layers'[o]
    <3>1. \A o \in Objects \ DOMAIN wraps' : f[o] = Layers'[o]
      BY <2>1, <2>3 DEF LayersEq
    <3>2. DOMAIN wraps' \subseteq Objects
      BY <1>4, <1>8
    <3>3. \A w \in DOMAIN wraps' : f[wraps'[w].of] = Layers'[wraps'[w].of] => f[w] = Layers'[w]
      BY <2>1, <2>3, <3>2 DEF LayersEq
    <3>. HIDE DEF f
    <3>. QED BY <1>6, <3>1, <3>3, ChainsAgree DEF WrapsOK
  <2>5. /\ \A o \in Known : Layers'[o] = Layers[o]
        /\ \A w \in new : Layers'[w] = 1 + Layers[E(w[2]).object]
    BY <1>2, <1>8, <2>4
  <2>. QED BY <2>3, <2>5
<1>12. /\ \A o \in Known : BoundLayers'[o] = BoundLayers[o]
       /\ \A w \in new : BoundLayers'[w] = BoundLayers[E(w[2]).object] + (IF E(w[2]).kind = "class" THEN 1 ELSE 0)
       /\ BoundEq(BoundLayers', wraps')
  <2>. DEFINE f == [o \in Objects |-> IF o \in new THEN BoundLayers[E(o[2]).object] + (IF E(o[2]).kind = "class" THEN 1 ELSE 0) ELSE BoundLayers[o]]
  <2>1. ASSUME NEW o \in Objects
        PROVE  f[o] = IF o \in DOMAIN wraps' THEN f[wraps'[o].of] + (IF wraps'[o].bound THEN 1 ELSE 0) ELSE 0
    <3>1. CASE o \in DOMAIN wraps
      <4>1. f[o] = BoundLayers[wraps[o].of] + (IF wraps[o].bound THEN 1 ELSE 0) /\ wraps[o].of \in Known
        BY <1>2, <1>7, <3>1, <2>1 DEF ChainsOK, BoundEq
      <4>2. f[wraps[o].of] = BoundLayers[wraps[o].of]
        BY <1>2, <1>8, <4>1
      <4>. QED BY <1>4, <1>7, <3>1, <4>1, <4>2
    <3>2. CASE o \in new
      <4>1. f[E(o[2]).object] = BoundLayers[E(o[2]).object]
        BY <1>2, <1>3, <1>8, <1>9, <3>2
      <4>2. wraps'[o].of = E(o[2]).object /\ wraps'[o].bound = (E(o[2]).kind = "class")
        BY <1>4, <1>9, <3>2
      <4>3. f[o] = BoundLayers[E(o[2]).object] + (IF E(o[2]).kind = "class" THEN 1 ELSE 0)
        BY <2>1, <3>2
      <4>. HIDE DEF f
      <4>. QED BY <1>4, <3>2, <4>1, <4>2, <4>3
    <3>3. CASE o \notin DOMAIN wraps \cup new
      BY <1>4, <2>1, <3>3 DEF ChainsOK, BoundEq
    <3>. QED BY <3>1, <3>2, <3>3
  <2>2. BoundEq(f, wraps')
    BY <2>1 DEF BoundEq
  <2>3. BoundEq(BoundLayers', wraps')
    BY <2>2, ChainsDefinedNext
  <2>4. \A o \in Objects : f[o] = BoundLayers'[o]
    <3>1. \A o \in Objects \ DOMAIN wraps' : f[o] = BoundLayers'[o]
      BY <2>1, <2>3 DEF BoundEq
    <3>2. DOMAIN wraps' \subseteq Objects
      BY <1>4, <1>8
    <3>3. \A w \in DOMAIN wraps' : f[wraps'[w].of] = BoundLayers'[wraps'[w].of] => f[w] = BoundLayers'[w]
      BY <2>1, <2>3, <3>2 DEF BoundEq
    <3>. HIDE DEF f
    <3>. QED BY <1>6, <3>1, <3>3, ChainsAgree DEF WrapsOK
  <2>5. /\ \A o \in Known : BoundLayers'[o] = BoundLayers[o]
        /\ \A w \in new : BoundLayers'[w] = BoundLayers[E(w[2]).object] + (IF E(w[2]).kind = "class" THEN 1 ELSE 0)
    BY <1>2, <1>8, <2>4
  <2>. QED BY <2>3, <2>5
<1>13. OriginalEq(Original', wraps') /\ LayersEq(Layers', wraps') /\ BoundEq(BoundLayers', wraps')
  BY <1>10, <1>11, <1>12
<1>14. \A o \in Known' : Original'[o] \in Originals /\ Layers'[o] \in Nat
  BY <1>3, <1>5, <1>9, <1>10, <1>11 DEF ChainsOK
<1>15. ChainsOK'
  BY <1>13, <1>14 DEF ChainsOK
<1>16. \A a \in A : <<n, a>> \in new /\ <<n, a>>[2] = a
  BY DEF new
<1>17. /\ \A o \in Known : o \notin new
       /\ \A a \in A : /\ Original'[<<n, a>>] = Original[E(a).object]
                       /\ Layers'[<<n, a>>] = 1 + Layers[E(a).object]
                       /\ BoundLayers'[<<n, a>>] = BoundLayers[E(a).object]
                             + IF E(a).kind = "class" THEN 1 ELSE 0
  BY <1>2, <1>10, <1>11, <1>12, <1>16
<1>. QED BY <1>5, <1>6, <1>10, <1>11, <1>12, <1>15, <1>17 DEF new, E, n

(* A decoration keeps the invariant: a wrapper is of the kind of what it   *)
(* wraps, and marked if that is no class method.                           *)
LEMMA DecoratedOK ==
  ASSUME ChainInv, NEW c \in Classes, NEW A \in SUBSET Members(c), NEW opt,
         opt.multiple \in BOOLEAN, Decorated(c, A, opt),
         opt.multiple \/ \A a \in A : traced[Lookup(c, a).object] = 0,
         status' = [d \in Classes |-> status'[d]],
         \A d \in Classes : status'[d] = "none" => status[d] = "none" /\ d # c
  PROVE  ChainInv'
<1>. DEFINE n == count + 1
            new == {<<n, a>> : a \in A}
            E(a) == Lookup(c, a)
<1>1. /\ count < MaxDecorations /\ Wrapped(c, A) /\ multiple' = (multiple \/ opt.multiple)
      /\ count \in Nat /\ A \subseteq Attrs
  BY DEF Decorated, ChainInv, WrapsOK, Members
<1>2. /\ WrapsOK' /\ ChainsOK' /\ Known' = Known \cup new
      /\ \A o \in Known : /\ o \notin new
                          /\ Original'[o] = Original[o] /\ Layers'[o] = Layers[o]
                          /\ BoundLayers'[o] = BoundLayers[o]
      /\ \A a \in A : /\ Original'[<<n, a>>] = Original[E(a).object]
                      /\ Layers'[<<n, a>>] = 1 + Layers[E(a).object]
                      /\ BoundLayers'[<<n, a>>] = BoundLayers[E(a).object]
                           + IF E(a).kind = "class" THEN 1 ELSE 0
  BY <1>1, ChainsGrow DEF ChainInv
<1>3. \A a \in A : /\ E(a) \in Entries /\ E(a).object \in Known /\ E(a).object[2] = a
                   /\ E(a).kind \in Kinds /\ E(a).object \in Objects
                   /\ E(a).kind = KindAt(E(a).object)
  <2>1. ASSUME NEW a \in A
        PROVE  /\ E(a) \in Entries /\ E(a).object \in Known /\ E(a).object[2] = a
               /\ E(a).kind = KindAt(E(a).object)
    BY LookupFinds DEF ChainInv, KindsOK, Members
  <2>. QED BY <2>1 DEF Entries
<1>4. /\ new \subseteq Wrappers /\ \A a \in A : <<n, a>> \in new /\ <<n, a>>[1] = n /\ <<n, a>>[2] = a
      /\ \A o \in new : o[2] \in A /\ o = <<n, o[2]>> /\ o[1] = n
  BY <1>1, BoundsAssumption, ObjectShape
<1>5. /\ dict' = [d \in Classes |-> [a \in Attrs |->
           IF a \in A /\ d = c THEN [kind |-> E(a).kind, object |-> <<n, a>>] ELSE dict[d][a]]]
      /\ traced' = [o \in Objects |->
           IF \E a \in A : o = E(a).object THEN NewMark(c, o[2])
           ELSE IF o[1] = n /\ o[2] \in A THEN NewMark(c, o[2]) ELSE traced[o]]
  BY <1>1 DEF Wrapped, Holder, KindOf, WrapperMark
<1>6. \A a \in A : NewMark(c, a) = traced[E(a).object] + (IF E(a).kind = "class" THEN 0 ELSE 1)
  BY DEF NewMark
<1>. HIDE DEF E, new
<1>7. DictOK'
  <2>1. ASSUME NEW d \in Classes, NEW a \in Attrs
        PROVE  /\ dict'[d][a] \in Entries \cup {None}
               /\ dict'[d][a] # None => dict'[d][a].object \in Known' /\ dict'[d][a].object[2] = a
    <3>1. CASE a \in A /\ d = c
      <4>1. dict'[d][a] = [kind |-> E(a).kind, object |-> <<n, a>>]
        BY <1>5, <3>1
      <4>2. <<n, a>> \in Objects /\ <<n, a>> \in Known' /\ <<n, a>>[2] = a
        BY <1>2, <1>4, <3>1 DEF Objects
      <4>3. E(a).kind \in Kinds
        BY <1>3, <3>1
      <4>. QED BY <4>1, <4>2, <4>3 DEF Entries
    <3>2. CASE ~(a \in A /\ d = c)
      <4>1. dict'[d][a] = dict[d][a]
        BY <1>5, <3>2
      <4>. QED BY <1>2, <4>1 DEF ChainInv, DictOK
    <3>. QED BY <3>1, <3>2
  <2>2. ASSUME NEW d \in Classes, status'[d] = "none", NEW a \in Attrs
        PROVE  dict'[d][a] = None
    <3>1. status[d] = "none" /\ d # c
      BY <2>2
    <3>2. dict'[d][a] = dict[d][a]
      BY <1>5, <3>1
    <3>. QED BY <3>1, <3>2 DEF ChainInv, DictOK
  <2>3. dict' \in [Classes -> [Attrs -> Entries \cup {None}]]
    BY <1>5, <2>1
  <2>. QED BY <2>1, <2>2, <2>3 DEF DictOK
<1>8. /\ \A o \in Known : KindIn(Original', o) = KindAt(o)
      /\ \A a \in A : KindIn(Original', <<n, a>>) = E(a).kind
  BY <1>2, <1>3 DEF KindAt, KindIn
<1>9. KindsOK'
  <2>1. ASSUME NEW d \in Classes, NEW a \in Attrs, dict'[d][a] # None
        PROVE  dict'[d][a].kind = KindIn(Original', dict'[d][a].object)
    <3>1. CASE a \in A /\ d = c
      BY <1>5, <1>8, <3>1
    <3>2. CASE ~(a \in A /\ d = c)
      <4>1. dict'[d][a] = dict[d][a]
        BY <1>5, <3>2
      <4>2. dict[d][a].object \in Known /\ dict[d][a].kind = KindAt(dict[d][a].object)
        BY <2>1, <4>1 DEF ChainInv, DictOK, KindsOK
      <4>. QED BY <1>8, <4>1, <4>2
    <3>. QED BY <3>1, <3>2
  <2>2. ASSUME NEW o \in Known'
        PROVE  BoundLayers'[o] = IF KindIn(Original', o) = "class" THEN Layers'[o] ELSE 0
    <3>1. CASE o \in Known
      BY <1>2, <1>8, <3>1 DEF ChainInv, KindsOK
    <3>2. CASE o \in new
      <4>1. PICK a \in A : o = <<n, a>>
        BY <1>4, <3>2
      <4>2. /\ BoundLayers[E(a).object] = IF E(a).kind = "class" THEN Layers[E(a).object] ELSE 0
            /\ Layers[E(a).object] \in Nat
        BY <1>3 DEF ChainInv, KindsOK, ChainsOK
      <4>. QED BY <1>2, <1>8, <4>1, <4>2
    <3>. QED BY <1>2, <2>2, <3>1, <3>2
  <2>. QED BY <2>1, <2>2 DEF KindsOK, KindAt
<1>10. MarksOK'
  <2>1. \A a \in A : NewMark(c, a) \in Nat /\ (E(a).kind # "class" => NewMark(c, a) # 0)
    <3>1. \A a \in A : traced[E(a).object] \in Nat
      BY <1>3 DEF ChainInv, MarksOK
    <3>. QED BY <1>6, <3>1
  <2>2. traced' \in [Objects -> Nat]
    <3>1. ASSUME NEW o \in Objects, \E a \in A : o = E(a).object PROVE o[2] \in A
      BY <1>3, <3>1
    <3>2. \A o \in Objects : traced[o] \in Nat
      BY DEF ChainInv, MarksOK
    <3>. QED BY <1>5, <2>1, <3>1, <3>2
  <2>3. ASSUME NEW o \in Known', KindIn(Original', o) # "class"
        PROVE  (traced'[o] = 0 => Layers'[o] = 0) /\ (~multiple' => Layers'[o] <= 1)
    <3>1. CASE o \in Known
      <4>1. o \in Objects /\ o = <<o[1], o[2]>> /\ o \notin new
        BY <1>2, <3>1, ObjectShape DEF Known, Objects, ChainInv, WrapsOK, Descends
      <4>2. ~(o[1] = n /\ o[2] \in A)
        BY <1>4, <4>1
      <4>3. KindAt(o) # "class"
        BY <1>8, <2>3, <3>1
      <4>4. traced'[o] = 0 => traced[o] = 0
        <5>1. ASSUME NEW a \in A, o = E(a).object PROVE traced'[o] # 0
          <6>1. o[2] = a /\ E(a).kind # "class"
            BY <1>3, <4>3, <5>1
          <6>. QED BY <1>5, <2>1, <4>1, <5>1, <6>1
        <5>2. ASSUME ~\E a \in A : o = E(a).object PROVE traced'[o] = traced[o]
          BY <1>5, <4>1, <4>2, <5>2
        <5>. QED BY <5>1, <5>2
      <4>. QED BY <1>1, <1>2, <3>1, <4>3, <4>4 DEF ChainInv, MarksOK
    <3>2. CASE o \in new
      <4>1. PICK a \in A : o = <<n, a>>
        BY <1>4, <3>2
      <4>2. E(a).kind # "class" /\ E(a).object \in Known /\ KindAt(E(a).object) # "class"
        BY <1>3, <1>8, <2>3, <4>1
      <4>3. o[1] = n /\ o[2] = a /\ o \in Objects
        BY <1>4, <4>1 DEF Objects
      <4>4. traced'[o] # 0
        BY <1>5, <2>1, <4>2, <4>3
      <4>5. ~multiple' => Layers'[o] <= 1
        <5>1. SUFFICES ASSUME ~multiple' PROVE Layers'[o] <= 1
          OBVIOUS
        <5>2. ~opt.multiple
          BY <1>1, <5>1
        <5>3. traced[E(a).object] = 0
          BY <5>2 DEF E
        <5>4. Layers[E(a).object] = 0
          BY <4>2, <5>3 DEF ChainInv, MarksOK
        <5>. QED BY <1>2, <4>1, <5>4
      <4>. QED BY <4>4, <4>5
    <3>. QED BY <1>2, <2>3, <3>1, <3>2
  <2>. QED BY <2>2, <2>3 DEF MarksOK, KindAt
<1>. QED BY <1>2, <1>7, <1>9, <1>10 DEF ChainInv

(* Steps that decorate nothing leave the chains as they are.               *)
LEMMA ChainsKept ==
  ASSUME UNCHANGED wraps
  PROVE  Original' = Original /\ Layers' = Layers /\ BoundLayers' = BoundLayers
BY Zenon DEF Original, Layers, BoundLayers, IsWrapper

LEMMA PlainKept ==
  ASSUME ChainInv, UNCHANGED <<wraps, traced, count, multiple>>
  PROVE  /\ WrapsOK' /\ ChainsOK' /\ MarksOK' /\ Known' = Known
         /\ Original' = Original /\ Layers' = Layers /\ BoundLayers' = BoundLayers
<1>1. Original' = Original /\ Layers' = Layers /\ BoundLayers' = BoundLayers
  BY ChainsKept
<1>2. Known' = Known
  BY DEF Known
<1>3. WrapsOK'
  BY DEF ChainInv, WrapsOK
<1>4. ChainsOK'
  BY <1>1, <1>2 DEF ChainInv, ChainsOK
<1>5. MarksOK'
  BY <1>1, <1>2 DEF ChainInv, MarksOK, KindAt
<1>. QED BY <1>1, <1>2, <1>3, <1>4, <1>5

(* The body of a class fills an empty dictionary with functions of its own,*)
(* which no wrapper is around yet.                                         *)
LEMMA CreateOK ==
  ASSUME ChainInv, NEW c \in Classes, Create(c)
  PROVE  ChainInv'
<1>1. /\ status' = [status EXCEPT ![c] = IF c \in MetaClasses THEN "body" ELSE "ready"]
      /\ dict' = [dict EXCEPT ![c] = [a \in Attrs |->
           IF Defined[c][a] = None THEN None
           ELSE [kind |-> Defined[c][a], object |-> <<c, a>>]]]
      /\ UNCHANGED <<wraps, traced, count, multiple>>
  BY DEF Create
<1>2. /\ WrapsOK' /\ ChainsOK' /\ MarksOK' /\ Known' = Known
      /\ Original' = Original /\ Layers' = Layers /\ BoundLayers' = BoundLayers
  BY <1>1, PlainKept
<1>3. \A d \in Classes, a \in Attrs :
        dict'[d][a] = IF d # c THEN dict[d][a] ELSE IF Defined[c][a] = None THEN None
                      ELSE [kind |-> Defined[c][a], object |-> <<c, a>>]
  BY <1>1 DEF ChainInv, DictOK
<1>4. ASSUME NEW a \in Attrs, Defined[c][a] # None
      PROVE  /\ Defined[c][a] \in Kinds /\ <<c, a>> \in Originals /\ <<c, a>>[2] = a
             /\ KindAt(<<c, a>>) = Defined[c][a]
  <2>1. Defined[c][a] \in Kinds
    BY <1>4, DefinedAssumption
  <2>2. <<c, a>> \in Originals /\ <<c, a>> \notin DOMAIN wraps /\ <<c, a>> \in Objects
    BY ObjectShape DEF ChainInv, WrapsOK, Descends, Objects
  <2>3. Original[<<c, a>>] = <<c, a>>
    BY <2>2 DEF ChainInv, ChainsOK, OriginalEq
  <2>. QED BY <2>1, <2>2, <2>3 DEF KindAt, KindIn
<1>5. ASSUME NEW d \in Classes, NEW a \in Attrs, dict'[d][a] # None
      PROVE  /\ dict'[d][a] \in Entries
             /\ dict'[d][a].object \in Known /\ dict'[d][a].object[2] = a
             /\ dict'[d][a].kind = KindAt(dict'[d][a].object)
  <2>1. CASE d = c
    <3>1. /\ Defined[c][a] # None
          /\ dict'[d][a] = [kind |-> Defined[c][a], object |-> <<c, a>>]
      BY <1>3, <1>5, <2>1
    <3>. QED BY <1>4, <3>1 DEF Entries, Objects, Known
  <2>2. CASE d # c
    <3>1. dict'[d][a] = dict[d][a] /\ dict[d][a] # None
      BY <1>3, <1>5, <2>2
    <3>2. dict[d][a] \in Entries
      BY <3>1 DEF ChainInv, DictOK
    <3>3. /\ dict[d][a].object \in Known /\ dict[d][a].object[2] = a
          /\ dict[d][a].kind = KindAt(dict[d][a].object)
      BY <3>1 DEF ChainInv, DictOK, KindsOK
    <3>. QED BY <3>1, <3>2, <3>3
  <2>. QED BY <2>1, <2>2
<1>6. dict' \in [Classes -> [Attrs -> Entries \cup {None}]]
  <2>1. dict' = [d \in Classes |-> [a \in Attrs |-> dict'[d][a]]]
    BY <1>1 DEF ChainInv, DictOK
  <2>. QED BY <1>5, <2>1
<1>7. /\ status' = [d \in Classes |-> status'[d]]
      /\ \A d \in Classes : status'[d] = "none" => d # c /\ status[d] = "none"
  BY <1>1 DEF ChainInv, DictOK
<1>8. DictOK'
  <2>1. ASSUME NEW d \in Classes, status'[d] = "none", NEW a \in Attrs PROVE dict'[d][a] = None
    <3>1. d # c /\ status[d] = "none"
      BY <1>7, <2>1
    <3>2. dict'[d][a] = dict[d][a]
      BY <1>3, <3>1
    <3>. QED BY <3>1, <3>2 DEF ChainInv, DictOK
  <2>. QED BY <1>2, <1>5, <1>6, <1>7, <2>1 DEF DictOK
<1>9. KindsOK'
  BY <1>2, <1>5 DEF ChainInv, KindsOK, KindAt
<1>. QED BY <1>2, <1>8, <1>9 DEF ChainInv

LEMMA StatusOK ==
  ASSUME ChainInv, UNCHANGED <<dict, wraps, traced, count, multiple>>,
         status' = [d \in Classes |-> status'[d]],
         \A d \in Classes : status'[d] = "none" => status[d] = "none"
  PROVE  ChainInv'
<1>1. /\ WrapsOK' /\ ChainsOK' /\ MarksOK' /\ Known' = Known
      /\ Original' = Original /\ Layers' = Layers /\ BoundLayers' = BoundLayers
  BY PlainKept
<1>2. DictOK'
  BY <1>1 DEF ChainInv, DictOK
<1>3. KindsOK'
  BY <1>1 DEF ChainInv, KindsOK, KindAt
<1>. QED BY <1>1, <1>2, <1>3 DEF ChainInv

(* What is decorated are members, and if tracing twice was not allowed,    *)
(* none was marked.                                                        *)
LEMMA OwnIsMember ==
  ASSUME NEW c \in Classes, NEW a \in Attrs, dict[c][a] # None
  PROVE  a \in Members(c)
BY OwnIsFirst DEF Members

LEMMA AllowedOK ==
  ASSUME NEW c, NEW A, NEW opt
  PROVE  /\ Allowed(c, A, opt) \in {A, {}}
         /\ Allowed(c, A, opt) \subseteq A
         /\ opt.multiple \/ \A a \in Allowed(c, A, opt) : traced[Lookup(c, a).object] = 0
BY DEF Allowed

LEMMA DecoratesMembers ==
  ASSUME ChainInv, NEW c \in Classes, TracedMeta(c) \/ trace_cls(c) \/ trace(c)
  PROVE  \/ /\ UNCHANGED <<dict, wraps, traced, count, target, multiple>>
            /\ status' = [d \in Classes |-> status'[d]]
            /\ \A d \in Classes : status'[d] = "none" => status[d] = "none"
         \/ \E A \in SUBSET Members(c) : \E opt :
              /\ opt.multiple \in BOOLEAN /\ Decorated(c, A, opt)
              /\ opt.multiple \/ \A a \in A : traced[Lookup(c, a).object] = 0
              /\ status' = [d \in Classes |-> status'[d]]
              /\ \A d \in Classes : status'[d] = "none" => status[d] = "none" /\ d # c
              /\ \/ \E o \in Options : A \in {Selected(c, o), SelectedByMeta(c, o)}
                 \/ \E a \in Attrs : A = {a} /\ Lookup(c, a).kind = "function"
<1>0. status = [d \in Classes |-> status[d]]
  BY DEF ChainInv, DictOK
<1>1. CASE TracedMeta(c)
  <2>1. PICK opt \in [private : BOOLEAN, multiple : BOOLEAN] :
          LET A == SelectedByMeta(c, opt) IN
          /\ status[c] = "body"
          /\ \/ /\ Decorated(c, Allowed(c, A, opt), opt)
                /\ status' = [status EXCEPT ![c] = "ready"]
             \/ /\ Allowed(c, A, opt) = {}
                /\ status' = [status EXCEPT ![c] = IF A = {} THEN "ready" ELSE "refused"]
                /\ UNCHANGED <<dict, wraps, traced, count, target, multiple, callVars>>
    BY <1>1 DEF TracedMeta
  <2>. DEFINE A == SelectedByMeta(c, opt)
              B == Allowed(c, A, opt)
              o == [private |-> opt.private, multiple |-> opt.multiple,
                    class |-> FALSE, static |-> FALSE]
  <2>2. CASE Decorated(c, B, opt) /\ status' = [status EXCEPT ![c] = "ready"]
    <3>1. A \subseteq Members(c) /\ B # {}
      BY <2>2, OwnIsMember DEF SelectedByMeta, Decorated
    <3>2. B = A /\ (opt.multiple \/ \A a \in B : traced[Lookup(c, a).object] = 0)
      BY <3>1, AllowedOK
    <3>3. o \in Options /\ SelectedByMeta(c, o) = A
      BY DEF Options, SelectedByMeta
    <3>4. opt.multiple \in BOOLEAN
      OBVIOUS
    <3>5. /\ status' = [d \in Classes |-> status'[d]]
          /\ \A d \in Classes : status'[d] = "none" => status[d] = "none" /\ d # c
      BY <1>0, <2>2
    <3>6. \E p \in Options : B \in {Selected(c, p), SelectedByMeta(c, p)}
      BY <3>2, <3>3
    <3>. HIDE DEF A, B, o
    <3>. QED BY <2>2, <3>1, <3>2, <3>4, <3>5, <3>6
  <2>3. CASE UNCHANGED <<dict, wraps, traced, count, target, multiple>>
             /\ status' = [status EXCEPT ![c] = IF A = {} THEN "ready" ELSE "refused"]
    BY <1>0, <2>3
  <2>. QED BY <2>1, <2>2, <2>3
<1>2. CASE trace_cls(c)
  <2>1. PICK opt \in Options :
          /\ status[c] = "ready"
          /\ Decorated(c, Allowed(c, Selected(c, opt), opt), opt)
          /\ UNCHANGED status
    BY <1>2 DEF trace_cls
  <2>. DEFINE A == Selected(c, opt)
              B == Allowed(c, A, opt)
  <2>2. A \subseteq Members(c) /\ B # {}
    BY <2>1 DEF Selected, Decorated
  <2>3. B = A /\ (opt.multiple \/ \A a \in B : traced[Lookup(c, a).object] = 0)
    BY <2>2, AllowedOK
  <2>4. opt.multiple \in BOOLEAN
    BY DEF Options
  <2>5. /\ status' = [d \in Classes |-> status'[d]]
        /\ \A d \in Classes : status'[d] = "none" => status[d] = "none" /\ d # c
    BY <1>0, <2>1
  <2>6. \E p \in Options : B \in {Selected(c, p), SelectedByMeta(c, p)}
    BY <2>3
  <2>. HIDE DEF A, B
  <2>. QED BY <2>1, <2>2, <2>3, <2>4, <2>5, <2>6 DEF A, B
<1>3. CASE trace(c)
  <2>1. PICK a \in Attrs, m \in BOOLEAN :
          /\ status[c] \in {"body", "ready"}
          /\ dict[c][a] # None /\ dict[c][a].kind = "function"
          /\ Decorated(c, Allowed(c, {a}, [multiple |-> m]), [multiple |-> m])
          /\ UNCHANGED status
    BY <1>3 DEF trace
  <2>. DEFINE opt == [multiple |-> m]
              B == Allowed(c, {a}, opt)
  <2>2. {a} \subseteq Members(c) /\ B # {} /\ Lookup(c, a).kind = "function"
    BY <2>1, OwnIsMember, OwnIsFirst DEF Decorated
  <2>3. B = {a} /\ (opt.multiple \/ \A b \in B : traced[Lookup(c, b).object] = 0)
    BY <2>2, AllowedOK
  <2>4. opt.multiple \in BOOLEAN
    OBVIOUS
  <2>5. /\ status' = [d \in Classes |-> status'[d]]
        /\ \A d \in Classes : status'[d] = "none" => status[d] = "none" /\ d # c
    BY <1>0, <2>1
  <2>. HIDE DEF opt, B
  <2>. QED BY <2>1, <2>2, <2>3, <2>4, <2>5 DEF opt, B
<1>. QED BY <1>1, <1>2, <1>3

LEMMA ChainInvInit == Init => ChainInv
<1>. SUFFICES ASSUME Init PROVE ChainInv
  OBVIOUS
<1>1. /\ status = [c \in Classes |-> "none"] /\ dict = [c \in Classes |-> [a \in Attrs |-> None]]
      /\ wraps = << >> /\ traced = [o \in Objects |-> 0] /\ count = 0
  BY DEF Init
<1>2. DOMAIN wraps = {}
  BY <1>1
<1>3. DictOK
  BY <1>1 DEF DictOK
<1>4. WrapsOK
  BY <1>1, <1>2 DEF WrapsOK, Descends
<1>5. /\ OriginalEq(Original, wraps) /\ LayersEq(Layers, wraps) /\ BoundEq(BoundLayers, wraps)
  <2>1. OriginalEq([o \in Objects |-> o], wraps)
    BY <1>2 DEF OriginalEq
  <2>2. LayersEq([o \in Objects |-> 0], wraps)
    BY <1>2 DEF LayersEq
  <2>3. BoundEq([o \in Objects |-> 0], wraps)
    BY <1>2 DEF BoundEq
  <2>. QED BY <2>1, <2>2, <2>3, ChainsDefined
<1>6. \A o \in Known : o \in Originals /\ Original[o] = o /\ Layers[o] = 0 /\ BoundLayers[o] = 0
  BY <1>2, <1>5 DEF Known, Objects, OriginalEq, LayersEq, BoundEq
<1>7. ChainsOK
  BY <1>5, <1>6 DEF ChainsOK
<1>8. KindsOK
  BY <1>1, <1>6 DEF KindsOK
<1>9. MarksOK
  BY <1>1, <1>6 DEF MarksOK
<1>. QED BY <1>3, <1>4, <1>7, <1>8, <1>9 DEF ChainInv

LEMMA CallsChangeNoClass ==
  ASSUME NEW t \in Threads, Call(t) \/ WriteArgs(t) \/ StartPoint(t) \/ Return(t)
  PROVE  UNCHANGED classVars
BY DEF Call, WriteArgs, StartPoint, Return

LEMMA ChainInvStep == ChainInv /\ [Next]_vars => ChainInv'
<1>. SUFFICES ASSUME ChainInv, [Next]_vars PROVE ChainInv'
  OBVIOUS
<1>1. ASSUME NEW c \in Classes, Create(c) PROVE ChainInv'
  BY <1>1, CreateOK
<1>2. ASSUME NEW c \in Classes, TracedMeta(c) \/ trace_cls(c) \/ trace(c) PROVE ChainInv'
  BY <1>2, DecoratesMembers, DecoratedOK, StatusOK
<1>3. ASSUME UNCHANGED classVars PROVE ChainInv'
  <2>1. UNCHANGED <<status, dict, wraps, traced, count, multiple>>
    BY <1>3 DEF classVars
  <2>2. status' = [d \in Classes |-> status'[d]]
    BY <2>1 DEF ChainInv, DictOK
  <2>. QED BY <2>1, <2>2, StatusOK
<1>. QED BY <1>1, <1>2, <1>3, CallsChangeNoClass DEF Next, vars

(* Whatever classes are decorated, in whatever order and however often:    *)
(* without allow_multiple_trace a call of a method that is no class method *)
(* opens at most one point, because a function that was wrapped is marked, *)
(* and so is its wrapper.                                                  *)
THEOREM CallsOpenOnePoint == Spec => []OnePointPerCall
<1>1. ChainInv => OnePointPerCall
  <2>. SUFFICES ASSUME ChainInv, ~multiple, NEW c \in Classes, NEW a \in Attrs,
                       a \in Members(c), Lookup(c, a).kind # "class"
                PROVE  Points(c, a) <= 1
    BY DEF OnePointPerCall
  <2>1. Lookup(c, a).object \in Known /\ \E d \in Classes : dict[d][a] # None /\ Lookup(c, a) = dict[d][a]
    BY LookupFinds DEF ChainInv
  <2>2. KindAt(Lookup(c, a).object) # "class"
    BY <2>1 DEF ChainInv, KindsOK
  <2>. QED BY <2>1, <2>2 DEF ChainInv, MarksOK, Points
<1>. QED BY <1>1, ChainInvInit, ChainInvStep, PTL DEF Spec

(* Whatever is decorated: a method stays bound as the body that defines it *)
(* said, and only class methods get a class from their wrappers, one from  *)
(* each.                                                                   *)
THEOREM MethodsStayBound == Spec => []MethodsKeepTheirKind
<1>1. ChainInv => MethodsKeepTheirKind
  <2>. SUFFICES ASSUME ChainInv, NEW c \in Classes, NEW a \in Members(c)
                PROVE  LET e == Lookup(c, a)
                           o == Original[e.object] IN
                       /\ e.kind = Defined[o[1]][o[2]]
                       /\ BoundLayers[e.object] = IF e.kind = "class" THEN Points(c, a) ELSE 0
    BY DEF MethodsKeepTheirKind
  <2>1. /\ a \in Attrs /\ Lookup(c, a).object \in Known
        /\ \E d \in Classes : dict[d][a] # None /\ Lookup(c, a) = dict[d][a]
    BY LookupFinds DEF ChainInv, Members
  <2>2. Lookup(c, a).kind = KindAt(Lookup(c, a).object)
    BY <2>1 DEF ChainInv, KindsOK
  <2>3. Points(c, a) = Layers[Lookup(c, a).object]
    BY DEF Points
  <2>. QED BY <2>1, <2>2, <2>3 DEF ChainInv, KindsOK, KindAt, KindIn
<1>. QED BY <1>1, ChainInvInit, ChainInvStep, PTL DEF Spec

-----------------------------------------------------------------------------
(* What a step adds to the calls of a class.                               *)

OwnFirst == \A c \in Classes, a \in Attrs : dict[c][a] # None => Lookup(c, a) = dict[c][a]

LEMMA OwnFirstHolds == OwnFirst /\ OwnFirst'
<1>1. OwnFirst
  BY OwnIsFirst DEF OwnFirst
<1>. QED BY <1>1, PTL

LEMMA PointsAreNaturals ==
  ASSUME ChainInv, NEW c \in Classes, NEW a \in Attrs
  PROVE  Points(c, a) \in Nat
<1>1. CASE a \in Members(c)
  BY <1>1, LookupFinds DEF Points, ChainInv, ChainsOK
<1>2. CASE a \notin Members(c)
  BY <1>2 DEF Points
<1>. QED BY <1>1, <1>2

(* Where the dictionaries are what they were, nothing is added.            *)
LEMMA PointsKept ==
  ASSUME ChainInv, NEW c \in Classes, NEW a \in Attrs,
         \A d \in Classes : dict'[d][a] = dict[d][a],
         \A o \in Known : Layers'[o] = Layers[o]
  PROVE  Points(c, a)' = Points(c, a)
<1>1. Lookup(c, a)' = Lookup(c, a)
  <2>1. ToSet(MRO[c]) \subseteq Classes
    BY MroAssumption DEF ToSet
  <2>. QED BY <2>1, LookupKept
<1>2. a \in Members(c)' <=> a \in Members(c)
  BY <1>1 DEF Members
<1>3. a \in Members(c) => Lookup(c, a).object \in Known
  BY LookupFinds DEF ChainInv
<1>. QED BY <1>1, <1>2, <1>3 DEF Points

(* A class gets the functions of its body, of which none is traced, in     *)
(* place of nothing at all.                                                *)
LEMMA CreateAddsNoPoint ==
  ASSUME ChainInv, NEW c \in Classes, Create(c)
  PROVE  Grown(c) = {}
<1>1. /\ status[c] = "none" /\ UNCHANGED wraps
      /\ dict' = [dict EXCEPT ![c] = [a \in Attrs |->
           IF Defined[c][a] = None THEN None
           ELSE [kind |-> Defined[c][a], object |-> <<c, a>>]]]
  BY DEF Create
<1>2. Layers' = Layers
  BY <1>1, ChainsKept
<1>3. ASSUME NEW a \in Attrs PROVE ~(Points(c, a)' > Points(c, a))
  <2>1. Points(c, a) \in Nat
    BY PointsAreNaturals
  <2>2. CASE Defined[c][a] = None
    <3>1. \A d \in Classes : dict'[d][a] = dict[d][a]
      BY <1>1, <2>2 DEF ChainInv, DictOK
    <3>2. Points(c, a)' = Points(c, a)
      BY <1>2, <3>1, PointsKept
    <3>. QED BY <2>1, <3>2
  <2>3. CASE Defined[c][a] # None
    <3>1. dict'[c][a] = [kind |-> Defined[c][a], object |-> <<c, a>>]
      BY <1>1, <2>3 DEF ChainInv, DictOK
    <3>2. dict'[c][a] # None
      <4>1. [kind |-> Defined[c][a], object |-> <<c, a>>] \in Entries
        BY <2>3, DefinedAssumption, ObjectShape DEF Entries, Objects
      <4>. QED BY <3>1, <4>1, NoneAssumption
    <3>3. Lookup(c, a)' = dict'[c][a]
      BY <3>2, OwnFirstHolds DEF OwnFirst
    <3>4. <<c, a>> \in Objects /\ <<c, a>> \notin DOMAIN wraps
      BY ObjectShape DEF ChainInv, WrapsOK, Descends, Objects
    <3>5. Layers[<<c, a>>] = 0
      BY <3>4 DEF ChainInv, ChainsOK, LayersEq
    <3>6. Points(c, a)' = 0
      BY <1>2, <3>1, <3>3, <3>5 DEF Points
    <3>. QED BY <2>1, <3>6
  <2>. QED BY <2>2, <2>3
<1>. QED BY <1>3 DEF Grown

(* A decoration adds a point to the calls of all that is decorated, and to *)
(* those of no other attribute of the class.                               *)
LEMMA DecoratedGrows ==
  ASSUME ChainInv, NEW c \in Classes, NEW A \in SUBSET Members(c), NEW opt, Decorated(c, A, opt)
  PROVE  Grown(c) = A
<1>. DEFINE n == count + 1
<1>1. /\ count < MaxDecorations /\ Wrapped(c, A) /\ A \subseteq Attrs
      /\ dict' = [d \in Classes |-> [a \in Attrs |->
           IF a \in A /\ d = c THEN [kind |-> Lookup(c, a).kind, object |-> <<n, a>>]
           ELSE dict[d][a]]]
  BY DEF Decorated, Wrapped, Holder, KindOf, Members
<1>2. /\ \A o \in Known : Layers'[o] = Layers[o]
      /\ \A a \in A : Layers'[<<n, a>>] = 1 + Layers[Lookup(c, a).object]
  BY <1>1, ChainsGrow DEF ChainInv
<1>3. ASSUME NEW a \in A PROVE Points(c, a)' > Points(c, a)
  <2>1. dict'[c][a] = [kind |-> Lookup(c, a).kind, object |-> <<n, a>>]
    BY <1>1
  <2>2. dict'[c][a] # None
    <3>1. n \in 1 .. MaxDecorations
      BY <1>1, BoundsAssumption DEF ChainInv, WrapsOK
    <3>2. <<n, a>> \in Objects
      BY <1>1, <3>1, ObjectShape DEF Objects
    <3>3. Lookup(c, a).kind \in Kinds
      BY LookupFinds DEF Entries, ChainInv
    <3>. HIDE DEF n
    <3>4. [kind |-> Lookup(c, a).kind, object |-> <<n, a>>] \in Entries
      BY <3>2, <3>3 DEF Entries
    <3>. QED BY <2>1, <3>4, NoneAssumption
  <2>3. a \in Attrs /\ Lookup(c, a)' = dict'[c][a]
    BY <1>1, <2>2, OwnFirstHolds DEF OwnFirst
  <2>4. Points(c, a)' = 1 + Layers[Lookup(c, a).object]
    BY <1>2, <2>1, <2>2, <2>3 DEF Points, Members
  <2>5. Points(c, a) = Layers[Lookup(c, a).object] /\ Points(c, a) \in Nat
    BY <2>3, PointsAreNaturals DEF Points
  <2>. QED BY <2>4, <2>5
<1>4. ASSUME NEW a \in Attrs \ A PROVE ~(Points(c, a)' > Points(c, a))
  <2>1. \A d \in Classes : dict'[d][a] = dict[d][a]
    BY <1>1
  <2>2. Points(c, a)' = Points(c, a) /\ Points(c, a) \in Nat
    BY <1>2, <2>1, PointsKept, PointsAreNaturals
  <2>. QED BY <2>2
<1>. QED BY <1>1, <1>3, <1>4 DEF Grown

LEMMA KeptAddsNoPoint ==
  ASSUME ChainInv, NEW c \in Classes, UNCHANGED <<dict, wraps>>
  PROVE  Grown(c) = {}
<1>1. Layers' = Layers
  BY ChainsKept
<1>2. ASSUME NEW a \in Attrs PROVE ~(Points(c, a)' > Points(c, a))
  <2>1. Points(c, a)' = Points(c, a) /\ Points(c, a) \in Nat
    BY <1>1, PointsKept, PointsAreNaturals
  <2>. QED BY <2>1
<1>. QED BY <1>2 DEF Grown

TargetOK == target \in Classes \cup {None}

LEMMA TargetOKStep == TargetOK /\ [Next]_vars => TargetOK'
<1>. SUFFICES ASSUME TargetOK, [Next]_vars PROVE TargetOK'
  OBVIOUS
<1>1. ASSUME NEW c \in Classes, Create(c) \/ TracedMeta(c) \/ trace_cls(c) \/ trace(c)
      PROVE  TargetOK'
  BY <1>1 DEF Create, TracedMeta, trace_cls, trace, Decorated, TargetOK
<1>. QED BY <1>1, CallsChangeNoClass DEF Next, vars, classVars, TargetOK

(* A step that decorates more than one method of a class takes all that    *)
(* its options select, inherited ones too, or none: when one of them is    *)
(* traced already and that is not allowed, none is decorated.              *)
THEOREM AllOrNothingIsTraced == Spec => NeverHalfTraced
<1>1. Init => ChainInv /\ TargetOK
  BY ChainInvInit DEF Init, TargetOK
<1>2. ChainInv /\ TargetOK /\ [Next]_vars => ChainInv' /\ TargetOK'
  BY ChainInvStep, TargetOKStep
<1>3. ChainInv /\ TargetOK /\ [Next]_vars =>
       [\A c \in {target'} \ {None} :
          \/ Grown(c) = {}
          \/ \E a \in Attrs : Grown(c) = {a} /\ Lookup(c, a).kind = "function"
          \/ \E opt \in Options : Grown(c) \in {Selected(c, opt), SelectedByMeta(c, opt)}]_vars
  <2>. SUFFICES ASSUME ChainInv, TargetOK, [Next]_vars, NEW c \in {target'} \ {None}
                PROVE  \/ Grown(c) = {}
                       \/ \E a \in Attrs : Grown(c) = {a} /\ Lookup(c, a).kind = "function"
                       \/ \E opt \in Options : Grown(c) \in {Selected(c, opt), SelectedByMeta(c, opt)}
    OBVIOUS
  <2>1. c \in Classes
    BY TargetOKStep DEF TargetOK
  <2>2. ASSUME NEW d \in Classes, Create(d) PROVE Grown(c) = {}
    BY <2>1, <2>2, CreateAddsNoPoint DEF Create
  <2>3. ASSUME NEW d \in Classes, TracedMeta(d) \/ trace_cls(d) \/ trace(d)
        PROVE  \/ Grown(c) = {}
               \/ \E a \in Attrs : Grown(c) = {a} /\ Lookup(c, a).kind = "function"
               \/ \E opt \in Options : Grown(c) \in {Selected(c, opt), SelectedByMeta(c, opt)}
    <3>1. CASE UNCHANGED <<dict, wraps>>
      BY <2>1, <3>1, KeptAddsNoPoint
    <3>2. ASSUME NEW A \in SUBSET Members(d), NEW opt, Decorated(d, A, opt),
                 \/ \E o \in Options : A \in {Selected(d, o), SelectedByMeta(d, o)}
                 \/ \E a \in Attrs : A = {a} /\ Lookup(d, a).kind = "function"
          PROVE  \/ \E a \in Attrs : Grown(c) = {a} /\ Lookup(c, a).kind = "function"
                 \/ \E o \in Options : Grown(c) \in {Selected(c, o), SelectedByMeta(c, o)}
      <4>1. d = c
        BY <3>2 DEF Decorated
      <4>2. Grown(c) = A
        BY <2>1, <3>2, <4>1, DecoratedGrows
      <4>. QED BY <3>2, <4>1, <4>2
    <3>. QED BY <2>3, <3>1, <3>2, DecoratesMembers
  <2>4. ASSUME UNCHANGED classVars PROVE Grown(c) = {}
    BY <2>1, <2>4, KeptAddsNoPoint DEF classVars
  <2>. QED BY <2>2, <2>3, <2>4, CallsChangeNoClass DEF Next, vars
<1>. QED BY <1>1, <1>2, <1>3, PTL DEF Spec, NeverHalfTraced
=============================================================================
