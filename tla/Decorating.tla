----------------------------- MODULE Decorating -----------------------------
(***************************************************************************)
(* Which methods trace(), trace_cls() and TracedMeta of profiler.py wrap,  *)
(* in classes that inherit from each other, and what the calls of the      *)
(* wrapped methods record.                                                 *)
(*                                                                         *)
(* A function object is a pair: <<class, attribute>> is the function that  *)
(* the body of the class defines, <<n, attribute>> the wrapper that the    *)
(* n-th decoration makes.  The dictionary of a class has for an attribute  *)
(* its kind, which is how Python binds it, and its function object.        *)
(* Classes are loaded and decorated by one thread, before the first call.  *)
(***************************************************************************)
EXTENDS Integers, SequencesExt

CONSTANTS
  Classes, Attrs, None,
  MRO,            \* of every class, the classes in which attributes are looked
                  \* up, itself first
  Defined,        \* of every class and attribute, the kind its body defines
  Private,        \* the attributes whose names start with "_"
  MetaClasses,    \* the classes whose metaclass is TracedMeta
  Threads,
  MaxDecorations, \* BOUND: how many decorations are made
  MaxCalls        \* BOUND: how many calls

Kinds == {"function", "static", "class"}

ASSUME ClassesAssumption == Classes \cap Nat = {}
ASSUME DefinedAssumption == Defined \in [Classes -> [Attrs -> Kinds \cup {None}]]
ASSUME MroAssumption ==
  /\ MRO \in [Classes -> Seq(Classes)]
  /\ \A c \in Classes : MRO[c] # << >> /\ Head(MRO[c]) = c
ASSUME BoundsAssumption == MaxDecorations \in Nat /\ MaxCalls \in Nat

VARIABLES
  status,  \* of every class: "none", "body" while its metaclass is yet to run,
           \* "ready", or "refused" if the metaclass raised
  dict,    \* __dict__ of every class
  wraps,   \* of every wrapper, what it calls, and whether that was bound to a
           \* class already
  traced,  \* __traced__ of every function object, 0 if not set
  count,   \* how many decorations were made
  target,  \* HISTORY: the class of the last step
  multiple,\* HISTORY: a decoration was made with allow_multiple_trace
  frames,  \* of every thread, its calls in progress, innermost last
  info,    \* the dictionary that each wrapper keeps for all its calls
  records, \* the start records
  made,    \* how many calls were made
  overtaken \* HISTORY: calls whose arguments another call has replaced between
            \* their assignment and the record

classVars == <<status, dict, wraps, traced, count, target, multiple>>
callVars == <<frames, info, records, made, overtaken>>
vars == <<classVars, callVars>>

Originals == {<<c, a>> : c \in Classes, a \in Attrs}
Wrappers == {<<n, a>> : n \in 1 .. MaxDecorations, a \in Attrs}
Objects == Originals \cup Wrappers
Options == [private : BOOLEAN, multiple : BOOLEAN, class : BOOLEAN, static : BOOLEAN]

Entries == [kind : Kinds, object : Objects]

ASSUME NoneAssumption == None \notin Classes \cup Kinds \cup Entries

IsWrapper(o) == o \in DOMAIN wraps

-----------------------------------------------------------------------------
(* Attribute lookup, as Python does it.                                    *)
Holders(c, a) == {i \in DOMAIN MRO[c] : dict[MRO[c][i]][a] # None}
FirstHolder(c, a) == MRO[c][Min(Holders(c, a))]
Lookup(c, a) == IF Holders(c, a) = {} THEN None ELSE dict[FirstHolder(c, a)][a]
Members(c) == {a \in Attrs : Lookup(c, a) # None}

(* trace_cls() finds the kind of an inherited attribute in the dictionary  *)
(* of the class that has it.                                               *)
Mut_KindOf(c, a) == IF dict[c][a] = None THEN "function" ELSE dict[c][a].kind
KindOf(c, a) == Lookup(c, a).kind

Shown(a, private) == a \in Private => private

Selected(c, opt) ==
  {a \in Members(c) : /\ Shown(a, opt.private)
                      /\ KindOf(c, a) = "static" => opt.static
                      /\ KindOf(c, a) = "class" => opt.class}

(* TracedMeta looks at what the body of the class itself has defined.      *)
SelectedByMeta(c, opt) ==
  {a \in Attrs : /\ dict[c][a] # None /\ dict[c][a].kind = "function"
                 /\ Shown(a, opt.private)}

(* The decorations that are made: none if one is refused.                  *)
Mut_Allowed(c, A, opt) == {a \in A : opt.multiple \/ traced[Lookup(c, a).object] = 0}
Allowed(c, A, opt) ==
  IF opt.multiple \/ \A a \in A : traced[Lookup(c, a).object] = 0 THEN A ELSE {}

-----------------------------------------------------------------------------
(* trace() applied to the attributes A of c.  A function is marked, and    *)
(* functools.wraps copies the mark to the wrapper; the method bound to its *)
(* class that stands for a class method takes no mark.                     *)
NewMark(c, a) ==
  LET e == Lookup(c, a) IN traced[e.object] + IF e.kind = "class" THEN 0 ELSE 1
Mut_WrapperMark(c, a) == 0
WrapperMark(c, a) == NewMark(c, a)
Mut_Holder(c, a) == FirstHolder(c, a)
Holder(c, a) == c

Wrapped(c, A) ==
  LET n == count + 1
      new == {<<n, a>> : a \in A} IN
  /\ count' = n
  /\ wraps' = [w \in DOMAIN wraps \cup new |->
       IF w \in DOMAIN wraps THEN wraps[w]
       ELSE [of |-> Lookup(c, w[2]).object, bound |-> Lookup(c, w[2]).kind = "class"]]
  /\ traced' = [o \in Objects |->
       IF \E a \in A : o = Lookup(c, a).object THEN NewMark(c, o[2])
       ELSE IF o[1] = n /\ o[2] \in A THEN WrapperMark(c, o[2])
       ELSE traced[o]]
  /\ dict' = [d \in Classes |-> [a \in Attrs |->
       IF a \in A /\ d = Holder(c, a)
         THEN [kind |-> KindOf(c, a), object |-> <<n, a>>] ELSE dict[d][a]]]
  /\ info' = [w \in DOMAIN info \cup new |->
       IF w \in DOMAIN info THEN info[w] ELSE [name |-> None, args |-> None]]

Init ==
  /\ status = [c \in Classes |-> "none"]
  /\ dict = [c \in Classes |-> [a \in Attrs |-> None]]
  /\ wraps = << >>
  /\ traced = [o \in Objects |-> 0]
  /\ count = 0
  /\ target = None
  /\ multiple = FALSE
  /\ frames = [t \in Threads |-> << >>]
  /\ info = << >>
  /\ records = {}
  /\ made = 0
  /\ overtaken = {}

Loading(c) == made = 0 /\ \A d \in Classes \ {c} : status[d] # "body"
IsBase(b, c) == b \in ToSet(Tail(MRO[c]))

(* The body of a class runs.                                               *)
Create(c) ==
  /\ Loading(c)
  /\ status[c] = "none"
  /\ \A b \in Classes : IsBase(b, c) => status[b] = "ready"
  /\ status' = [status EXCEPT ![c] = IF c \in MetaClasses THEN "body" ELSE "ready"]
  /\ dict' = [dict EXCEPT ![c] = [a \in Attrs |->
       IF Defined[c][a] = None THEN None
       ELSE [kind |-> Defined[c][a], object |-> <<c, a>>]]]
  /\ target' = c
  /\ UNCHANGED <<wraps, traced, count, multiple, callVars>>

(* The decorations A of class c are made; multiple says whether any of     *)
(* them was allowed on top of another.                                     *)
Decorated(c, A, opt) ==
  /\ count < MaxDecorations
  /\ A # {}
  /\ Wrapped(c, A)
  /\ target' = c
  /\ multiple' = (multiple \/ opt.multiple)
  /\ UNCHANGED <<frames, records, made, overtaken>>

(* TracedMeta.__init__; when it refuses, there is no class.                *)
TracedMeta(c) ==
  \E opt \in [private : BOOLEAN, multiple : BOOLEAN] :
    LET A == SelectedByMeta(c, opt) IN
    /\ status[c] = "body"
    /\ \/ /\ Decorated(c, Allowed(c, A, opt), opt)
          /\ status' = [status EXCEPT ![c] = "ready"]
       \/ /\ Allowed(c, A, opt) = {}
          /\ status' = [status EXCEPT ![c] = IF A = {} THEN "ready" ELSE "refused"]
          /\ UNCHANGED <<dict, wraps, traced, count, target, multiple, callVars>>

trace_cls(c) ==
  \E opt \in Options :
    /\ Loading(c)
    /\ status[c] = "ready"
    /\ Decorated(c, Allowed(c, Selected(c, opt), opt), opt)
    /\ UNCHANGED status

(* The decorator on one function, in the body of its class or later.       *)
trace(c) ==
  \E a \in Attrs, m \in BOOLEAN :
    /\ Loading(c)
    /\ status[c] \in {"body", "ready"}
    /\ dict[c][a] # None /\ dict[c][a].kind = "function"
    /\ Decorated(c, Allowed(c, {a}, [multiple |-> m]), [multiple |-> m])
    /\ UNCHANGED status

-----------------------------------------------------------------------------
(* Calls.  Every wrapper writes the arguments into its dictionary, sends   *)
(* the dictionary with start(), and calls what it wraps.                   *)
At(o) == IF IsWrapper(o) THEN "write" ELSE "body"
Top(t) == Last(frames[t])
SetTop(t, f) == frames' = [frames EXCEPT ![t] = Front(@) \o <<f>>]
InBody(t) == frames[t] # << >> => Top(t).pc = "body"

Call(t) ==
  \E c \in Classes, a \in Attrs :
    /\ made < MaxCalls
    /\ \A d \in Classes : status[d] # "body"
    /\ status[c] = "ready" /\ a \in Members(c)
    /\ IsWrapper(Lookup(c, a).object)
    /\ InBody(t)
    /\ made' = made + 1
    /\ frames' = [frames EXCEPT ![t] =
         Append(@, [object |-> Lookup(c, a).object, call |-> made + 1, pc |-> "write"])]
    /\ UNCHANGED <<classVars, info, records, overtaken>>

Original[o \in Objects] == IF IsWrapper(o) THEN Original[wraps[o].of] ELSE o

(* trace() copies the info it was given: no two wrappers share it.         *)
InfoOf(o) == o

Mut_ArgsWritten(i, call) == IF i.args = None THEN call ELSE i.args
ArgsWritten(i, call) == call

WriteArgs(t) ==
  LET i == InfoOf(Top(t).object) IN
  /\ frames[t] # << >> /\ Top(t).pc = "write"
  /\ info' = [info EXCEPT
       ![i].name = IF @ = None THEN Original[Top(t).object] ELSE @,
       ![i].args = ArgsWritten(info[i], Top(t).call)]
  /\ overtaken' = overtaken \cup {Top(u).call : u \in {v \in Threads \ {t} :
       frames[v] # << >> /\ Top(v).pc = "start" /\ Top(v).object = Top(t).object}}
  /\ SetTop(t, [Top(t) EXCEPT !.pc = "start"])
  /\ UNCHANGED <<classVars, records, made>>

StartPoint(t) ==
  LET w == Top(t).object
      inner == wraps[w].of IN
  /\ frames[t] # << >> /\ Top(t).pc = "start"
  /\ records' = records \cup {[object |-> w, call |-> Top(t).call,
                               name |-> info[InfoOf(w)].name, args |-> info[InfoOf(w)].args]}
  /\ SetTop(t, [Top(t) EXCEPT !.object = inner, !.pc = At(inner)])
  /\ UNCHANGED <<classVars, info, made, overtaken>>

Return(t) ==
  /\ frames[t] # << >> /\ Top(t).pc = "body"
  /\ frames' = [frames EXCEPT ![t] = Front(@)]
  /\ UNCHANGED <<classVars, info, records, made, overtaken>>

Next ==
  \/ \E c \in Classes : Create(c) \/ TracedMeta(c) \/ trace_cls(c) \/ trace(c)
  \/ \E t \in Threads : Call(t) \/ WriteArgs(t) \/ StartPoint(t) \/ Return(t)

Spec == Init /\ [][Next]_vars

-----------------------------------------------------------------------------
(* Properties.                                                             *)

Layers[o \in Objects] == IF IsWrapper(o) THEN 1 + Layers[wraps[o].of] ELSE 0
BoundLayers[o \in Objects] ==
  IF IsWrapper(o) THEN BoundLayers[wraps[o].of] + (IF wraps[o].bound THEN 1 ELSE 0) ELSE 0

(* The points that a call of attribute a of class c opens.                 *)
Points(c, a) == IF a \in Members(c) THEN Layers[Lookup(c, a).object] ELSE 0

(* With allow_multiple_trace off wherever it can be, a call opens at most  *)
(* one point, whichever base class or decorator has traced the method      *)
(* before.  Class methods are not marked, and left out.                    *)
OnePointPerCall ==
  ~multiple => \A c \in Classes, a \in Attrs :
    a \in Members(c) /\ Lookup(c, a).kind # "class" => Points(c, a) <= 1

(* Tracing keeps how a method is bound, inherited or not: what was static  *)
(* is, and only class methods get an argument that the caller has not      *)
(* passed (their class, from every layer that wraps the bound method).     *)
MethodsKeepTheirKind ==
  \A c \in Classes : \A a \in Members(c) :
    LET e == Lookup(c, a)
        o == Original[e.object] IN
    /\ e.kind = Defined[o[1]][o[2]]
    /\ BoundLayers[e.object] = IF e.kind = "class" THEN Points(c, a) ELSE 0

(* A record names the function that was called, and has the arguments of   *)
(* its own call, in recursion and in other threads, unless a call of the   *)
(* same wrapper in another thread came between the two.                    *)
RecordsOfTheirCall ==
  \A r \in records : /\ r.name = Original[r.object]
                     /\ r.call \notin overtaken => r.args = r.call

(* Tracing a class changes what it and its subclasses do, but not its      *)
(* bases and siblings, although it marks functions that they share.        *)
OthersUntouched ==
  [][\A d \in Classes : target' \notin ToSet(MRO[d]) =>
       \A a \in Attrs : Lookup(d, a)' = Lookup(d, a)]_vars

(* "Check before doing any other further work (so we don't halfway trace   *)
(* this class)": a step adds a point to all that is selected, or to none.  *)
Grown(c) == {a \in Attrs : Points(c, a)' > Points(c, a)}
NeverHalfTraced ==
  [][\A c \in {target'} \ {None} :
       \/ Grown(c) = {}
       \/ \E a \in Attrs : Grown(c) = {a} /\ Lookup(c, a).kind = "function"
       \/ \E opt \in Options : Grown(c) \in {Selected(c, opt), SelectedByMeta(c, opt)}]_vars
=============================================================================
