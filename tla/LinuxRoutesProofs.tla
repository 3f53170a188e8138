-------------------------- MODULE LinuxRoutesProofs --------------------------
(***************************************************************************)
(* Proofs about LinuxRoutes, for any finite set of bypass prefixes and any *)
(* contents of resolv.conf.                                                *)
(*                                                                         *)
(*   OwnInv    what the vector of undo commands says about the kernel: a   *)
(*             session takes away nothing of other programs (OthersKept)   *)
(*             and gives back everything of its own (RoutesGivenBack);     *)
(*   StageInv  how far install has got, and what can be undone by then;    *)
(*   BypassInv the order of the undo commands: CoreBypassesTunnel;         *)
(*   DnsInv    resolv.conf against the undo commands: DnsOnlyInTunnel.     *)
(***************************************************************************)
EXTENDS LinuxRoutes, Integers, FiniteSetTheorems, TLAPS

\* The undo commands name distinct objects that are in the kernel and not another
\* program's, and together with the recorded failures they account for the whole kernel.
OwnInv ==
  /\ undo \in Seq(Object)
  /\ pc = "none" => undo = <<>>
  /\ foreign \subseteq Foreign
  /\ foreign \subseteq kernel
  /\ \A i \in DOMAIN undo : undo[i] \in kernel \ foreign
  /\ \A i, j \in DOMAIN undo : undo[i] = undo[j] => i = j
  /\ kernel \subseteq foreign \cup stuck \cup left \cup ToSet(undo)

(* What Append does to the set of undo commands.                                          *)
LEMMA AppendToSet ==
  ASSUME NEW s \in Seq(Object), NEW o \in Object
  PROVE  ToSet(Append(s, o)) = ToSet(s) \cup {o}
<1> DEFINE t == Append(s, o)
           n == Len(s)
<1>1. /\ n \in Nat /\ DOMAIN s = 1..n
      /\ DOMAIN t = 1..(n+1)
      /\ \A i \in 1..n : t[i] = s[i]
      /\ t[n+1] = o
  OBVIOUS
<1> HIDE DEF n, t
<1>2. \A x \in ToSet(s) : x \in ToSet(t)
  BY <1>1 DEF ToSet
<1>3. o \in ToSet(t)
  BY <1>1 DEF ToSet
<1>4. \A i \in 1..(n+1) : i \in 1..n \/ i = n+1
  BY <1>1
<1>5. \A x \in ToSet(t) : x \in ToSet(s) \cup {o}
  BY <1>1, <1>4 DEF ToSet
<1> QED
  BY <1>2, <1>3, <1>5 DEF t

(* What Routes::add does to undo when its command works: the new command names an object  *)
(* the others do not.                                                                     *)
LEMMA AddedKeeps ==
  ASSUME OwnInv, NEW o \in Object, Added(o), UNCHANGED <<foreign, stuck, left>>, pc' # "none"
  PROVE  OwnInv'
<1> DEFINE n == Len(undo)
<1>1. /\ n \in Nat /\ DOMAIN undo = 1..n
      /\ undo' \in Seq(Object) /\ DOMAIN undo' = 1..(n+1)
      /\ \A i \in 1..n : undo'[i] = undo[i]
      /\ undo'[n+1] = o
  BY DEF OwnInv, Added
<1>2. o \notin kernel /\ kernel' = kernel \cup {o}
  BY DEF Added
<1>3. \A i \in DOMAIN undo' : undo'[i] \in kernel' \ foreign'
  BY <1>1, <1>2 DEF OwnInv
<1>4. \A i, j \in DOMAIN undo' : undo'[i] = undo'[j] => i = j
  <2> SUFFICES ASSUME NEW i \in 1..(n+1), NEW j \in 1..(n+1), undo'[i] = undo'[j]
               PROVE  i = j
    BY <1>1
  <2>1. CASE i \in 1..n /\ j \in 1..n
    BY <2>1, <1>1 DEF OwnInv
  <2>2. CASE i = n+1 /\ j \in 1..n
    BY <2>2, <1>1, <1>2 DEF OwnInv
  <2>3. CASE i \in 1..n /\ j = n+1
    BY <2>3, <1>1, <1>2 DEF OwnInv
  <2>4. CASE i = n+1 /\ j = n+1
    BY <2>4
  <2> QED
    BY <1>1, <2>1, <2>2, <2>3, <2>4
<1>5. ToSet(undo') = ToSet(undo) \cup {o}
  BY AppendToSet DEF OwnInv, Added
<1> QED
  BY <1>1, <1>2, <1>3, <1>4, <1>5 DEF OwnInv

(* One turn of Drop's loop over undo.rev(): what is left of undo still names its objects. *)
LEMMA UndoKeeps ==
  ASSUME OwnInv, UndoLast
  PROVE  OwnInv'
<1> DEFINE n == Len(undo)
<1>1. /\ n \in Nat /\ n > 0 /\ DOMAIN undo = 1..n
      /\ undo' \in Seq(Object) /\ DOMAIN undo' = 1..(n-1)
      /\ \A i \in 1..(n-1) : undo'[i] = undo[i]
      /\ Last(undo) = undo[n]
  BY DEF OwnInv, UndoLast, Front, Last
<1> HIDE DEF n
<1>2. \A i \in 1..(n-1) : i \in 1..n /\ i # n
  BY <1>1
<1>3. \A i \in 1..(n-1) : undo[i] # undo[n]
  BY <1>1, <1>2 DEF OwnInv
<1>4. /\ kernel \ {undo[n]} \subseteq kernel'
      /\ undo[n] \notin kernel' \/ undo[n] \in stuck'
      /\ stuck \subseteq stuck'
      /\ kernel' \subseteq kernel
      /\ UNCHANGED <<foreign, pc, left>>
  BY <1>1 DEF UndoLast
<1>5. undo[n] \notin foreign
  BY <1>1 DEF OwnInv
<1>6. \A i \in DOMAIN undo' : undo'[i] \in kernel' \ foreign'
  BY <1>1, <1>2, <1>3, <1>4 DEF OwnInv
<1>7. \A i, j \in DOMAIN undo' : undo'[i] = undo'[j] => i = j
  BY <1>1, <1>2 DEF OwnInv
<1>8. \A x \in ToSet(undo) : x = undo[n] \/ x \in ToSet(undo')
  <2>1. \A i \in 1..n : i = n \/ i \in 1..(n-1)
    BY <1>1
  <2> QED
    BY <1>1, <2>1 DEF ToSet
<1>9. kernel' \subseteq foreign' \cup stuck' \cup left' \cup ToSet(undo')
  BY <1>4, <1>8 DEF OwnInv
<1>10. pc' # "none"
  BY DEF UndoLast
<1> QED
  BY <1>1, <1>4, <1>5, <1>6, <1>7, <1>9, <1>10 DEF OwnInv

(* The routes and rules of others, and the route of the TUN, never coincide.             *)
LEMMA Disjoint == Foreign \cap OnTun = {}
    /\ Rule \cup OnTun \cup Prefix \cup Foreign \subseteq Object
  BY PrefixAssumption DEF Foreign, OnTun, Object, Rule

(* An undo list that has nothing in it names nothing.                                     *)
LEMMA EmptyUndo == ASSUME NEW s, s = <<>> PROVE s \in Seq(Object) /\ DOMAIN s = {}
    /\ ToSet(s) = {}
  BY DEF ToSet

(* OwnInv holds of every state.                                                            *)
THEOREM OwnCorrect == Spec => []OwnInv
<1>1. Init => OwnInv
  <2> SUFFICES ASSUME Init PROVE OwnInv
    OBVIOUS
  <2> QED
    BY EmptyUndo DEF Init, OwnInv
<1>2. OwnInv /\ [Next]_vars => OwnInv'
  <2> SUFFICES ASSUME OwnInv, [Next]_vars PROVE OwnInv'
    OBVIOUS
  <2>0. ASSUME UNCHANGED <<kernel, foreign, undo, stuck, left>>, pc' # "none"
        PROVE  OwnInv'
    BY <2>0 DEF OwnInv
  <2>1. CASE Begin
    BY <2>0, <2>1 DEF Begin
  <2>2. ASSUME NEW p \in Prefix, AddBypass(p) PROVE OwnInv'
    <3>1. pc' # "none" /\ UNCHANGED <<foreign, stuck, left>>
      BY <2>2 DEF AddBypass, At
    <3>2. CASE Added(p)
      BY <3>1, <3>2, AddedKeeps, Disjoint
    <3>3. CASE UNCHANGED <<kernel, undo>>
      BY <2>0, <3>1, <3>3
    <3> QED
      BY <2>2, <3>2, <3>3 DEF AddBypass
  <2>3. CASE CheckFree
    BY <2>0, <2>3 DEF CheckFree, At
  <2>4. CASE CheckFails
    BY <2>0, <2>4 DEF CheckFails
  <2>5. ASSUME NEW o \in Rule \cup {"table"}, AddPolicy(o) PROVE OwnInv'
    <3>1. o \in Object /\ Added(o) /\ pc' # "none" /\ UNCHANGED <<foreign, stuck, left>>
      BY <2>5, Disjoint DEF AddPolicy, At, OnTun
    <3> QED
      BY <3>1, AddedKeeps
  <2>6. ASSUME NEW o \in Rule \cup {"table"}, PolicyFails(o) PROVE OwnInv'
    BY <2>0, <2>6 DEF PolicyFails
  <2>7. CASE AddDefault
    <3>1. "default" \in Object /\ pc' # "none" /\ UNCHANGED <<foreign, stuck, left>>
      BY <2>7, Disjoint DEF AddDefault, At, OnTun
    <3>2. CASE Added("default")
      BY <3>1, <3>2, AddedKeeps
    <3>3. CASE UNCHANGED <<kernel, undo>>
      BY <2>0, <3>1, <3>3
    <3> QED
      BY <2>7, <3>2, <3>3 DEF AddDefault
  <2>8. CASE ReadDns
    BY <2>0, <2>8 DEF ReadDns
  <2>9. CASE WriteDns
    BY <2>0, <2>9 DEF WriteDns
  <2>10. CASE WriteDnsFails
    BY <2>0, <2>10 DEF WriteDnsFails
  <2>11. CASE Leave
    BY <2>0, <2>11 DEF Leave
  <2>12. CASE Compare
    BY <2>0, <2>12 DEF Compare
  <2>13. CASE CompareFails
    BY <2>0, <2>13 DEF CompareFails
  <2>14. CASE Restore
    BY <2>0, <2>14 DEF Restore
  <2>15. CASE UndoLast
    BY <2>15, UndoKeeps
  <2>16. CASE Closed
    BY <2>16, Disjoint, EmptyUndo DEF Closed, OwnInv
  <2>17. CASE Crash
    BY <2>17, Disjoint, EmptyUndo DEF Crash, OwnInv
  <2>18. CASE OthersWriteDns
    BY <2>18 DEF OthersWriteDns, OwnInv
  <2>19. ASSUME NEW o \in Foreign, OthersAdd(o) PROVE OwnInv'
    BY <2>19 DEF OthersAdd, OwnInv
  <2>20. ASSUME NEW o \in Foreign, OthersRemove(o) PROVE OwnInv'
    BY <2>20 DEF OthersRemove, OwnInv
  <2>21. CASE UNCHANGED vars
    BY <2>21 DEF vars, OwnInv
  <2> QED
    BY <2>1, <2>2, <2>3, <2>4, <2>5, <2>6, <2>7, <2>8, <2>9, <2>10, <2>11, <2>12, <2>13, <2>14,
       <2>15, <2>16, <2>17, <2>18, <2>19, <2>20, <2>21 DEF Next
<1>3. QED
  BY <1>1, <1>2, PTL DEF Spec

(* Whatever fails, a session never removes a route or rule of another program.            *)
THEOREM OthersSafe == Spec => []OthersKept
<1>1. OwnInv => OthersKept
  BY DEF OwnInv, OthersKept
<1> QED
  BY <1>1, OwnCorrect, PTL

(* Whichever step of install failed, what the kernel holds after the session is another    *)
(* program's, or was reported as not removable, or comes from a killed backend.            *)
THEOREM RoutesReturned == Spec => []RoutesGivenBack
<1>1. OwnInv => RoutesGivenBack
  BY EmptyUndo DEF OwnInv, RoutesGivenBack
<1> QED
  BY <1>1, OwnCorrect, PTL

-----------------------------------------------------------------------------
(* A set of prefixes is put in some order.                                                *)
LEMMA PrefixesInOrder == \A bypass \in SUBSET Prefix : SetToSeq(bypass) \in Seq(Prefix)
<1> SUFFICES ASSUME NEW bypass \in SUBSET Prefix PROVE SetToSeq(bypass) \in Seq(Prefix)
  OBVIOUS
<1>1. IsFiniteSet(bypass)
  BY PrefixAssumption, FS_Subset
<1> DEFINE n == Cardinality(bypass)
<1>2. n \in Nat /\ \E f \in [1..n -> bypass] : IsInjective(f)
  BY <1>1, FS_CardinalityType DEF ExistsBijection, Bijection, Injection
<1>3. SetToSeq(bypass) \in [1..n -> bypass]
  BY <1>2 DEF SetToSeq
<1> QED
  BY <1>2, <1>3

(* Taking the head off a sequence that ends in another one.                               *)
LEMMA TailOfConcat ==
  ASSUME NEW S, NEW T, NEW b \in Seq(S), NEW s \in Seq(T), s # <<>>
  PROVE  \/ b = <<>> /\ b \o s = s
         \/ Head(b \o s) \in S /\ Tail(b) \in Seq(S) /\ Tail(b \o s) = Tail(b) \o s
<1>1. CASE b = <<>>
  BY <1>1
<1>2. CASE b # <<>>
  BY <1>2
<1> QED
  BY <1>1, <1>2

-----------------------------------------------------------------------------
TableOn == <<"table", "uidRule", "mainRule", "catchRule">>
UidOn   == <<"uidRule", "mainRule", "catchRule">>
MainOn  == <<"mainRule", "catchRule">>
CatchOn == <<"catchRule">>

PolicyObject == {"table"} \cup Rule

\* How far install has got: what is still to do, and what can be undone by then. The
\* catch-all rule is the last to come, and comes into a kernel that has none.
StageInv ==
  pc = "add" =>
    IF policy
      THEN \/ \E b \in Seq(Prefix) : todo = b \o Policy
           \/ todo = TableOn /\ "catchRule" \notin kernel
           \/ todo = UidOn /\ "catchRule" \notin kernel /\ {"table"} \subseteq ToSet(undo)
           \/ todo = MainOn /\ "catchRule" \notin kernel
                /\ {"table", "uidRule"} \subseteq ToSet(undo)
           \/ todo = CatchOn /\ {"table", "uidRule", "mainRule"} \subseteq ToSet(undo)
           \/ todo = <<>> /\ PolicyObject \subseteq ToSet(undo)
      ELSE todo \in Seq(Prefix \cup {"default"})

(* The names of the commands are not prefixes.                                            *)
LEMMA Names ==
  /\ "check" \notin Prefix \cup Object
  /\ Rule \cap Foreign = {}
  /\ PolicyObject \cap (Prefix \cup {"default"}) = {}
  BY PrefixAssumption DEF Object, Foreign, PolicyObject, Rule, OnTun

(* The command at the head of todo, by the stage install is at.                           *)
LEMMA Stages ==
  ASSUME StageInv, pc = "add", policy
  PROVE  \/ \E b \in Seq(Prefix) : Head(todo) \in Prefix /\ Tail(todo) = b \o Policy
         \/ Head(todo) = "check" /\ Tail(todo) = TableOn
         \/ /\ Head(todo) = "table" /\ Tail(todo) = UidOn
            /\ "catchRule" \notin kernel
         \/ /\ Head(todo) = "uidRule" /\ Tail(todo) = MainOn
            /\ "catchRule" \notin kernel /\ {"table"} \subseteq ToSet(undo)
         \/ /\ Head(todo) = "mainRule" /\ Tail(todo) = CatchOn
            /\ "catchRule" \notin kernel /\ {"table", "uidRule"} \subseteq ToSet(undo)
         \/ /\ Head(todo) = "catchRule" /\ Tail(todo) = <<>>
            /\ {"table", "uidRule", "mainRule"} \subseteq ToSet(undo)
         \/ todo = <<>> /\ PolicyObject \subseteq ToSet(undo)
<1>1. ASSUME NEW b \in Seq(Prefix), todo = b \o Policy
      PROVE  \/ \E c \in Seq(Prefix) : Head(todo) \in Prefix /\ Tail(todo) = c \o Policy
             \/ Head(todo) = "check" /\ Tail(todo) = TableOn
  <2>1. Policy \in Seq({"check", "table", "uidRule", "mainRule", "catchRule"}) /\ Policy # <<>>
    BY DEF Policy
  <2>2. Head(Policy) = "check" /\ Tail(Policy) = TableOn
    BY DEF Policy, TableOn
  <2>3. \/ b = <<>> /\ todo = Policy
        \/ Head(todo) \in Prefix /\ Tail(b) \in Seq(Prefix) /\ Tail(todo) = Tail(b) \o Policy
    BY <1>1, <2>1, TailOfConcat
  <2> QED
    BY <2>2, <2>3
<1>2. /\ Head(TableOn) = "table" /\ Tail(TableOn) = UidOn
      /\ Head(UidOn) = "uidRule" /\ Tail(UidOn) = MainOn
      /\ Head(MainOn) = "mainRule" /\ Tail(MainOn) = CatchOn
      /\ Head(CatchOn) = "catchRule" /\ Tail(CatchOn) = <<>>
  BY DEF TableOn, UidOn, MainOn, CatchOn
<1> QED
  BY <1>1, <1>2 DEF StageInv

(* The order of install holds in every state.                                              *)
LEMMA StageCorrect == Spec => []StageInv
<1>1. Init => StageInv
  BY DEF Init, StageInv
<1>2. OwnInv /\ StageInv /\ [Next]_vars => StageInv'
  <2> SUFFICES ASSUME OwnInv, StageInv, [Next]_vars, pc' = "add" PROVE StageInv'
    BY DEF StageInv
  <2> DEFINE Got == ToSet(undo)
  <2>0. ASSUME UNCHANGED <<undo, todo, policy, pc>>, "catchRule" \in kernel'
      => "catchRule" \in kernel
        PROVE  StageInv'
    BY <2>0 DEF StageInv
  <2>1. CASE Begin
    <3>1. PICK bypass \in SUBSET Prefix, uid \in BOOLEAN :
            /\ todo' = SetToSeq(bypass) \o (IF uid THEN Policy ELSE <<"default">>)
            /\ policy' = uid
      BY <2>1 DEF Begin
    <3>2. SetToSeq(bypass) \in Seq(Prefix)
      BY PrefixesInOrder
    <3>3. CASE uid
      BY <3>1, <3>2, <3>3 DEF StageInv
    <3>4. CASE ~uid
      <4>1. todo' = SetToSeq(bypass) \o <<"default">>
        BY <3>1, <3>4
      <4>2. todo' \in Seq(Prefix \cup {"default"})
        BY <3>2, <4>1
      <4> QED BY <3>1, <3>4, <4>2 DEF StageInv
    <3> QED BY <3>3, <3>4
  <2>2. ASSUME NEW p \in Prefix, AddBypass(p) PROVE StageInv'
    <3>1. pc = "add" /\ Head(todo) = p /\ todo # <<>> /\ todo' = Tail(todo) /\ policy' = policy
      BY <2>2 DEF AddBypass, At
    <3>2. CASE policy
      <4>1. \E b \in Seq(Prefix) : Tail(todo) = b \o Policy
        BY <3>1, <3>2, Stages, Names DEF PolicyObject, Rule
      <4> QED BY <3>1, <3>2, <4>1 DEF StageInv
    <3>3. CASE ~policy
      BY <3>1, <3>3 DEF StageInv
    <3> QED BY <3>2, <3>3
  <2>3. CASE CheckFree
    <3>1. /\ pc = "add" /\ Head(todo) = "check" /\ todo # <<>> /\ todo' = Tail(todo)
          /\ policy' = policy /\ kernel' = kernel /\ "catchRule" \notin kernel
      BY <2>3 DEF CheckFree, At, Rule
    <3>2. CASE policy
      <4>1. Tail(todo) = TableOn
        BY <3>1, <3>2, Stages, Names
      <4> QED BY <3>1, <3>2, <4>1 DEF StageInv
    <3>3. CASE ~policy
      BY <3>1, <3>3 DEF StageInv
    <3> QED BY <3>2, <3>3
  <2>4. ASSUME NEW o \in PolicyObject, AddPolicy(o) PROVE StageInv'
    <3>1. /\ pc = "add" /\ Head(todo) = o /\ todo # <<>> /\ todo' = Tail(todo)
        /\ policy' = policy
          /\ kernel' = kernel \cup {o} /\ undo' = Append(undo, o)
      BY <2>4 DEF AddPolicy, At, Added
    <3>2. o \in Object
      BY Disjoint DEF PolicyObject, OnTun
    <3>3. ToSet(undo') = Got \cup {o}
      BY <3>1, <3>2, AppendToSet DEF OwnInv
    <3>4. CASE policy
      <4>1. /\ o = "table" => Tail(todo) = UidOn /\ "catchRule" \notin kernel
            /\ o = "uidRule" => /\ Tail(todo) = MainOn /\ "catchRule" \notin kernel
                                /\ {"table"} \subseteq Got
            /\ o = "mainRule" => /\ Tail(todo) = CatchOn
                                 /\ {"table", "uidRule"} \subseteq Got
            /\ o = "catchRule" => /\ Tail(todo) = <<>>
                                  /\ {"table", "uidRule", "mainRule"} \subseteq Got
        BY <3>1, <3>4, Stages, Names
      <4>2. o \in {"table", "uidRule", "mainRule", "catchRule"}
        BY DEF PolicyObject, Rule
      <4>3. CASE o = "table"
        BY <3>1, <3>3, <3>4, <4>1, <4>3 DEF StageInv
      <4>4. CASE o = "uidRule"
        BY <3>1, <3>3, <3>4, <4>1, <4>4 DEF StageInv
      <4>5. CASE o = "mainRule"
        BY <3>1, <3>3, <3>4, <4>1, <4>5 DEF StageInv
      <4>6. CASE o = "catchRule"
        BY <3>1, <3>3, <3>4, <4>1, <4>6 DEF StageInv, PolicyObject, Rule
      <4> QED BY <4>2, <4>3, <4>4, <4>5, <4>6
    <3>5. CASE ~policy
      <4>1. todo \in Seq(Prefix \cup {"default"})
        BY <3>1, <3>5 DEF StageInv
      <4> QED BY <3>1, <3>5, <4>1, Names
    <3> QED BY <3>4, <3>5
  <2>5. CASE AddDefault
    <3>1. pc = "add" /\ Head(todo) = "default" /\ todo # <<>> /\ todo' = Tail(todo)
        /\ policy' = policy
      BY <2>5 DEF AddDefault, At
    <3>2. CASE policy
      BY <3>1, <3>2, Stages, PrefixAssumption
    <3>3. CASE ~policy
      BY <3>1, <3>3 DEF StageInv
    <3> QED BY <3>2, <3>3
  <2>6. CASE OthersWriteDns
    BY <2>0, <2>6 DEF OthersWriteDns
  <2>7. ASSUME NEW o \in Foreign, OthersAdd(o) PROVE StageInv'
    BY <2>0, <2>7, Names DEF OthersAdd, Rule
  <2>8. ASSUME NEW o \in Foreign, OthersRemove(o) PROVE StageInv'
    BY <2>0, <2>8 DEF OthersRemove
  <2>9. CASE UNCHANGED vars
    BY <2>0, <2>9 DEF vars
  <2>10. ~CheckFails /\ ~ReadDns /\ ~WriteDns /\ ~WriteDnsFails /\ ~Leave /\ ~Compare
         /\ ~CompareFails /\ ~Restore /\ ~UndoLast /\ ~Closed /\ ~Crash
         /\ \A o \in PolicyObject : ~PolicyFails(o)
    BY DEF CheckFails, ReadDns, WriteDns, WriteDnsFails, Leave, Compare, CompareFails, Restore,
       UndoLast, Closed, Crash, PolicyFails
  <2> QED
    BY <2>1, <2>2, <2>3, <2>4, <2>5, <2>6, <2>7, <2>8, <2>9, <2>10 DEF Next, PolicyObject
<1>3. QED
  BY <1>1, <1>2, OwnCorrect, PTL DEF Spec

-----------------------------------------------------------------------------
\* A rule that lets packets past the tunnel is undone after the catch-all rule, or that rule
\* is not there: what keeps CoreBypassesTunnel while undo is run backwards.
BypassInv ==
  /\ CoreBypassesTunnel
  /\ \A i \in DOMAIN undo :
       undo[i] \in {"uidRule", "mainRule"} /\ "catchRule" \in kernel \ stuck =>
         \E j \in DOMAIN undo : i < j /\ undo[j] = "catchRule"

(* The core's own packets bypass the tunnel whenever the catch-all rule stands: install    *)
(* adds it last, and the reverse order of the undo commands takes it away first.          *)
THEOREM BypassCorrect == Spec => []CoreBypassesTunnel
<1>1. Init => BypassInv
  BY EmptyUndo DEF Init, BypassInv, CoreBypassesTunnel
<1>2. OwnInv /\ StageInv /\ BypassInv /\ [Next]_vars => BypassInv'
  <2> SUFFICES ASSUME OwnInv, StageInv, BypassInv, [Next]_vars PROVE BypassInv'
    OBVIOUS
  <2>0. ASSUME UNCHANGED <<undo, stuck>>,
               \A o \in Rule : o \in kernel' <=> o \in kernel
        PROVE  BypassInv'
    BY <2>0 DEF BypassInv, CoreBypassesTunnel, Rule
  <2>a. /\ undo \in Seq(Object) /\ Len(undo) \in Nat /\ DOMAIN undo = 1..Len(undo)
        /\ \A i \in DOMAIN undo : undo[i] \in kernel
    BY DEF OwnInv
  <2>b. ASSUME NEW o \in Object \ Rule, Added(o), UNCHANGED stuck
        PROVE  BypassInv'
    <3>1. /\ kernel' = kernel \cup {o}
          /\ DOMAIN undo' = 1..(Len(undo) + 1)
          /\ \A i \in DOMAIN undo : undo'[i] = undo[i]
          /\ undo'[Len(undo) + 1] = o
      BY <2>a, <2>b DEF Added
    <3>2. \A i \in DOMAIN undo' : i \in DOMAIN undo \/ i = Len(undo) + 1
      BY <2>a, <3>1
    <3>3. DOMAIN undo \subseteq DOMAIN undo'
      BY <2>a, <3>1
    <3> QED
      BY <2>b, <3>1, <3>2, <3>3 DEF BypassInv, CoreBypassesTunnel, Rule
  <2>1. CASE Begin
    BY <2>0, <2>1 DEF Begin
  <2>2. ASSUME NEW p \in Prefix, AddBypass(p) PROVE BypassInv'
    <3>1. UNCHANGED stuck /\ p \in Object \ Rule
      BY <2>2, PrefixAssumption DEF AddBypass, Object, Rule
    <3> QED
      BY <2>0, <2>2, <2>b, <3>1 DEF AddBypass
  <2>3. CASE CheckFree
    BY <2>0, <2>3 DEF CheckFree
  <2>4. CASE CheckFails
    BY <2>0, <2>4 DEF CheckFails
  <2>5. ASSUME NEW o \in PolicyObject, AddPolicy(o) PROVE BypassInv'
    <3>1. pc = "add" /\ todo # <<>> /\ Head(todo) = o /\ Added(o) /\ UNCHANGED stuck
      BY <2>5 DEF AddPolicy, At
    <3>2. /\ kernel' = kernel \cup {o}
          /\ DOMAIN undo' = 1..(Len(undo) + 1)
          /\ \A i \in DOMAIN undo : undo'[i] = undo[i]
          /\ undo'[Len(undo) + 1] = o
      BY <2>a, <3>1 DEF Added
    <3>3. o \notin Prefix \cup {"default", "check"}
      BY Names, PrefixAssumption DEF PolicyObject, Rule
    <3>4. policy
      BY <3>1, <3>3 DEF StageInv
    <3>5. /\ o \in {"uidRule", "mainRule"} => "catchRule" \notin kernel
          /\ o = "catchRule" => {"uidRule", "mainRule"} \subseteq ToSet(undo)
      BY <3>1, <3>3, <3>4, Stages
    <3>6. \A i \in DOMAIN undo' : i \in DOMAIN undo \/ i = Len(undo) + 1
      BY <2>a, <3>2
    <3>7. DOMAIN undo \subseteq DOMAIN undo'
      BY <2>a, <3>2
    <3>8. CASE o = "table"
      BY <2>b, <3>1, <3>8, Disjoint DEF OnTun, Rule
    <3>9. CASE o \in {"uidRule", "mainRule"}
      BY <3>1, <3>2, <3>5, <3>9 DEF BypassInv, CoreBypassesTunnel
    <3>10. CASE o = "catchRule"
      <4>1. {"uidRule", "mainRule"} \subseteq kernel'
        BY <2>a, <3>2, <3>5, <3>10 DEF ToSet
      <4>2. \A i \in DOMAIN undo' : undo'[i] \in {"uidRule", "mainRule"} =>
              i < Len(undo) + 1 /\ undo'[Len(undo) + 1] = "catchRule"
        BY <2>a, <3>2, <3>6, <3>10
      <4>3. Len(undo) + 1 \in DOMAIN undo'
        BY <2>a, <3>2
      <4> QED
        BY <4>1, <4>2, <4>3 DEF BypassInv, CoreBypassesTunnel
    <3> QED
      BY <3>8, <3>9, <3>10 DEF PolicyObject, Rule
  <2>6. ASSUME NEW o \in PolicyObject, PolicyFails(o) PROVE BypassInv'
    BY <2>0, <2>6 DEF PolicyFails
  <2>7. CASE AddDefault
    <3>1. UNCHANGED stuck /\ "default" \in Object \ Rule
      BY <2>7, Disjoint DEF AddDefault, OnTun, Rule
    <3> QED
      BY <2>0, <2>7, <2>b, <3>1 DEF AddDefault
  <2>8. CASE ReadDns
    BY <2>0, <2>8 DEF ReadDns
  <2>9. CASE WriteDns
    BY <2>0, <2>9 DEF WriteDns
  <2>10. CASE WriteDnsFails
    BY <2>0, <2>10 DEF WriteDnsFails
  <2>11. CASE Leave
    BY <2>0, <2>11 DEF Leave
  <2>12. CASE Compare
    BY <2>0, <2>12 DEF Compare
  <2>13. CASE CompareFails
    BY <2>0, <2>13 DEF CompareFails
  <2>14. CASE Restore
    BY <2>0, <2>14 DEF Restore
  <2>15. CASE UndoLast
    <3> DEFINE n == Len(undo)
    <3>1. /\ n \in Nat /\ n > 0 /\ DOMAIN undo = 1..n
          /\ DOMAIN undo' = 1..(n-1)
          /\ \A i \in 1..(n-1) : undo'[i] = undo[i]
          /\ Last(undo) = undo[n]
      BY <2>a, <2>15 DEF UndoLast, Front, Last
    <3>2. /\ kernel' \subseteq kernel /\ stuck \subseteq stuck'
          /\ kernel \ {undo[n]} \subseteq kernel'
          /\ undo[n] \notin kernel' \ stuck'
      BY <2>15, <3>1 DEF UndoLast
    <3> HIDE DEF n
    <3>3. CASE "catchRule" \in kernel' \ stuck'
      <4>1. "catchRule" \in kernel \ stuck /\ undo[n] # "catchRule"
        BY <3>2, <3>3
      <4>2. undo[n] \notin {"uidRule", "mainRule"}
        <5> SUFFICES ASSUME undo[n] \in {"uidRule", "mainRule"} PROVE FALSE
          OBVIOUS
        <5>1. PICK j \in 1..n : n < j
          BY <3>1, <4>1 DEF BypassInv
        <5> QED BY <3>1, <5>1
      <4>3. {"uidRule", "mainRule"} \subseteq kernel'
        BY <3>2, <4>1, <4>2 DEF BypassInv, CoreBypassesTunnel
      <4>4. ASSUME NEW i \in 1..(n-1), undo'[i] \in {"uidRule", "mainRule"}
            PROVE  \E j \in 1..(n-1) : i < j /\ undo'[j] = "catchRule"
        <5>1. i \in 1..n /\ undo[i] \in {"uidRule", "mainRule"}
          BY <3>1, <4>4
        <5>2. PICK j \in 1..n : i < j /\ undo[j] = "catchRule"
          BY <3>1, <4>1, <5>1 DEF BypassInv
        <5>3. j \in 1..(n-1)
          BY <3>1, <4>1, <5>2
        <5> QED BY <3>1, <5>2, <5>3
      <4> QED
        BY <3>1, <4>3, <4>4 DEF BypassInv, CoreBypassesTunnel
    <3>4. CASE "catchRule" \notin kernel' \ stuck'
      BY <3>4 DEF BypassInv, CoreBypassesTunnel
    <3> QED BY <3>3, <3>4
  <2>16. CASE Closed
    BY <2>16, EmptyUndo DEF Closed, BypassInv, CoreBypassesTunnel, OnTun
  <2>17. CASE Crash
    BY <2>17, EmptyUndo DEF Crash, BypassInv, CoreBypassesTunnel, OnTun
  <2>18. CASE OthersWriteDns
    BY <2>0, <2>18 DEF OthersWriteDns
  <2>19. ASSUME NEW o \in Foreign, OthersAdd(o) PROVE BypassInv'
    BY <2>0, <2>19, Names DEF OthersAdd
  <2>20. ASSUME NEW o \in Foreign, OthersRemove(o) PROVE BypassInv'
    BY <2>0, <2>20, Names DEF OthersRemove
  <2>21. CASE UNCHANGED vars
    BY <2>0, <2>21 DEF vars
  <2> QED
    BY <2>1, <2>2, <2>3, <2>4, <2>5, <2>6, <2>7, <2>8, <2>9, <2>10, <2>11, <2>12, <2>13, <2>14,
       <2>15, <2>16, <2>17, <2>18, <2>19, <2>20, <2>21 DEF Next, PolicyObject
<1>3. BypassInv => CoreBypassesTunnel
  BY DEF BypassInv
<1>4. QED
  BY <1>1, <1>2, <1>3, OwnCorrect, StageCorrect, PTL DEF Spec

-----------------------------------------------------------------------------
\* Where the session's DNS is, the session's routes are: from the write to the restore the
\* undo commands have all of the policy, and what is to be put back is another program's.
DnsInv ==
  /\ pc \in {"write", "up"} /\ policy => PolicyObject \subseteq ToSet(undo)
  /\ ~dnsLost =>
       /\ resolv \in Content \cup {Ours}
       /\ pc = "write" => saved \in Content
       /\ pc = "restore" => dns \in Content
       /\ resolv = Ours =>
            /\ pc \in {"up", "compare", "restore"}
            /\ dns \in Content
            /\ policy => PolicyObject \subseteq ToSet(undo)

(* resolv.conf has the session's DNS only while the session's routes lead to it, and never *)
(* after the session - unless reading or writing it failed, or the backend was killed.     *)
THEOREM DnsCorrect == Spec => []DnsOnlyInTunnel
<1>1. Init => DnsInv
  BY ContentAssumption DEF Init, DnsInv
<1>2. OwnInv /\ StageInv /\ DnsInv /\ [Next]_vars => DnsInv'
  <2> SUFFICES ASSUME OwnInv, StageInv, DnsInv, [Next]_vars PROVE DnsInv'
    OBVIOUS
  <2>0. ASSUME UNCHANGED <<undo, policy, saved, dns, resolv, dnsLost, pc>>
        PROVE  DnsInv'
    BY <2>0 DEF DnsInv
  <2>a. ASSUME pc \in {"none", "add"}, pc' \in {"add", "compare"},
               UNCHANGED <<resolv, dnsLost>>
        PROVE  DnsInv'
    BY <2>a DEF DnsInv
  <2>1. CASE Begin
    BY <2>a, <2>1 DEF Begin
  <2>2. ASSUME NEW p \in Prefix, AddBypass(p) PROVE DnsInv'
    BY <2>a, <2>2 DEF AddBypass, At
  <2>3. CASE CheckFree
    BY <2>a, <2>3 DEF CheckFree, At
  <2>4. CASE CheckFails
    BY <2>a, <2>4 DEF CheckFails, At
  <2>5. ASSUME NEW o \in PolicyObject, AddPolicy(o) PROVE DnsInv'
    BY <2>a, <2>5 DEF AddPolicy, At
  <2>6. ASSUME NEW o \in PolicyObject, PolicyFails(o) PROVE DnsInv'
    BY <2>a, <2>6 DEF PolicyFails, At
  <2>7. CASE AddDefault
    BY <2>a, <2>7 DEF AddDefault, At
  <2>8. CASE ReadDns
    <3>1. CASE pc' = "compare"
      BY <2>a, <2>8, <3>1 DEF ReadDns
    <3>2. CASE saved' = resolv /\ pc' = "write"
      <4>1. pc = "add" /\ todo = <<>> /\ UNCHANGED <<undo, policy, resolv, dnsLost, dns>>
        BY <2>8 DEF ReadDns
      <4>2. policy => PolicyObject \subseteq ToSet(undo)
        <5> SUFFICES ASSUME policy PROVE PolicyObject \subseteq ToSet(undo)
          OBVIOUS
        <5>1. \A b \in Seq(Prefix) : b \o Policy # <<>>
          BY DEF Policy
        <5> QED
          BY <4>1, <5>1 DEF StageInv, TableOn, UidOn, MainOn, CatchOn
      <4> QED BY <3>2, <4>1, <4>2 DEF DnsInv
    <3> QED BY <2>8, <3>1, <3>2 DEF ReadDns
  <2>9. CASE WriteDns
    BY <2>9 DEF WriteDns, DnsInv
  <2>10. CASE WriteDnsFails
    BY <2>10, ContentAssumption DEF WriteDnsFails, DnsInv
  <2>11. CASE Leave
    BY <2>11 DEF Leave, DnsInv
  <2>12. CASE Compare
    BY <2>12, ContentAssumption DEF Compare, DnsInv
  <2>13. CASE CompareFails
    BY <2>13 DEF CompareFails, DnsInv
  <2>14. CASE Restore
    BY <2>14, ContentAssumption DEF Restore, DnsInv
  <2>15. CASE UndoLast
    BY <2>15 DEF UndoLast, DnsInv
  <2>16. CASE Closed
    BY <2>16 DEF Closed, DnsInv
  <2>17. CASE Crash
    BY <2>17 DEF Crash, DnsInv
  <2>18. CASE OthersWriteDns
    BY <2>18, ContentAssumption DEF OthersWriteDns, DnsInv
  <2>19. ASSUME NEW o \in Foreign, OthersAdd(o) PROVE DnsInv'
    BY <2>0, <2>19 DEF OthersAdd
  <2>20. ASSUME NEW o \in Foreign, OthersRemove(o) PROVE DnsInv'
    BY <2>0, <2>20 DEF OthersRemove
  <2>21. CASE UNCHANGED vars
    BY <2>0, <2>21 DEF vars
  <2> QED
    BY <2>1, <2>2, <2>3, <2>4, <2>5, <2>6, <2>7, <2>8, <2>9, <2>10, <2>11, <2>12, <2>13, <2>14,
       <2>15, <2>16, <2>17, <2>18, <2>19, <2>20, <2>21 DEF Next, PolicyObject
<1>3. OwnInv /\ DnsInv => DnsOnlyInTunnel
  <2>1. OwnInv => ToSet(undo) \subseteq kernel
    BY DEF OwnInv, ToSet
  <2> QED
    BY <2>1 DEF DnsInv, DnsOnlyInTunnel, PolicyObject
<1>4. QED
  BY <1>1, <1>2, <1>3, OwnCorrect, StageCorrect, PTL DEF Spec
=============================================================================
