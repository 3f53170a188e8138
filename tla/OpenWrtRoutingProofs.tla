------------------------ MODULE OpenWrtRoutingProofs ------------------------
(***************************************************************************)
(* What the order of the commands of OpenWrtRouting guarantees, proved for *)
(* any bounds: RoutingInv is inductive, and the four safety properties of  *)
(* OpenWrtRouting follow from it. What is still ahead of install, of Drop  *)
(* or of a cleanup is the rest of a fixed order, so that one command being *)
(* ahead implies that the later ones are (InstallPlaces, DropPlaces).      *)
(***************************************************************************)
EXTENDS OpenWrtRouting, TLAPS

-----------------------------------------------------------------------------
(* What is still to be run is the rest of the order its phase began with.  *)

Items(s) == {s[i] : i \in DOMAIN s}

Ahead == Items(todo)

Rest(s, order) == \E n \in 0..Len(order) : s = SubSeq(order, n + 1, Len(order))

RestInv ==
  /\ at \in {"none", "up", "closing"} => todo = <<>>
  /\ at = "legacy" => Rest(todo, LegacyOrder)
  /\ at = "stale" => Rest(todo, StaleOrder)
  /\ at = "install" => Rest(todo, InstallOrder)
  /\ at = "drop" => Rest(todo, DropOrder)

Flag == Chain \cup Slot \cup Forward \cup {JumpTo[c] : c \in Chain}

\* The flags are set in the order of install, so that the later ones imply the earlier ones.
FlagInv ==
  /\ known \subseteq Flag \cup {"fw4"}
  /\ at \in {"none", "legacy", "stale"} => known = {}
  /\ at = "install" => \A o \in Flag : (o \in known <=> o \notin Ahead)
  /\ at = "up" => Flag \subseteq known
  /\ known # {} => "outputChain" \in known
  /\ "natChain" \in known => "preroutingChain" \in known
  /\ "markRule" \in known => "uidRule" \in known
  /\ Selection \cap known # {} => Slot \subseteq known

\* The chains, the rules and the route of the session are there from the step that adds them
\* to the one that removes them; the route may go with the TUN.
SlotInv ==
  /\ at \in {"none", "legacy", "stale"} => ~Has("route")
  /\ at = "install" => \A o \in Slot : (Has(o) <=> o \in known)
  /\ at = "up" => \A o \in Slot : (o = "route" /\ ~tun) \/ Has(o)
  /\ at = "drop" => /\ \A o \in Slot \ known : ~Has(o)
                    /\ \A o \in Slot \cap known \cap Ahead : (o = "route" /\ ~tun) \/ Has(o)
                    /\ \A o \in known \ Ahead : Has(o) => o \in stuck
  /\ at = "closing" => \A o \in Slot \cup known : Has(o) => o \in stuck

Owned(o) ==
  \/ at \in {"install", "up"} /\ Undone(o)
  \/ at = "drop" /\ Undone(o) /\ o \in Ahead
  \/ at = "closing" /\ o = "route"

\* The kernel holds nothing but what the session will undo, what stuck and what a kill left.
OwnInv == \A o \in Object : Has(o) => Owned(o) \/ o \in stuck \cup left

\* resolv.conf is as the others wrote it or can be put back.
DnsInv ==
  ~dnsLost =>
    /\ resolv # "broken"
    /\ at \in {"up", "drop"} /\ resolv = "ours" => dns = "theirs"
    /\ at \notin {"up", "drop"} => resolv = "theirs"

-----------------------------------------------------------------------------
(* What remains of earlier sessions can be recognised.                     *)

Loose == {o \in Object : Has(o) /\ o \notin stuck}

NoChain == \A c \in Chain : ~Has(c)

\* Without a chain there are the rules of an old release at most, and these all together.
Recognised ==
  /\ "legacyRule" \in Loose => Has("markRule")
  /\ NoChain => Loose \subseteq Legacy
  /\ NoChain /\ Loose # {} => Has("legacyRule") /\ Has("markRule")

RemainsInv ==
  ~disturbed =>
    /\ at = "none" => Recognised
    /\ at = "legacy" => /\ "legacyRule" \in Loose => "legacyRule" \in Ahead
                        /\ NoChain => Loose \subseteq Ahead
    /\ at = "stale" => Loose \subseteq Ahead
    /\ at \in {"install", "up"} => \A o \in Loose : Undone(o)
    /\ at = "drop" => \A o \in Loose : Undone(o) /\ o \in Ahead
    /\ at = "closing" => Loose = {}

\* The chains of the session stand until they are deleted.
ChainInv ==
  /\ at \in {"install", "up"} => \A c \in Chain \cap known : Has(c)
  /\ at = "drop" => \A c \in Chain \cap known \cap Ahead : Has(c)

-----------------------------------------------------------------------------
(* The orders.                                                             *)

Once(order) == \A i, j \in 1..Len(order) : order[i] = order[j] => i = j

\* Taking the head off the rest of an order leaves a rest, without that head; and the rest
\* names with an object all later ones.
LEMMA RestMoves ==
  ASSUME NEW order \in Seq(Object), Once(order), NEW s, Rest(s, order)
  PROVE  /\ s \in Seq(Object)
         /\ Items(s) \subseteq Items(order)
         /\ s # <<>> => /\ Head(s) \in Items(s)
                        /\ Items(Tail(s)) = Items(s) \ {Head(s)}
                        /\ Rest(Tail(s), order)
         /\ \A i, j \in 1..Len(order) : i <= j /\ order[i] \in Items(s) => order[j] \in Items(s)
<1>1. PICK n \in 0..Len(order) : s = SubSeq(order, n + 1, Len(order))
  BY DEF Rest
<1>2. /\ s \in Seq(Object)
      /\ Len(s) = Len(order) - n
      /\ \A i \in 1..Len(s) : s[i] = order[n + i]
  BY <1>1
<1>3. \A o : o \in Items(s) <=> \E i \in (n + 1)..Len(order) : o = order[i]
  <2>1. ASSUME NEW i \in (n + 1)..Len(order)
        PROVE  order[i] \in Items(s)
    <3>1. PICK k \in 1..Len(s) : k = i - n
      BY <1>2
    <3>2. n + k = i
      BY <3>1
    <3>3. order[i] = s[k] /\ DOMAIN s = 1..Len(s)
      BY <1>2, <3>1, <3>2
    <3> QED BY <3>3 DEF Items
  <2>2. ASSUME NEW o \in Items(s)
        PROVE  \E i \in (n + 1)..Len(order) : o = order[i]
    <3>1. PICK k \in 1..Len(s) : o = s[k]
      BY <1>2 DEF Items
    <3>2. n + k \in (n + 1)..Len(order)
      BY <1>2
    <3> QED BY <3>1, <3>2, <1>2
  <2> QED BY <2>1, <2>2
<1>4. Items(s) \subseteq Items(order)
  BY <1>3 DEF Items
<1>5. ASSUME s # <<>>
      PROVE  /\ Head(s) \in Items(s)
             /\ Items(Tail(s)) = Items(s) \ {Head(s)}
             /\ Rest(Tail(s), order)
  <2>1. n < Len(order) /\ Head(s) = order[n + 1]
    BY <1>2, <1>5
  <2>2. Tail(s) = SubSeq(order, n + 2, Len(order))
    BY <1>1, <2>1
  <2>3. Rest(Tail(s), order)
    <3>1. n + 1 \in 0..Len(order)
      BY <2>1
    <3> QED BY <3>1, <2>2 DEF Rest
  <2>4. \A o : o \in Items(Tail(s)) <=> \E i \in (n + 2)..Len(order) : o = order[i]
    <3>1. /\ Tail(s) \in Seq(Object)
          /\ Len(Tail(s)) = Len(order) - n - 1
          /\ \A i \in 1..Len(Tail(s)) : Tail(s)[i] = order[n + 1 + i]
      <4>1. Tail(s) \in Seq(Object) /\ Len(Tail(s)) = Len(s) - 1
        BY <1>2, <1>5
      <4>2. \A i \in 1..Len(Tail(s)) : Tail(s)[i] = s[i + 1] /\ i + 1 \in 1..Len(s)
        BY <1>2, <1>5, <4>1
      <4>3. \A i \in 1..Len(Tail(s)) : s[i + 1] = order[n + (i + 1)] /\ n + (i + 1) = n + 1 + i
        BY <4>2, <1>2
      <4> QED BY <4>1, <4>2, <4>3, <1>2
    <3>2. ASSUME NEW i \in (n + 2)..Len(order)
          PROVE  order[i] \in Items(Tail(s))
      <4>1. PICK k \in 1..Len(Tail(s)) : k = i - n - 1
        BY <3>1
      <4>2. n + 1 + k = i
        BY <4>1
      <4>3. order[i] = Tail(s)[k]
        BY <3>1, <4>1, <4>2
      <4>4. DOMAIN Tail(s) = 1..Len(Tail(s))
        BY <3>1
      <4> QED BY <4>3, <4>4 DEF Items
    <3>3. ASSUME NEW o \in Items(Tail(s))
          PROVE  \E i \in (n + 2)..Len(order) : o = order[i]
      <4>1. PICK k \in 1..Len(Tail(s)) : o = Tail(s)[k]
        BY <3>1 DEF Items
      <4>2. n + 1 + k \in (n + 2)..Len(order)
        BY <3>1
      <4> QED BY <4>1, <4>2, <3>1
    <3> QED BY <3>2, <3>3
  <2>5. \A o : o \in Items(Tail(s)) <=> o \in Items(s) /\ o # Head(s)
    <3>1. \A i \in (n + 2)..Len(order) : order[i] # order[n + 1]
      BY <2>1 DEF Once
    <3>2. \A i : i \in (n + 1)..Len(order) <=> i = n + 1 \/ i \in (n + 2)..Len(order)
      BY <2>1
    <3> QED BY <3>1, <3>2, <2>1, <2>4, <1>3
  <2>6. Head(s) \in Items(s)
    BY <2>1, <1>3
  <2> QED BY <2>3, <2>5, <2>6
<1>6. ASSUME NEW i \in 1..Len(order), NEW j \in 1..Len(order), i <= j, order[i] \in Items(s)
      PROVE  order[j] \in Items(s)
  <2>1. PICK k \in (n + 1)..Len(order) : order[i] = order[k]
    BY <1>6, <1>3
  <2>2. i = k
    BY <2>1 DEF Once
  <2>3. j \in (n + 1)..Len(order)
    BY <1>6, <2>2
  <2> QED BY <2>3, <1>3
<1> QED BY <1>2, <1>4, <1>5, <1>6

\* An order and nothing are rests of it.
LEMMA RestBegins ==
  ASSUME NEW order \in Seq(Object)
  PROVE  Rest(order, order) /\ Rest(<<>>, order) /\ Items(<<>>) = {}
<1>1. order = SubSeq(order, 0 + 1, Len(order))
  OBVIOUS
<1>2. <<>> = SubSeq(order, Len(order) + 1, Len(order))
  OBVIOUS
<1>3. Items(<<>>) = {}
  BY DEF Items
<1> QED BY <1>1, <1>2, <1>3 DEF Rest

\* No order names an object twice.
LEMMA Orders ==
  /\ LegacyOrder \in Seq(Object) /\ Once(LegacyOrder) /\ Len(LegacyOrder) = 4
  /\ StaleOrder \in Seq(Object) /\ Once(StaleOrder) /\ Len(StaleOrder) = 15
  /\ InstallOrder \in Seq(Object) /\ Once(InstallOrder) /\ Len(InstallOrder) = 15
  /\ DropOrder \in Seq(Object) /\ Once(DropOrder) /\ Len(DropOrder) = 15
<1>1. LegacyOrder \in Seq(Object) /\ Once(LegacyOrder) /\ Len(LegacyOrder) = 4
  BY DEF LegacyOrder, Object, Slot, Chain, Forward, JumpTo, RulesOf, Once
<1>2. StaleOrder \in Seq(Object) /\ Once(StaleOrder) /\ Len(StaleOrder) = 15
  BY DEF StaleOrder, Object, Slot, Chain, Forward, JumpTo, RulesOf, Once
<1>3. InstallOrder \in Seq(Object) /\ Once(InstallOrder) /\ Len(InstallOrder) = 15
  BY DEF InstallOrder, Object, Slot, Chain, Forward, JumpTo, RulesOf, Once
<1>4. DropOrder \in Seq(Object) /\ Once(DropOrder) /\ Len(DropOrder) = 15
  BY DEF DropOrder, Object, Slot, Chain, Forward, JumpTo, RulesOf, Once
<1> QED BY <1>1, <1>2, <1>3, <1>4

\* The objects each order names.
LEMMA Named ==
  /\ Items(LegacyOrder) = {"markRule", "legacyRule", "uidRule", "route"}
  /\ Items(StaleOrder) = Object \ {"legacyRule"}
  /\ Items(InstallOrder) = Object \ {"legacyRule"}
  /\ Items(DropOrder) = Object \ {"legacyRule"}
<1>1. Items(LegacyOrder) = {"markRule", "legacyRule", "uidRule", "route"}
  BY DEF LegacyOrder, Items
<1>2. Items(StaleOrder) = Object \ {"legacyRule"}
  BY DEF StaleOrder, Items, Object, Slot, Chain, Forward, JumpTo, RulesOf
<1>3. Items(InstallOrder) = Object \ {"legacyRule"}
  BY DEF InstallOrder, Items, Object, Slot, Chain, Forward, JumpTo, RulesOf
<1>4. Items(DropOrder) = Object \ {"legacyRule"}
  BY DEF DropOrder, Items, Object, Slot, Chain, Forward, JumpTo, RulesOf
<1> QED BY <1>1, <1>2, <1>3, <1>4

\* What the order of install implies for the rest of it.
LEMMA InstallPlaces ==
  ASSUME NEW s, Rest(s, InstallOrder)
  PROVE  /\ "outputChain" \in Items(s) => Items(InstallOrder) \subseteq Items(s)
         /\ "preroutingChain" \in Items(s) => "natChain" \in Items(s)
         /\ \A c \in Chain : c \in Items(s) => RulesOf[c] \in Items(s)
         /\ "uidRule" \in Items(s) => "markRule" \in Items(s)
         /\ \A o \in Slot : o \in Items(s) => Selection \subseteq Items(s)
         /\ s # <<>> => "fw4" \in Items(s)
<1>1. /\ InstallOrder[1] = "outputChain" /\ InstallOrder[2] = "preroutingChain"
      /\ InstallOrder[3] = "natChain" /\ InstallOrder[4] = "outputMark"
      /\ InstallOrder[5] = "preroutingMark" /\ InstallOrder[6] = "masquerade"
      /\ InstallOrder[7] = "route" /\ InstallOrder[8] = "uidRule"
      /\ InstallOrder[9] = "markRule" /\ InstallOrder[10] = "outputJump"
      /\ InstallOrder[11] = "preroutingJump" /\ InstallOrder[15] = "fw4"
  BY DEF InstallOrder
<1>2. Len(InstallOrder) = 15 /\ s \in Seq(Object) /\ Items(s) \subseteq Items(InstallOrder)
  BY Orders, RestMoves
<1>3. \A i, j \in 1..15 :
        i <= j /\ InstallOrder[i] \in Items(s) => InstallOrder[j] \in Items(s)
  BY <1>2, Orders, RestMoves
<1>4. Items(InstallOrder) = {InstallOrder[i] : i \in 1..15}
  BY <1>2, Orders DEF Items
<1>5. "outputChain" \in Items(s) => Items(InstallOrder) \subseteq Items(s)
  BY <1>1, <1>3, <1>4
<1>6. "preroutingChain" \in Items(s) => "natChain" \in Items(s)
  BY <1>1, <1>3
<1>7. \A c \in Chain : c \in Items(s) => RulesOf[c] \in Items(s)
  BY <1>1, <1>3 DEF Chain, RulesOf
<1>8. "uidRule" \in Items(s) => "markRule" \in Items(s)
  BY <1>1, <1>3
<1>9. \A o \in Slot : o \in Items(s) => Selection \subseteq Items(s)
  BY <1>1, <1>3 DEF Slot, Selection
<1>10. s # <<>> => "fw4" \in Items(s)
  <2>1. s # <<>> => Head(s) \in Items(s)
    BY Orders, RestMoves
  <2> QED BY <2>1, <1>1, <1>2, <1>3, <1>4
<1> QED BY <1>5, <1>6, <1>7, <1>8, <1>9, <1>10

\* What the order of Drop implies for the rest of it.
LEMMA DropPlaces ==
  ASSUME NEW s, Rest(s, DropOrder)
  PROVE  /\ "markRule" \in Items(s) => "uidRule" \in Items(s)
         /\ Selection \cap Items(s) # {} => Slot \subseteq Items(s)
         /\ "outputChain" \in Items(s)
              \/ Items(s) \subseteq {"preroutingMark", "preroutingChain", "masquerade",
                                     "natChain"}
         /\ "preroutingMark" \in Items(s) => "preroutingChain" \in Items(s)
         /\ "masquerade" \in Items(s) => "natChain" \in Items(s)
<1>1. /\ DropOrder[1] = "outputJump" /\ DropOrder[2] = "preroutingJump"
      /\ DropOrder[7] = "markRule" /\ DropOrder[8] = "uidRule" /\ DropOrder[9] = "route"
      /\ DropOrder[11] = "outputChain" /\ DropOrder[12] = "preroutingMark"
      /\ DropOrder[13] = "preroutingChain" /\ DropOrder[14] = "masquerade"
      /\ DropOrder[15] = "natChain"
  BY DEF DropOrder
<1>2. Len(DropOrder) = 15 /\ Items(s) \subseteq Items(DropOrder)
  BY Orders, RestMoves
<1>3. \A i, j \in 1..15 :
        i <= j /\ DropOrder[i] \in Items(s) => DropOrder[j] \in Items(s)
  BY <1>2, Orders, RestMoves
<1>4. Items(DropOrder) = {DropOrder[i] : i \in 1..15}
  BY <1>2, Orders DEF Items
<1>5. "markRule" \in Items(s) => "uidRule" \in Items(s)
  BY <1>1, <1>3
<1>6. Selection \cap Items(s) # {} => Slot \subseteq Items(s)
  BY <1>1, <1>3 DEF Selection, Slot
<1>7. ASSUME "outputChain" \notin Items(s)
      PROVE  Items(s) \subseteq {"preroutingMark", "preroutingChain", "masquerade", "natChain"}
  <2>1. \A i \in 1..15 : DropOrder[i] \in Items(s) => i > 11
    BY <1>1, <1>3, <1>7
  <2> QED BY <2>1, <1>1, <1>2, <1>4
<1>8. /\ "preroutingMark" \in Items(s) => "preroutingChain" \in Items(s)
      /\ "masquerade" \in Items(s) => "natChain" \in Items(s)
  BY <1>1, <1>3
<1> QED BY <1>5, <1>6, <1>7, <1>8

\* A command that has been run is no longer ahead.
LEMMA AheadMoves ==
  ASSUME RestInv, todo # <<>>, at \in {"legacy", "stale", "install", "drop"}
  PROVE  /\ Head(todo) \in Ahead /\ Ahead \subseteq Object
         /\ todo' = Tail(todo) => Ahead' = Ahead \ {Head(todo)}
         /\ todo' = Tail(todo) /\ at' = at => RestInv'
<1>1. PICK order \in {LegacyOrder, StaleOrder, InstallOrder, DropOrder} :
        /\ Rest(todo, order)
        /\ Rest(Tail(todo), order) /\ todo' = Tail(todo) /\ at' = at => RestInv'
  BY DEF RestInv
<1>2. order \in Seq(Object) /\ Once(order)
  BY Orders
<1>3. /\ Head(todo) \in Items(todo) /\ Items(Tail(todo)) = Items(todo) \ {Head(todo)}
      /\ Rest(Tail(todo), order) /\ todo \in Seq(Object)
  BY <1>1, <1>2, RestMoves
<1>4. Items(todo) \subseteq Object
  BY <1>3 DEF Items
<1>5. todo' = Tail(todo) => Items(todo)' = Items(Tail(todo))
  BY DEF Items
<1> QED BY <1>1, <1>3, <1>4, <1>5 DEF Ahead

-----------------------------------------------------------------------------
(* What an action changes in the kernel.                                   *)

\* An edit of the kernel concerns one object.
LEMMA Edited ==
  ASSUME RoutingTypeOK, NEW o \in Object, NEW n \in 0..MaxCopies, kernel' = [kernel EXCEPT ![o] = n]
  PROVE  /\ kernel' \in [Object -> 0..MaxCopies]
         /\ (Has(o)' <=> n > 0)
         /\ \A p \in Object : p # o => (Has(p)' <=> Has(p))
  BY DEF RoutingTypeOK, Has

\* An action that leaves the kernel alone takes and adds nothing.
LEMMA Same ==
  ASSUME kernel' = kernel
  PROVE  \A o \in Object : Has(o)' <=> Has(o)
  BY DEF Has

\* What a command has tried to remove is gone or has stuck.
LEMMA RemoveEffect ==
  ASSUME RoutingTypeOK, NEW o \in Object, IsRemoved(o) \/ NotRemoved(o)
  PROVE  /\ kernel' \in [Object -> 0..MaxCopies]
         /\ stuck' \subseteq Object /\ left' \subseteq Object
         /\ Has(o)' => Has(o) /\ o \in stuck'
         /\ \A p \in Object : p # o => /\ (Has(p)' <=> Has(p))
                                     /\ (p \in stuck' <=> p \in stuck)
                                     /\ (p \in left' <=> p \in left)
<1>1. CASE IsRemoved(o)
  <2>1. kernel[o] \in 1..MaxCopies
    BY <1>1 DEF IsRemoved, Removable, Has, RoutingTypeOK
  <2>2. PICK n \in 0..MaxCopies :
          /\ kernel' = [kernel EXCEPT ![o] = n]
          /\ n > 0 => kernel[o] # 1
    <3>1. CASE o \in {"route", "fw4"}
      <4>1. 0 \in 0..MaxCopies
        BY RoutingAssumption
      <4>2. kernel' = [kernel EXCEPT ![o] = 0]
        BY <1>1, <3>1 DEF IsRemoved
      <4>3. ~(0 > 0)
        OBVIOUS
      <4> QED BY <4>1, <4>2, <4>3
    <3>2. CASE o \notin {"route", "fw4"}
      <4>1. kernel[o] - 1 \in 0..MaxCopies /\ (kernel[o] - 1 > 0 => kernel[o] # 1)
        BY <2>1, RoutingAssumption
      <4>2. kernel' = [kernel EXCEPT ![o] = kernel[o] - 1]
        BY <1>1, <3>2 DEF IsRemoved
      <4> QED BY <4>1, <4>2
    <3> QED BY <3>1, <3>2
  <2>3. /\ kernel' \in [Object -> 0..MaxCopies]
        /\ (Has(o)' <=> n > 0)
        /\ \A p \in Object : p # o => (Has(p)' <=> Has(p))
    BY <2>2, Edited
  <2>4. Has(o)' => o \in stuck'
    BY <1>1, <2>2, <2>3 DEF IsRemoved
  <2>5. stuck' \in {stuck \ {o}, stuck \cup {o}} /\ left' \in {left \ {o}, left}
    BY <1>1 DEF IsRemoved
  <2>6. stuck \subseteq Object /\ left \subseteq Object
    BY DEF RoutingTypeOK
  <2>7. /\ stuck' \subseteq Object /\ left' \subseteq Object
        /\ \A p : p # o => (p \in stuck' <=> p \in stuck) /\ (p \in left' <=> p \in left)
    BY <2>5, <2>6
  <2>8. Has(o)
    BY <1>1 DEF IsRemoved, Removable
  <2> QED BY <2>3, <2>4, <2>7, <2>8
<1>2. CASE NotRemoved(o)
  <2>1. \A p \in Object : Has(p)' <=> Has(p)
    BY <1>2, Same DEF NotRemoved
  <2>2. stuck' = (IF Has(o) THEN stuck \cup {o} ELSE stuck) /\ left' = left /\ kernel' = kernel
    BY <1>2 DEF NotRemoved
  <2>3. stuck \subseteq Object /\ left \subseteq Object /\ kernel \in [Object -> 0..MaxCopies]
    BY DEF RoutingTypeOK
  <2>4. /\ stuck' \subseteq Object
        /\ \A p : p # o => (p \in stuck' <=> p \in stuck)
        /\ Has(o) => o \in stuck'
    BY <2>2, <2>3
  <2> QED BY <2>1, <2>2, <2>3, <2>4
<1> QED BY <1>1, <1>2

\* The kernel drops an object by itself, or a command has removed all of its copies.
LEMMA Gone ==
  ASSUME RoutingTypeOK, NEW o \in Object, kernel' = [kernel EXCEPT ![o] = 0]
  PROVE  /\ kernel' \in [Object -> 0..MaxCopies]
         /\ ~Has(o)'
         /\ \A p \in Object : p # o => (Has(p)' <=> Has(p))
<1>1. 0 \in 0..MaxCopies /\ ~(0 > 0)
  BY RoutingAssumption
<1> QED BY <1>1, Edited

\* The rules in inet fw4 are inserted.
LEMMA One ==
  ASSUME RoutingTypeOK, NEW o \in Object, kernel' = [kernel EXCEPT ![o] = 1]
  PROVE  /\ kernel' \in [Object -> 0..MaxCopies]
         /\ \A p \in Object : p # o => (Has(p)' <=> Has(p))
<1>1. 1 \in 0..MaxCopies
  BY RoutingAssumption
<1> QED BY <1>1, Edited

\* A command of install adds its object.
LEMMA AddEffect ==
  ASSUME RoutingTypeOK, NEW o \in Object, Add(o)
  PROVE  /\ kernel' \in [Object -> 0..MaxCopies]
         /\ Has(o)'
         /\ \A p \in Object : p # o => (Has(p)' <=> Has(p))
<1>1. kernel[o] + 1 \in 0..MaxCopies /\ kernel[o] + 1 > 0
  BY RoutingAssumption DEF Add, Addable, RoutingTypeOK
<1>2. kernel' = [kernel EXCEPT ![o] = kernel[o] + 1]
  BY DEF Add
<1> QED BY <1>1, <1>2, Edited

\* The objects the actions name are objects.
LEMMA Objects == {"route", "fw4"} \cup Chain \cup Slot \cup Selection \subseteq Object
  BY DEF Object, Slot, Selection, JumpTo, Chain

\* The initial states are well-typed and have nothing ahead.
LEMMA InitKeeps ==
  ASSUME RoutingInit
  PROVE  RoutingTypeOK /\ RestInv
<1>1. 0 \in 0..MaxCopies /\ 1 \in 0..MaxCopies /\ 0 \in 0..MaxKills
  BY RoutingAssumption
<1>2. kernel \in [Object -> 0..MaxCopies]
  BY <1>1 DEF RoutingInit
<1>3. todo \in Seq(Object) /\ left \subseteq Object
  BY DEF RoutingInit
<1> QED BY <1>1, <1>2, <1>3 DEF RoutingInit, RoutingTypeOK, RestInv

\* The types, and that what is still to be run is the rest of an order.
LEMMA RestCorrect == RoutingSpec => [](RoutingTypeOK /\ RestInv)
<1>1. RoutingInit => RoutingTypeOK /\ RestInv
  BY InitKeeps
<1>2. RoutingTypeOK /\ RestInv /\ [RoutingNext]_routingVars => RoutingTypeOK' /\ RestInv'
  <2> SUFFICES ASSUME RoutingTypeOK, RestInv, [RoutingNext]_routingVars
               PROVE  RoutingTypeOK' /\ RestInv'
    OBVIOUS
  <2>1. \A order \in {LegacyOrder, StaleOrder, InstallOrder, DropOrder} :
          order \in Seq(Object) /\ Rest(order, order) /\ Rest(<<>>, order)
    BY Orders, RestBegins
  <2>2. CASE Begin
    BY <2>1, <2>2 DEF Begin, Clean, RoutingTypeOK, RestInv
  <2>3. CASE Remove
    <3>1. /\ Head(todo) \in Object /\ RestInv'
      BY <2>3, AheadMoves DEF Remove
    <3>2. /\ kernel' \in [Object -> 0..MaxCopies] /\ stuck' \subseteq Object
          /\ left' \subseteq Object
      BY <2>3, <3>1, RemoveEffect DEF Remove
    <3> QED BY <2>3, <3>1, <3>2 DEF Remove, RoutingTypeOK
  <2>4. CASE Skip
    <3>1. RestInv'
      BY <2>4, AheadMoves DEF Skip
    <3> QED BY <2>4, <3>1 DEF Skip, RoutingTypeOK
  <2>5. CASE LookForStale
    BY <2>1, <2>5 DEF LookForStale, Clean, RoutingTypeOK, RestInv
  <2>6. CASE Checked
    BY <2>1, <2>6 DEF Checked, RoutingTypeOK, RestInv
  <2>7. CASE CheckFails
    BY <2>7 DEF CheckFails, RoutingTypeOK, RestInv
  <2>8. ASSUME NEW o \in Object, Add(o)
        PROVE  RoutingTypeOK' /\ RestInv'
    <3>1. RestInv'
      BY <2>8, AheadMoves DEF Add, Installing
    <3>2. kernel' \in [Object -> 0..MaxCopies]
      BY <2>8, AddEffect
    <3>3. known' \subseteq Object
      BY <2>8 DEF Add, Flags, RoutingTypeOK
    <3> QED BY <2>8, <3>1, <3>2, <3>3 DEF Add, Installing, RoutingTypeOK
  <2>9. CASE AddFw4
    <3>1. "fw4" \in Object
      BY DEF Object
    <3>2. /\ kernel' \in [Object -> 0..MaxCopies] /\ known' \subseteq Object
          /\ stuck' \subseteq Object /\ left' \subseteq Object
      BY <2>9, <3>1, One DEF AddFw4, RoutingTypeOK
    <3> QED BY <2>1, <2>9, <3>2 DEF AddFw4, Installing, RoutingTypeOK, RestInv
  <2>10. CASE AddFails
    <3>1. "fw4" \in Object
      BY DEF Object
    <3>2. /\ kernel' \in [Object -> 0..MaxCopies]
          /\ stuck' \subseteq Object /\ left' \subseteq Object
      BY <2>10, <3>1, One, Gone DEF AddFails, RoutingTypeOK
    <3> QED BY <2>1, <2>10, <3>2 DEF AddFails, BeginDrop, RoutingTypeOK, RestInv
  <2>11. CASE InstallDns
    BY <2>11 DEF InstallDns, RoutingTypeOK, RestInv
  <2>12. CASE DnsFails
    BY <2>1, <2>12 DEF DnsFails, BeginDrop, RoutingTypeOK, RestInv
  <2>13. CASE BridgeEnds
    BY <2>13, Objects, Gone DEF BridgeEnds, RoutingTypeOK, RestInv
  <2>14. CASE Stop
    BY <2>1, <2>14 DEF Stop, BeginDrop, RoutingTypeOK, RestInv
  <2>15. CASE RestoreDns
    BY <2>15 DEF RestoreDns, RoutingTypeOK, RestInv
  <2>16. CASE Closed
    <3>1. kernel' \in [Object -> 0..MaxCopies] /\ stuck' \subseteq Object
      BY <2>16, Objects, Gone DEF Closed, RoutingTypeOK
    <3> QED BY <2>16, <3>1 DEF Closed, RoutingTypeOK, RestInv
  <2>17. CASE Kill
    <3>1. /\ kernel' \in [Object -> 0..MaxCopies] /\ stuck' \subseteq Object
          /\ left' \subseteq Object /\ kills' \in 0..MaxKills
      BY <2>17, Objects, Gone, RoutingAssumption DEF Kill, RoutingTypeOK
    <3>2. todo' \in Seq(Object)
      BY <2>17 DEF Kill
    <3>3. disturbed' \in BOOLEAN /\ dnsLost' \in BOOLEAN
      BY <2>17 DEF Kill
    <3>4. RestInv'
      BY <2>17 DEF Kill, RestInv
    <3> QED BY <2>17, <3>1, <3>2, <3>3, <3>4 DEF Kill, RoutingTypeOK
  <2>18. CASE FirewallReload
    <3>1. /\ kernel' \in [Object -> 0..MaxCopies] /\ stuck' \subseteq Object
          /\ left' \subseteq Object
      BY <2>18, Objects, Gone DEF FirewallReload, RoutingTypeOK
    <3> QED BY <2>18, <3>1 DEF FirewallReload, RoutingTypeOK, RestInv
  <2>19. CASE OthersWriteDns
    BY <2>19 DEF OthersWriteDns, RoutingTypeOK, RestInv
  <2>20. CASE UNCHANGED routingVars
    BY <2>20 DEF routingVars, RoutingTypeOK, RestInv
  <2> QED
    BY <2>2, <2>3, <2>4, <2>5, <2>6, <2>7, <2>8, <2>9, <2>10, <2>11, <2>12, <2>13, <2>14,
       <2>15, <2>16, <2>17, <2>18, <2>19, <2>20 DEF RoutingNext
<1> QED BY <1>1, <1>2, PTL DEF RoutingSpec

\* An object is a flag, the content of a chain, or one of two others.
LEMMA Kinds ==
  /\ Flag \subseteq Object \ {"legacyRule", "fw4"}
  /\ \A c \in Chain : RulesOf[c] \in Object \ (Flag \cup {"legacyRule", "fw4"})
  /\ \A o \in Object :
       o \in Flag \cup {"legacyRule", "fw4"} \/ \E c \in Chain : o = RulesOf[c]
  /\ Chain \cup Slot \cup Selection \subseteq Flag
<1>1. Object = Flag \cup {"legacyRule", "fw4"} \cup {RulesOf[c] : c \in Chain}
  BY DEF Object, Flag
<1>2. {RulesOf[c] : c \in Chain} = {"outputMark", "preroutingMark", "masquerade"}
  BY DEF Chain, RulesOf
<1>3. {JumpTo[c] : c \in Chain} = {"outputJump", "preroutingJump", "natJump"}
  BY DEF Chain, JumpTo
<1>4. Flag = {"outputChain", "preroutingChain", "natChain", "uidRule", "markRule", "route",
              "forwardOut", "forwardIn", "outputJump", "preroutingJump", "natJump"}
  BY <1>3 DEF Flag, Chain, Slot, Forward
<1>5. Flag \subseteq Object \ {"legacyRule", "fw4"}
  BY <1>1, <1>4
<1>6. \A c \in Chain : RulesOf[c] \in Object \ (Flag \cup {"legacyRule", "fw4"})
  <2>1. \A c \in Chain : RulesOf[c] \in {"outputMark", "preroutingMark", "masquerade"}
    BY <1>2
  <2> QED BY <2>1, <1>1, <1>4
<1>7. \A o \in Object :
        o \in Flag \cup {"legacyRule", "fw4"} \/ \E c \in Chain : o = RulesOf[c]
  BY <1>1
<1>8. Chain \cup Slot \cup Selection \subseteq Flag
  BY <1>4 DEF Chain, Slot, Selection
<1> QED BY <1>5, <1>6, <1>7, <1>8

\* What a command of install leaves ahead of it, and the flag it sets.
LEMMA AddMoves ==
  ASSUME RoutingTypeOK, RestInv, FlagInv, NEW o \in Object, Add(o)
  PROVE  /\ at = "install" /\ at' = "install" /\ Rest(todo, InstallOrder)
         /\ o \in Ahead /\ Ahead' = Ahead \ {o} /\ Rest(todo', InstallOrder)
         /\ o \in Items(InstallOrder) /\ o # "legacyRule" /\ o # "fw4"
         /\ known' = known \cup Flags(o)
         /\ Flags(o) = IF o \in Flag THEN {o} ELSE {}
         /\ \A p \in Flag : p \in known' <=> p \notin Ahead'
<1>1. /\ at = "install" /\ at' = "install" /\ Rest(todo, InstallOrder)
      /\ todo # <<>> /\ Head(todo) = o /\ todo' = Tail(todo) /\ o # "fw4"
      /\ known' = known \cup Flags(o)
  BY DEF Add, Installing, RestInv
<1>2. o \in Ahead /\ Ahead' = Ahead \ {o} /\ RestInv'
  BY <1>1, AheadMoves
<1>3. Rest(todo', InstallOrder)
  BY <1>1, <1>2 DEF RestInv
<1>4. o \in Items(InstallOrder) /\ o # "legacyRule"
  BY <1>1, <1>2, Orders, RestMoves, Named DEF Ahead
<1>5. Flags(o) = IF o \in Flag THEN {o} ELSE {}
  BY <1>1, <1>4, Kinds DEF Flags
<1>6. \A p \in Flag : p \in known <=> p \notin Ahead
  BY <1>1 DEF FlagInv
<1>7. \A p \in Flag : p \in known' <=> p \notin Ahead'
  BY <1>1, <1>2, <1>5, <1>6
<1> QED BY <1>1, <1>2, <1>3, <1>4, <1>5, <1>7

\* The firewall4 step is the last one of install.
LEMMA Fw4Moves ==
  ASSUME RestInv, AddFw4
  PROVE  at = "install" /\ at' = "install" /\ Ahead = {"fw4"} /\ Ahead' = {}
<1>1. /\ at = "install" /\ at' = "install" /\ Rest(todo, InstallOrder)
      /\ todo # <<>> /\ Head(todo) = "fw4" /\ todo' = <<>>
  BY DEF AddFw4, Installing, RestInv
<1>2. /\ Rest(Tail(todo), InstallOrder) /\ Items(Tail(todo)) = Items(todo) \ {"fw4"}
      /\ "fw4" \in Items(todo)
  BY <1>1, Orders, RestMoves
<1>3. Tail(todo) = <<>>
  BY <1>2, InstallPlaces
<1>4. Items(Tail(todo)) = {} /\ Items(todo') = {}
  BY <1>1, <1>3 DEF Items
<1>5. Ahead' = Items(todo')
  BY DEF Ahead, Items
<1> QED BY <1>1, <1>2, <1>4, <1>5 DEF Ahead

\* Every step preserves the flags of the session.
LEMMA FlagKeeps ==
  ASSUME RoutingTypeOK, RestInv, FlagInv, [RoutingNext]_routingVars
  PROVE  FlagInv'
<1>1. todo = <<>> => Ahead = {}
  BY DEF Ahead, Items
<1>2. todo' = todo => Ahead' = Ahead
  BY DEF Ahead, Items
<1>3. CASE Begin
  BY <1>3 DEF Begin, FlagInv
<1>4. CASE Remove \/ Skip
  BY <1>4 DEF Remove, Skip, FlagInv
<1>5. CASE LookForStale \/ CheckFails
  BY <1>5 DEF LookForStale, CheckFails, FlagInv
<1>6. CASE Checked
  <2>1. Ahead' = Items(InstallOrder)
    BY <1>6 DEF Checked, Ahead, Items
  <2> QED BY <1>6, <2>1, Named, Kinds DEF Checked, FlagInv
<1>7. ASSUME NEW o \in Object, Add(o)
      PROVE  FlagInv'
  <2>1. /\ at' = "install" /\ o \in Items(InstallOrder) /\ o \notin Ahead'
        /\ Rest(todo', InstallOrder)
        /\ \A p \in Flag : p \in known' <=> p \notin Ahead'
        /\ known' \subseteq known \cup {o} /\ known' \subseteq Flag \cup {"fw4"}
    BY <1>7, AddMoves DEF FlagInv
  <2>2. /\ "outputChain" \notin Ahead'
        /\ "preroutingChain" \in Ahead' => "natChain" \in Ahead'
        /\ "uidRule" \in Ahead' => "markRule" \in Ahead'
        /\ \A p \in Slot : p \in Ahead' => Selection \subseteq Ahead'
    <3>1. Ahead' = Items(todo')
      BY DEF Ahead, Items
    <3> QED BY <2>1, <3>1, InstallPlaces
  <2>3. {"outputChain", "preroutingChain", "natChain", "uidRule", "markRule"} \cup Slot
          \cup Selection \subseteq Flag
    BY Kinds DEF Chain, Slot
  <2> QED BY <2>1, <2>2, <2>3 DEF FlagInv
<1>8. CASE AddFw4
  <2>1. at = "install" /\ at' = "install" /\ Ahead = {"fw4"} /\ Ahead' = {}
    BY <1>8, Fw4Moves
  <2>2. Flag \subseteq known
    BY <2>1, Kinds DEF FlagInv
  <2>3. known' \in {known, known \cup {"fw4"}}
    BY <1>8 DEF AddFw4
  <2>4. {"outputChain", "preroutingChain", "natChain", "uidRule", "markRule"} \cup Slot
          \cup Selection \subseteq Flag
    BY Kinds DEF Chain, Slot
  <2> QED BY <2>1, <2>2, <2>3, <2>4 DEF FlagInv
<1>9. CASE AddFails \/ DnsFails \/ Stop
  BY <1>9 DEF AddFails, DnsFails, Stop, BeginDrop, FlagInv
<1>10. CASE InstallDns
  BY <1>10, <1>1 DEF InstallDns, FlagInv
<1>11. CASE BridgeEnds \/ RestoreDns
  BY <1>11 DEF BridgeEnds, RestoreDns, FlagInv
<1>12. CASE Closed \/ Kill
  BY <1>12 DEF Closed, Kill, FlagInv
<1>13. CASE FirewallReload \/ OthersWriteDns \/ UNCHANGED routingVars
  BY <1>13, <1>2 DEF FirewallReload, OthersWriteDns, routingVars, FlagInv
<1> QED
  BY <1>3, <1>4, <1>5, <1>6, <1>7, <1>8, <1>9, <1>10, <1>11, <1>12, <1>13 DEF RoutingNext

\* A Drop starts with everything ahead of it.
LEMMA DropMoves ==
  ASSUME BeginDrop
  PROVE  at' = "drop" /\ Ahead' = Object \ {"legacyRule"}
<1>1. Ahead' = Items(DropOrder)
  BY DEF BeginDrop, Ahead, Items
<1> QED BY <1>1, Named DEF BeginDrop

\* Every step preserves what is known of the rules and of the route.
LEMMA SlotKeeps ==
  ASSUME RoutingTypeOK, RestInv, FlagInv, SlotInv, [RoutingNext]_routingVars
  PROVE  SlotInv'
<1> USE Objects
<1>1. todo = <<>> => Ahead = {}
  BY DEF Ahead, Items
<1>2. todo' = todo => Ahead' = Ahead
  BY DEF Ahead, Items
<1>3. CASE Begin \/ LookForStale \/ CheckFails \/ InstallDns \/ OthersWriteDns
                 \/ UNCHANGED routingVars
  <2>1. kernel' = kernel
    BY <1>3 DEF Begin, LookForStale, CheckFails, InstallDns, OthersWriteDns, routingVars
  <2>2. \A o \in Object : Has(o)' <=> Has(o)
    BY <2>1, Same
  <2>3. CASE Begin \/ LookForStale \/ CheckFails
    BY <2>2, <2>3 DEF Begin, LookForStale, CheckFails, SlotInv
  <2>4. CASE InstallDns
    <3>1. Slot \subseteq known
      BY <2>4, <1>1, Kinds DEF InstallDns, FlagInv
    <3> QED BY <2>2, <2>4, <3>1 DEF InstallDns, SlotInv
  <2>5. CASE OthersWriteDns \/ UNCHANGED routingVars
    <3>1. known \subseteq Object /\ UNCHANGED <<at, known, tun, stuck>> /\ Ahead' = Ahead
      BY <2>5, <1>2 DEF OthersWriteDns, routingVars, RoutingTypeOK
    <3> QED BY <2>2, <3>1 DEF SlotInv
  <2> QED BY <1>3, <2>3, <2>4, <2>5
<1>4. CASE Remove
  <2>1. PICK h \in Object : h = Head(todo)
    BY <1>4, AheadMoves DEF Remove
  <2>2. h \in Ahead /\ Ahead' = Ahead \ {h} /\ UNCHANGED <<at, known, tun>>
    BY <1>4, <2>1, AheadMoves DEF Remove
  <2>3. /\ Has(h)' => Has(h) /\ h \in stuck'
        /\ \A p \in Object : p # h => (Has(p)' <=> Has(p)) /\ (p \in stuck' <=> p \in stuck)
    BY <1>4, <2>1, RemoveEffect DEF Remove
  <2>4. \A p \in Object : Has(p)' => Has(p)
    BY <2>3
  <2>5. CASE at \in {"legacy", "stale"}
    BY <2>2, <2>4, <2>5 DEF SlotInv
  <2>6. CASE at = "drop"
    <3>1. \A p \in Slot \ known : ~Has(p)'
      BY <2>4, <2>6 DEF SlotInv
    <3>2. \A p \in Slot \cap known \cap Ahead' : (p = "route" /\ ~tun) \/ Has(p)'
      BY <2>2, <2>3, <2>6 DEF SlotInv
    <3>3. known \subseteq Object
      BY DEF RoutingTypeOK
    <3>4. \A p \in known \ Ahead' : Has(p)' => p \in stuck'
      BY <2>2, <2>3, <2>6, <3>3 DEF SlotInv
    <3> QED BY <2>2, <2>6, <3>1, <3>2, <3>4 DEF SlotInv
  <2> QED BY <1>4, <2>5, <2>6 DEF Remove
<1>5. CASE Skip
  <2> DEFINE h == Head(todo)
  <2>1. /\ h \in Ahead /\ Ahead' = Ahead \ {h} /\ h \notin known
        /\ UNCHANGED <<at, known, tun, stuck>> /\ at = "drop"
    BY <1>5, AheadMoves DEF Skip, Undone
  <2>2. \A o \in Object : Has(o)' <=> Has(o)
    BY <1>5, Same DEF Skip
  <2>3. known \subseteq Object
    BY DEF RoutingTypeOK
  <2> HIDE DEF h
  <2> QED BY <2>1, <2>2, <2>3 DEF SlotInv
<1>6. CASE Checked
  <2>1. \A o \in Object : Has(o)' <=> Has(o)
    BY <1>6, Same DEF Checked
  <2>2. known = {}
    BY <1>6 DEF Checked, FlagInv
  <2> QED BY <1>6, <2>1, <2>2 DEF Checked, SlotsFree, SlotInv
<1>7. ASSUME NEW o \in Object, Add(o)
      PROVE  SlotInv'
  <2>1. /\ at = "install" /\ at' = "install" /\ known' = known \cup Flags(o)
        /\ Flags(o) = IF o \in Flag THEN {o} ELSE {}
    BY <1>7, AddMoves
  <2>2. /\ Has(o)'
        /\ \A p \in Object : p # o => (Has(p)' <=> Has(p))
    BY <1>7, AddEffect
  <2> QED BY <2>1, <2>2, Kinds DEF SlotInv
<1>8. CASE AddFw4
  <2>1. at = "install" /\ at' = "install" /\ known' \in {known, known \cup {"fw4"}}
    BY <1>8, Fw4Moves DEF AddFw4
  <2>2. \A p \in Slot : Has(p)' <=> Has(p)
    <3>1. "fw4" \notin Slot
      BY DEF Slot
    <3> QED BY <1>8, <3>1, One, Same DEF AddFw4
  <2> QED BY <2>1, <2>2, Kinds DEF SlotInv
<1>9. CASE AddFails \/ DnsFails \/ Stop
  <2>1. /\ at' = "drop" /\ Ahead' = Object \ {"legacyRule"} /\ UNCHANGED <<known, tun>>
        /\ at \in {"install", "up"}
    BY <1>9, DropMoves DEF AddFails, DnsFails, Stop
  <2>2. \A p \in Slot : Has(p)' <=> Has(p)
    <3>1. "fw4" \notin Slot
      BY DEF Slot
    <3> QED BY <1>9, <3>1, One, Gone, Same DEF AddFails, DnsFails, Stop
  <2>3. known \subseteq Ahead'
    BY <2>1, Kinds DEF FlagInv
  <2>4. at = "up" => Slot \subseteq known
    BY Kinds DEF FlagInv
  <2> QED BY <2>1, <2>2, <2>3, <2>4 DEF SlotInv
<1>10. CASE BridgeEnds
  <2>1. \A p \in Object : p # "route" => (Has(p)' <=> Has(p))
    BY <1>10, Gone DEF BridgeEnds
  <2> QED BY <1>10, <2>1 DEF BridgeEnds, SlotInv
<1>11. CASE RestoreDns
  <2>1. \A o \in Object : Has(o)' <=> Has(o)
    BY <1>11, Same DEF RestoreDns
  <2>2. known \subseteq Object
    BY DEF RoutingTypeOK
  <2> QED BY <1>11, <1>1, <2>1, <2>2 DEF RestoreDns, SlotInv
<1>12. CASE Closed \/ Kill
  <2>1. ~Has("route")' /\ at' = "none"
    BY <1>12, Gone DEF Closed, Kill
  <2> QED BY <2>1 DEF SlotInv
<1>13. CASE FirewallReload
  <2>1. /\ ~Has("fw4")'
        /\ \A p \in Object : p # "fw4" => (Has(p)' <=> Has(p)) /\ (p \in stuck' <=> p \in stuck)
    BY <1>13, Gone DEF FirewallReload
  <2>2. "fw4" \notin Slot /\ known \subseteq Object
    BY DEF Slot, RoutingTypeOK
  <2>3. UNCHANGED <<at, known, tun>> /\ Ahead' = Ahead
    BY <1>13, <1>2 DEF FirewallReload
  <2> QED BY <2>1, <2>2, <2>3 DEF SlotInv
<1> QED
  BY <1>3, <1>4, <1>5, <1>6, <1>7, <1>8, <1>9, <1>10, <1>11, <1>12, <1>13 DEF RoutingNext

\* Every step preserves the chains that are known.
LEMMA ChainKeeps ==
  ASSUME RoutingTypeOK, RestInv, FlagInv, ChainInv, [RoutingNext]_routingVars
  PROVE  ChainInv'
<1> USE Objects
<1>1. todo' = todo => Ahead' = Ahead
  BY DEF Ahead, Items
<1>2. "route" \notin Chain /\ "fw4" \notin Chain
  BY DEF Chain
<1>3. CASE Remove
  <2>1. PICK h \in Object : h = Head(todo)
    BY <1>3, AheadMoves DEF Remove
  <2>2. /\ Ahead' = Ahead \ {h} /\ UNCHANGED <<at, known>>
        /\ at \in {"legacy", "stale", "drop"}
    BY <1>3, <2>1, AheadMoves DEF Remove
  <2>3. \A p \in Object : p # h => (Has(p)' <=> Has(p))
    BY <1>3, <2>1, RemoveEffect DEF Remove
  <2> QED BY <2>2, <2>3 DEF ChainInv
<1>4. CASE Skip
  <2>1. /\ Ahead' \subseteq Ahead /\ UNCHANGED <<at, known>>
        /\ \A o \in Object : Has(o)' <=> Has(o)
    BY <1>4, AheadMoves, Same DEF Skip
  <2> QED BY <2>1 DEF ChainInv
<1>5. ASSUME NEW o \in Object, Add(o)
      PROVE  ChainInv'
  <2>1. /\ at = "install" /\ at' = "install" /\ known' = known \cup Flags(o)
        /\ Flags(o) \subseteq {o} /\ Has(o)'
        /\ \A p \in Object : p # o => (Has(p)' <=> Has(p))
    BY <1>5, AddMoves, AddEffect
  <2> QED BY <2>1 DEF ChainInv
<1>6. CASE AddFw4 \/ AddFails
  <2>1. \A p \in Chain : Has(p)' <=> Has(p)
    BY <1>2, <1>6, One, Gone, Same DEF AddFw4, AddFails
  <2>2. at = "install" /\ at' \in {"install", "drop"} /\ known' \in {known, known \cup {"fw4"}}
    BY <1>6 DEF AddFw4, AddFails, BeginDrop, Installing
  <2> QED BY <2>1, <2>2, <1>2 DEF ChainInv
<1>7. CASE Checked
  <2>1. known' = {}
    BY <1>7 DEF Checked, FlagInv
  <2> QED BY <1>7, <2>1 DEF Checked, ChainInv
<1>8. CASE InstallDns \/ DnsFails \/ Stop
  <2>1. /\ \A o \in Object : Has(o)' <=> Has(o)
        /\ at \in {"install", "up"} /\ known' = known
    BY <1>8, Same DEF InstallDns, DnsFails, Stop
  <2> QED BY <2>1 DEF ChainInv
<1>9. CASE BridgeEnds \/ FirewallReload
  <2>1. \A p \in Chain : Has(p)' <=> Has(p)
    BY <1>2, <1>9, Gone DEF BridgeEnds, FirewallReload
  <2> QED BY <1>9, <1>1, <2>1 DEF BridgeEnds, FirewallReload, ChainInv
<1>10. CASE Begin \/ LookForStale \/ CheckFails \/ RestoreDns \/ Closed \/ Kill
  <2>1. at' \in {"none", "legacy", "stale", "closing"}
    BY <1>10 DEF Begin, LookForStale, CheckFails, RestoreDns, Closed, Kill
  <2> QED BY <2>1 DEF ChainInv
<1>11. CASE OthersWriteDns \/ UNCHANGED routingVars
  <2>1. /\ \A o \in Object : Has(o)' <=> Has(o)
        /\ UNCHANGED <<at, known>> /\ Ahead' = Ahead
    BY <1>1, <1>11, Same DEF OthersWriteDns, routingVars
  <2> QED BY <2>1 DEF ChainInv
<1> QED
  BY <1>3, <1>4, <1>5, <1>6, <1>7, <1>8, <1>9, <1>10, <1>11 DEF RoutingNext

\* A Drop never undoes the rule of an old release.
LEMMA UndoneNamed ==
  ASSUME FlagInv
  PROVE  ~Undone("legacyRule")
<1>1. "legacyRule" \notin known
  BY Kinds DEF FlagInv
<1> QED BY <1>1, Kinds DEF Undone

\* Drop undoes what install has added, the content of a chain with its chain.
LEMMA AddUndone ==
  ASSUME RoutingTypeOK, RestInv, FlagInv, NEW o \in Object, Add(o)
  PROVE  /\ Undone(o)'
         /\ \A p \in Object : Undone(p) => Undone(p)'
<1>1. /\ Ahead' = Ahead \ {o} /\ Rest(todo', InstallOrder)
      /\ o # "legacyRule" /\ o # "fw4" /\ known' = known \cup Flags(o)
      /\ Flags(o) = IF o \in Flag THEN {o} ELSE {}
  BY AddMoves
<1>2. \A p \in Flag : p \in known' <=> p \notin Ahead'
  BY AddMoves
<1>3. \A c \in Chain : c \in Ahead' => RulesOf[c] \in Ahead'
  <2>1. Ahead' = Items(todo')
    BY DEF Ahead, Items
  <2> QED BY <2>1, <1>1, InstallPlaces
<1>4. CASE o \in Flag
  BY <1>1, <1>4 DEF Undone
<1>5. CASE o \notin Flag
  <2>1. PICK c \in Chain : o = RulesOf[c]
    BY <1>1, <1>5, Kinds
  <2>2. c \in known'
    BY <2>1, <1>1, <1>2, <1>3, Kinds
  <2> QED BY <2>1, <2>2, <1>1 DEF Undone
<1> QED BY <1>4, <1>5

\* Every step preserves that the kernel holds nothing nobody accounts for.
LEMMA OwnKeeps ==
  ASSUME RoutingTypeOK, RestInv, FlagInv, OwnInv, [RoutingNext]_routingVars
  PROVE  OwnInv'
<1> USE Objects
<1>1. todo = <<>> => Ahead = {}
  BY DEF Ahead, Items
<1>2. todo' = todo => Ahead' = Ahead
  BY DEF Ahead, Items
<1>3. known' = known => \A o \in Object : Undone(o)' <=> Undone(o)
  BY DEF Undone
<1>4. CASE Begin \/ LookForStale \/ Checked \/ CheckFails
  <2>1. /\ \A o \in Object : Has(o)' <=> Has(o)
        /\ at \in {"none", "legacy", "stale"} /\ UNCHANGED <<stuck, left>>
    BY <1>4, Same DEF Begin, LookForStale, Checked, CheckFails
  <2>2. \A o \in Object : ~Owned(o)
    BY <2>1 DEF Owned
  <2> QED BY <2>1, <2>2 DEF OwnInv
<1>5. CASE Remove
  <2>1. PICK h \in Object : h = Head(todo)
    BY <1>5, AheadMoves DEF Remove
  <2>2. Ahead' = Ahead \ {h} /\ UNCHANGED <<at, known>>
    BY <1>5, <2>1, AheadMoves DEF Remove
  <2>3. /\ Has(h)' => h \in stuck'
        /\ \A p \in Object : p # h => /\ (Has(p)' <=> Has(p))
                                     /\ (p \in stuck' <=> p \in stuck)
                                     /\ (p \in left' <=> p \in left)
    BY <1>5, <2>1, RemoveEffect DEF Remove
  <2>4. \A p \in Object : p # h /\ Owned(p) => Owned(p)'
    BY <2>2, <1>3 DEF Owned
  <2> QED BY <2>3, <2>4 DEF OwnInv
<1>6. CASE Skip
  <2>1. PICK h \in Object : h = Head(todo)
    BY <1>6, AheadMoves DEF Skip
  <2>2. /\ Ahead' = Ahead \ {h} /\ UNCHANGED <<at, known, stuck, left>> /\ ~Undone(h)
        /\ at = "drop"
    BY <1>6, <2>1, AheadMoves DEF Skip
  <2>3. \A o \in Object : Has(o)' <=> Has(o)
    BY <1>6, Same DEF Skip
  <2>4. \A p \in Object : Owned(p) => Owned(p)'
    BY <2>2, <1>3 DEF Owned
  <2> QED BY <2>2, <2>3, <2>4 DEF OwnInv
<1>7. ASSUME NEW o \in Object, Add(o)
      PROVE  OwnInv'
  <2>1. /\ at = "install" /\ at' = "install" /\ UNCHANGED <<stuck, left>>
        /\ Undone(o)' /\ \A p \in Object : Undone(p) => Undone(p)'
    BY <1>7, AddMoves, AddUndone DEF Add
  <2>2. \A p \in Object : p # o => (Has(p)' <=> Has(p))
    BY <1>7, AddEffect
  <2>3. \A p \in Object : Owned(p) => Owned(p)'
    BY <2>1 DEF Owned
  <2>4. Owned(o)'
    BY <2>1 DEF Owned
  <2> QED BY <2>1, <2>2, <2>3, <2>4 DEF OwnInv
<1>8. CASE AddFw4
  <2>1. at = "install" /\ at' = "install"
    BY <1>8, Fw4Moves
  <2>2. CASE fw4
    <3>1. /\ known' = known \cup {"fw4"}
          /\ stuck' = stuck \ {"fw4"} /\ left' = left \ {"fw4"}
          /\ \A p \in Object : p # "fw4" => (Has(p)' <=> Has(p))
      BY <1>8, <2>2, One DEF AddFw4
    <3>2. \A p \in Object : (Owned(p) \/ p = "fw4") => Owned(p)'
      BY <2>1, <3>1 DEF Owned, Undone
    <3> QED BY <3>1, <3>2 DEF OwnInv
  <2>3. CASE ~fw4
    <3>1. UNCHANGED <<known, stuck, left>> /\ \A o \in Object : Has(o)' <=> Has(o)
      BY <1>8, <2>3, Same DEF AddFw4
    <3>2. \A p \in Object : Owned(p) => Owned(p)'
      BY <2>1, <3>1, <1>3 DEF Owned
    <3> QED BY <3>1, <3>2 DEF OwnInv
  <2> QED BY <2>2, <2>3
<1>9. CASE AddFails \/ DnsFails \/ Stop
  <2>1. /\ at' = "drop" /\ Ahead' = Object \ {"legacyRule"} /\ known' = known
        /\ at \in {"install", "up"}
    BY <1>9, DropMoves DEF AddFails, DnsFails, Stop
  <2>2. \A p \in Object : Owned(p) => Owned(p)'
    <3>1. ASSUME NEW p \in Object, Owned(p)
          PROVE  Owned(p)'
      <4>1. Undone(p) /\ p # "legacyRule"
        BY <2>1, <3>1, UndoneNamed DEF Owned
      <4> QED BY <4>1, <2>1, <1>3 DEF Owned
    <3> QED BY <3>1
  <2>3. CASE UNCHANGED <<kernel, stuck, left>>
    <3>1. \A o \in Object : Has(o)' <=> Has(o)
      BY <2>3, Same
    <3> QED BY <2>2, <2>3, <3>1 DEF OwnInv
  <2>4. CASE AddFails /\ Head(todo) = "fw4"
    <3>1. /\ \A p \in Object : p # "fw4" => /\ (Has(p)' <=> Has(p))
                                           /\ (p \in stuck' <=> p \in stuck)
                                           /\ (p \in left' <=> p \in left)
          /\ Has("fw4")' => "fw4" \in stuck'
      BY <2>4, One, Gone DEF AddFails
    <3> QED BY <2>2, <3>1 DEF OwnInv
  <2> QED BY <1>9, <2>3, <2>4 DEF AddFails, DnsFails, Stop
<1>10. CASE InstallDns
  <2>1. /\ \A o \in Object : Has(o)' <=> Has(o)
        /\ at = "install" /\ at' = "up" /\ UNCHANGED <<known, stuck, left>>
    BY <1>10, Same DEF InstallDns
  <2>2. \A p \in Object : Owned(p) => Owned(p)'
    BY <2>1, <1>3 DEF Owned
  <2> QED BY <2>1, <2>2 DEF OwnInv
<1>11. CASE BridgeEnds
  <2>1. /\ ~Has("route")' /\ \A p \in Object : p # "route" => (Has(p)' <=> Has(p))
        /\ UNCHANGED <<at, known, stuck, left>> /\ Ahead' = Ahead
    BY <1>2, <1>11, Gone DEF BridgeEnds
  <2>2. \A p \in Object : Owned(p) => Owned(p)'
    BY <2>1, <1>3 DEF Owned
  <2> QED BY <2>1, <2>2 DEF OwnInv
<1>12. CASE RestoreDns
  <2>1. /\ \A o \in Object : Has(o)' <=> Has(o)
        /\ at = "drop" /\ Ahead = {} /\ UNCHANGED <<stuck, left>>
    BY <1>1, <1>12, Same DEF RestoreDns
  <2>2. \A o \in Object : ~Owned(o)
    BY <2>1 DEF Owned
  <2> QED BY <2>1, <2>2 DEF OwnInv
<1>13. CASE Closed
  <2>1. /\ ~Has("route")' /\ \A p \in Object : p # "route" => (Has(p)' <=> Has(p))
        /\ at = "closing" /\ stuck' = stuck \ {"route"} /\ left' = left
    BY <1>13, Gone DEF Closed
  <2>2. \A o \in Object : Owned(o) => o = "route"
    BY <2>1 DEF Owned
  <2> QED BY <2>1, <2>2 DEF OwnInv
<1>14. CASE Kill
  <2>1. left' = {o \in Object : Has(o)'}
    BY <1>14 DEF Kill, Has
  <2> QED BY <2>1 DEF OwnInv
<1>15. CASE FirewallReload
  <2>1. /\ ~Has("fw4")' /\ \A p \in Object : p # "fw4" => (Has(p)' <=> Has(p))
        /\ stuck' = stuck \ {"fw4"} /\ left' = left \ {"fw4"}
        /\ UNCHANGED <<at, known>> /\ Ahead' = Ahead
    BY <1>2, <1>15, Gone DEF FirewallReload
  <2>2. \A p \in Object : Owned(p) => Owned(p)'
    BY <2>1, <1>3 DEF Owned
  <2> QED BY <2>1, <2>2 DEF OwnInv
<1>16. CASE OthersWriteDns \/ UNCHANGED routingVars
  <2>1. /\ \A o \in Object : Has(o)' <=> Has(o)
        /\ UNCHANGED <<at, known, stuck, left>> /\ Ahead' = Ahead
    BY <1>2, <1>16, Same DEF OthersWriteDns, routingVars
  <2>2. \A p \in Object : Owned(p) => Owned(p)'
    BY <2>1, <1>3 DEF Owned
  <2> QED BY <2>1, <2>2 DEF OwnInv
<1> QED
  BY <1>4, <1>5, <1>6, <1>7, <1>8, <1>9, <1>10, <1>11, <1>12, <1>13, <1>14, <1>15, <1>16
  DEF RoutingNext

\* Every step preserves what can be put back to resolv.conf.
LEMMA DnsKeeps ==
  ASSUME RoutingTypeOK, DnsInv, [RoutingNext]_routingVars
  PROVE  DnsInv'
<1>1. CASE Begin \/ Remove \/ Skip \/ LookForStale \/ Checked \/ CheckFails
  BY <1>1
  DEF Begin, Remove, Skip, LookForStale, Checked, CheckFails, Clean, DnsInv
<1>2. ASSUME NEW o \in Object, Add(o)
      PROVE  DnsInv'
  BY <1>2 DEF Add, Installing, DnsInv
<1>3. CASE AddFw4 \/ AddFails
  BY <1>3 DEF AddFw4, AddFails, Installing, BeginDrop, DnsInv
<1>4. CASE InstallDns \/ DnsFails
  BY <1>4 DEF InstallDns, DnsFails, BeginDrop, DnsInv
<1>5. CASE BridgeEnds \/ Stop \/ RestoreDns \/ Closed
  BY <1>5 DEF BridgeEnds, Stop, RestoreDns, Closed, BeginDrop, DnsInv, RoutingTypeOK
<1>6. CASE Kill
  BY <1>6 DEF Kill, DnsInv, RoutingTypeOK
<1>7. CASE FirewallReload \/ OthersWriteDns \/ UNCHANGED routingVars
  BY <1>7 DEF FirewallReload, OthersWriteDns, routingVars, DnsInv
<1> QED BY <1>1, <1>2, <1>3, <1>4, <1>5, <1>6, <1>7 DEF RoutingNext

\* What a Drop has still to undo leaves a chain standing until the last chain is deleted.
LEMMA ChainStands ==
  ASSUME RestInv, FlagInv, ChainInv, NEW o \in Object, Undone(o),
         at \in {"install", "up"} \/ (at = "drop" /\ o \in Ahead)
  PROVE  ~NoChain
<1>1. "outputChain" \in known
  BY DEF Undone, FlagInv
<1>2. {"outputChain", "preroutingChain", "natChain"} \subseteq Chain
  BY DEF Chain
<1>3. CASE at \in {"install", "up"}
  BY <1>1, <1>2, <1>3 DEF ChainInv, NoChain
<1>4. CASE at = "drop" /\ o \in Ahead
  <2>1. \A c \in Chain : c \in known /\ c \in Ahead => ~NoChain
    BY <1>4 DEF ChainInv, NoChain
  <2>2. /\ \/ "outputChain" \in Ahead
           \/ o \in {"preroutingMark", "preroutingChain", "masquerade", "natChain"}
        /\ "preroutingMark" \in Ahead => "preroutingChain" \in Ahead
        /\ "masquerade" \in Ahead => "natChain" \in Ahead
    <3>1. Rest(todo, DropOrder)
      BY <1>4 DEF RestInv
    <3> QED BY <1>4, <3>1, DropPlaces DEF Ahead
  <2>3. CASE "outputChain" \in Ahead
    BY <1>1, <1>2, <2>1, <2>3
  <2>4. CASE o \in {"preroutingMark", "preroutingChain"}
    <3>1. "preroutingChain" \in known
      BY <2>4 DEF Undone, Chain, RulesOf, FlagInv, Flag, Slot, Forward, JumpTo
    <3> QED BY <1>2, <1>4, <2>1, <2>2, <2>4, <3>1
  <2>5. CASE o \in {"masquerade", "natChain"}
    <3>1. "natChain" \in known
      BY <2>5 DEF Undone, Chain, RulesOf, FlagInv, Flag, Slot, Forward, JumpTo
    <3> QED BY <1>2, <1>4, <2>1, <2>2, <2>5, <3>1
  <2> QED BY <2>2, <2>3, <2>4, <2>5
<1> QED BY <1>3, <1>4

\* An object that goes by itself leaves less to recognise.
LEMMA LessRemains ==
  ASSUME RemainsInv, UNCHANGED <<at, known, todo, disturbed>>, Loose' \subseteq Loose,
         \A o \in Chain \cup {"legacyRule", "markRule"} : Has(o)' <=> Has(o)
  PROVE  RemainsInv'
<1>1. NoChain' <=> NoChain
  BY DEF NoChain
<1>2. Ahead' = Ahead /\ \A o \in Object : Undone(o)' <=> Undone(o)
  BY DEF Ahead, Items, Undone
<1>3. Recognised => Recognised'
  BY <1>1 DEF Recognised
<1>4. Loose \subseteq Object
  BY DEF Loose
<1> QED BY <1>1, <1>2, <1>3, <1>4 DEF RemainsInv

\* Every step preserves that the remains of a session can be recognised.
LEMMA RemainsKeeps ==
  ASSUME RoutingTypeOK, RestInv, FlagInv, ChainInv, RemainsInv, [RoutingNext]_routingVars
  PROVE  RemainsInv'
<1> USE Objects
<1> SUFFICES ASSUME ~disturbed'
             PROVE  RemainsInv'
  BY DEF RemainsInv
<1>1. todo = <<>> => Ahead = {}
  BY DEF Ahead, Items
<1>2. /\ \A o : o \in Loose <=> o \in Object /\ Has(o) /\ o \notin stuck
      /\ \A o : o \in Loose' <=> o \in Object /\ Has(o)' /\ o \notin stuck'
  BY DEF Loose
<1>3. known' = known => \A o \in Object : Undone(o)' <=> Undone(o)
  BY DEF Undone
<1>4. ~Undone("legacyRule")
  BY UndoneNamed
<1>5. {"legacyRule", "markRule"} \subseteq Object /\ Chain \subseteq Object
  BY DEF Object, Slot
<1>6. "route" \notin Chain /\ "fw4" \notin Chain
  BY DEF Chain
<1>7. CASE Begin \/ LookForStale \/ Checked \/ CheckFails \/ Skip \/ InstallDns \/ DnsFails
             \/ Stop \/ RestoreDns \/ OthersWriteDns \/ UNCHANGED routingVars
  <2>1. stuck' = stuck /\ \A o \in Object : Has(o)' <=> Has(o)
    BY <1>7, Same
    DEF Begin, LookForStale, Checked, CheckFails, Skip, InstallDns, DnsFails, Stop, RestoreDns,
        OthersWriteDns, routingVars
  <2>2. (NoChain' <=> NoChain) /\ Loose' = Loose
    BY <1>2, <1>5, <2>1 DEF NoChain
  <2>3. CASE Begin
    <3>1. ~disturbed /\ at = "none" /\ at' = "legacy" /\ Recognised
      BY <2>3 DEF Begin, Clean, RemainsInv
    <3>2. CASE Has("legacyRule") /\ Has("markRule")
      <4>1. todo' = LegacyOrder
        BY <2>3, <3>2 DEF Begin, Clean
      <4>2. Ahead' = {"markRule", "legacyRule", "uidRule", "route"}
        BY <4>1, Named DEF Ahead, Items
      <4> QED BY <2>2, <3>1, <4>2 DEF Recognised, RemainsInv, Legacy
    <3>3. CASE ~(Has("legacyRule") /\ Has("markRule"))
      <4>1. "legacyRule" \notin Loose /\ (NoChain => Loose = {})
        BY <1>2, <3>1, <3>3 DEF Recognised
      <4> QED BY <2>2, <3>1, <4>1 DEF RemainsInv
    <3> QED BY <3>2, <3>3
  <2>4. CASE LookForStale
    <3>1. /\ ~disturbed /\ at' = "stale" /\ "legacyRule" \notin Loose
          /\ NoChain => Loose = {}
      BY <1>1, <2>4 DEF LookForStale, Clean, RemainsInv
    <3>2. CASE NoChain
      BY <2>2, <3>1, <3>2 DEF RemainsInv
    <3>3. CASE ~NoChain
      <4>1. todo' = StaleOrder
        BY <2>4, <3>3 DEF LookForStale, Clean, NoChain
      <4>2. Ahead' = Object \ {"legacyRule"}
        BY <4>1, Named DEF Ahead, Items
      <4> QED BY <1>2, <2>2, <3>1, <4>2 DEF RemainsInv
    <3> QED BY <3>2, <3>3
  <2>5. CASE Checked \/ CheckFails
    <3>1. ~disturbed /\ at' \in {"install", "none"} /\ Loose = {}
      BY <1>1, <2>5 DEF Checked, CheckFails, RemainsInv
    <3> QED BY <2>2, <3>1 DEF RemainsInv, Recognised
  <2>6. CASE Skip
    <3>1. PICK h \in Object : h = Head(todo)
      BY <2>6, AheadMoves DEF Skip
    <3>2. /\ Ahead' = Ahead \ {h} /\ UNCHANGED <<at, known, disturbed>> /\ ~Undone(h)
          /\ at = "drop"
      BY <2>6, <3>1, AheadMoves DEF Skip
    <3> QED BY <1>2, <1>3, <2>2, <3>2 DEF RemainsInv
  <2>7. CASE InstallDns
    BY <1>2, <1>3, <2>2, <2>7 DEF InstallDns, RemainsInv
  <2>8. CASE DnsFails \/ Stop
    <3>1. /\ at' = "drop" /\ Ahead' = Object \ {"legacyRule"} /\ UNCHANGED <<known, disturbed>>
          /\ at \in {"install", "up"}
      BY <2>8, DropMoves DEF DnsFails, Stop
    <3> QED BY <1>2, <1>3, <1>4, <2>2, <3>1 DEF RemainsInv
  <2>9. CASE RestoreDns
    <3>1. ~disturbed /\ at' = "closing" /\ Loose = {}
      BY <1>1, <2>9 DEF RestoreDns, RemainsInv
    <3> QED BY <2>2, <3>1 DEF RemainsInv
  <2>10. CASE OthersWriteDns \/ UNCHANGED routingVars
    <3>1. UNCHANGED <<at, known, todo, disturbed>>
      BY <2>10 DEF OthersWriteDns, routingVars
    <3> QED BY <1>5, <2>1, <2>2, <3>1, LessRemains
  <2> QED BY <1>7, <2>3, <2>4, <2>5, <2>6, <2>7, <2>8, <2>9, <2>10
<1>8. CASE Remove
  <2>1. PICK h \in Object : h = Head(todo)
    BY <1>8, AheadMoves DEF Remove
  <2>2. /\ h \in Ahead /\ Ahead' = Ahead \ {h} /\ UNCHANGED <<at, known, disturbed>>
        /\ at \in {"legacy", "stale", "drop"}
    BY <1>8, <2>1, AheadMoves DEF Remove
  <2>3. /\ Has(h)' => h \in stuck'
        /\ \A p \in Object : p # h => /\ (Has(p)' <=> Has(p))
                                     /\ (p \in stuck' <=> p \in stuck)
    BY <1>8, <2>1, RemoveEffect DEF Remove
  <2>4. \A p : p \in Loose' <=> p \in Loose /\ p # h
    BY <1>2, <2>3
  <2>5. CASE at = "legacy"
    <3>1. h \notin Chain
      <4>1. Rest(todo, LegacyOrder)
        BY <2>5 DEF RestInv
      <4>2. h \in {"markRule", "legacyRule", "uidRule", "route"}
        BY <4>1, <2>2, Orders, RestMoves, Named DEF Ahead
      <4> QED BY <4>2 DEF Chain
    <3>2. NoChain' <=> NoChain
      BY <1>5, <2>3, <3>1 DEF NoChain
    <3> QED BY <2>2, <2>4, <2>5, <3>2 DEF RemainsInv
  <2>6. CASE at \in {"stale", "drop"}
    <3>1. \A o \in Object : Undone(o)' <=> Undone(o)
      BY <1>3, <2>2
    <3> QED BY <1>2, <2>2, <2>4, <2>6, <3>1 DEF RemainsInv
  <2> QED BY <2>2, <2>5, <2>6
<1>9. ASSUME NEW o \in Object, Add(o)
      PROVE  RemainsInv'
  <2>1. /\ at = "install" /\ at' = "install" /\ UNCHANGED <<stuck, disturbed>>
        /\ Undone(o)' /\ \A p \in Object : Undone(p) => Undone(p)'
    BY <1>9, AddMoves, AddUndone DEF Add
  <2>2. \A p \in Object : p # o => (Has(p)' <=> Has(p))
    BY <1>9, AddEffect
  <2>3. \A p \in Loose' : p \in Object /\ (p \in Loose \/ p = o)
    BY <1>2, <2>1, <2>2
  <2>4. \A p \in Loose' : Undone(p)'
    BY <2>1, <2>3 DEF RemainsInv
  <2> QED BY <2>1, <2>4 DEF RemainsInv
<1>10. CASE AddFw4
  <2>1. at = "install" /\ at' = "install" /\ disturbed' = disturbed
    BY <1>10, Fw4Moves DEF AddFw4
  <2>2. \E new \in SUBSET {"fw4"} :
          known' = known \cup new /\ Loose' \subseteq Loose \cup new
    <3>1. CASE fw4
      <4>1. /\ known' = known \cup {"fw4"} /\ stuck' = stuck \ {"fw4"}
            /\ \A p \in Object : p # "fw4" => (Has(p)' <=> Has(p))
        BY <1>10, <3>1, One DEF AddFw4
      <4>2. Loose' \subseteq Loose \cup {"fw4"}
        BY <1>2, <4>1
      <4> QED BY <4>1, <4>2
    <3>2. CASE ~fw4
      <4>1. /\ known' = known /\ stuck' = stuck
            /\ \A p \in Object : Has(p)' <=> Has(p)
        BY <1>10, <3>2, Same DEF AddFw4
      <4>2. Loose' \subseteq Loose
        BY <1>2, <4>1
      <4>3. known' = known \cup {} /\ Loose' \subseteq Loose \cup {}
        BY <4>1, <4>2
      <4> QED BY <4>3
    <3> QED BY <3>1, <3>2
  <2>3. \A p \in Loose' : p \in Object /\ (p \in Loose \/ p \in known')
    BY <1>2, <2>2
  <2>4. \A p \in Object : Undone(p) \/ p \in known' => Undone(p)'
    BY <2>2 DEF Undone
  <2> QED BY <2>1, <2>3, <2>4 DEF RemainsInv
<1>11. CASE AddFails
  <2>1. /\ at' = "drop" /\ Ahead' = Object \ {"legacyRule"} /\ UNCHANGED <<known, disturbed>>
        /\ at = "install"
    BY <1>11, DropMoves DEF AddFails
  <2>2. Loose' \subseteq Loose
    <3>1. CASE Head(todo) # "fw4"
      BY <1>2, <1>11, <3>1, Same DEF AddFails
    <3>2. CASE Head(todo) = "fw4"
      <4>1. /\ \A p \in Object : p # "fw4" => /\ (Has(p)' <=> Has(p))
                                             /\ (p \in stuck' <=> p \in stuck)
            /\ Has("fw4")' => "fw4" \in stuck'
        BY <1>11, <3>2, One, Gone DEF AddFails
      <4> QED BY <1>2, <4>1
    <3> QED BY <3>1, <3>2
  <2> QED BY <1>2, <1>3, <1>4, <2>1, <2>2 DEF RemainsInv
<1>12. CASE BridgeEnds \/ FirewallReload
  <2>1. PICK g \in {"route", "fw4"} :
          /\ ~Has(g)'
          /\ \A p \in Object : p # g => /\ (Has(p)' <=> Has(p))
                                      /\ (p \in stuck' <=> p \in stuck)
    BY <1>12, Gone DEF BridgeEnds, FirewallReload
  <2>2. Loose' \subseteq Loose
    BY <1>2, <2>1
  <2>3. \A o \in Chain \cup {"legacyRule", "markRule"} : Has(o)' <=> Has(o)
    BY <1>5, <1>6, <2>1
  <2>4. UNCHANGED <<at, known, todo, disturbed>>
    BY <1>12 DEF BridgeEnds, FirewallReload
  <2> QED BY <2>2, <2>3, <2>4, LessRemains
<1>13. CASE Closed
  <2>1. ~disturbed /\ at' = "none" /\ Loose = {}
    BY <1>13 DEF Closed, RemainsInv
  <2>2. /\ ~Has("route")'
        /\ \A p \in Object : p # "route" => /\ (Has(p)' <=> Has(p))
                                           /\ (p \in stuck' <=> p \in stuck)
    BY <1>13, Gone DEF Closed
  <2>3. Loose' = {}
    BY <1>2, <2>1, <2>2
  <2> QED BY <2>1, <2>3 DEF RemainsInv, Recognised
<1>14. CASE Kill
  <2>1. ~disturbed /\ at' = "none" /\ at # "none" /\ (at \in {"legacy", "stale"} => todo = <<>>)
    BY <1>14 DEF Kill
  <2>2. /\ ~Has("route")'
        /\ \A p \in Object : p # "route" => /\ (Has(p)' <=> Has(p))
                                           /\ (p \in stuck' <=> p \in stuck)
    BY <1>14, Gone DEF Kill
  <2>3. Loose' \subseteq Loose
    BY <1>2, <2>2
  <2>4. NoChain' <=> NoChain
    BY <1>5, <1>6, <2>2 DEF NoChain
  <2>5. "legacyRule" \notin Loose /\ (NoChain => Loose = {})
    <3>1. CASE at \in {"legacy", "stale", "closing"}
      BY <1>1, <2>1, <3>1 DEF RemainsInv
    <3>2. CASE at \in {"install", "up", "drop"}
      <4>1. \A o \in Loose : Undone(o) /\ (at = "drop" => o \in Ahead) /\ o \in Object
        BY <1>2, <2>1, <3>2 DEF RemainsInv
      <4>2. ASSUME NEW o \in Loose
            PROVE  ~NoChain
        <5>1. /\ o \in Object /\ Undone(o)
              /\ at \in {"install", "up"} \/ (at = "drop" /\ o \in Ahead)
          BY <3>2, <4>1
        <5> QED BY <5>1, ChainStands
      <4> QED BY <1>4, <4>1, <4>2
    <3> QED BY <2>1, <3>1, <3>2 DEF RoutingTypeOK
  <2> QED BY <2>1, <2>3, <2>4, <2>5 DEF RemainsInv, Recognised
<1> QED
  BY <1>7, <1>8, <1>9, <1>10, <1>11, <1>12, <1>13, <1>14 DEF RoutingNext

RoutingInv == RoutingTypeOK /\ RestInv /\ FlagInv /\ SlotInv /\ ChainInv /\ OwnInv /\ DnsInv
    /\ RemainsInv

\* The invariant is inductive.
LEMMA RoutingInvCorrect == RoutingSpec => []RoutingInv
<1>1. RoutingInit => RoutingInv
  <2> SUFFICES ASSUME RoutingInit, RoutingTypeOK, RestInv
               PROVE  RoutingInv
    BY InitKeeps
  <2>1. FlagInv /\ ChainInv /\ DnsInv
    BY DEF RoutingInit, FlagInv, ChainInv, DnsInv
  <2>2. OwnInv
    BY DEF RoutingInit, OwnInv
  <2>3. \A there \in {{}, Legacy} :
          kernel = [o \in Object |-> IF o \in there THEN 1 ELSE 0]
            => \A o \in Object : Has(o) <=> o \in there
    BY DEF Has
  <2>4. PICK there \in {{}, Legacy} : \A o \in Object : Has(o) <=> o \in there
    BY <2>3 DEF RoutingInit
  <2>5. SlotInv
    BY <2>4, Objects DEF RoutingInit, SlotInv, Legacy
  <2>6. RemainsInv
    <3>1. Loose \subseteq there /\ {"legacyRule", "markRule"} \subseteq Object
      BY <2>4 DEF Loose, Object, Slot
    <3> QED BY <2>4, <3>1 DEF RoutingInit, RemainsInv, Recognised, Legacy
  <2> QED BY <2>1, <2>2, <2>5, <2>6 DEF RoutingInv
<1>2. RoutingTypeOK /\ RestInv /\ RoutingTypeOK' /\ RestInv' /\ RoutingInv
        /\ [RoutingNext]_routingVars => RoutingInv'
  BY FlagKeeps, SlotKeeps, ChainKeeps, OwnKeeps, DnsKeeps, RemainsKeeps DEF RoutingInv
<1> QED BY <1>1, <1>2, RestCorrect, PTL DEF RoutingSpec

\* cleanup_legacy_policy and cleanup_stale_chains: wherever the backend was killed, an install
\* that has run its cleanups finds the kernel free of what was left, unless a command failed
\* or a cleanup was cut short.
THEOREM RemainsFound == RoutingSpec => []RemainsCleared
<1>1. RoutingInv => RemainsCleared
  <2> SUFFICES ASSUME RestInv, RemainsInv, at = "stale", todo = <<>>, stuck = {}, ~disturbed,
                      NEW o \in Object
               PROVE  ~Has(o)
    BY DEF RoutingInv, RemainsCleared
  <2>1. Ahead = {}
    BY DEF Ahead, Items
  <2>2. Loose = {}
    BY <2>1 DEF RemainsInv
  <2> QED BY <2>2 DEF Loose
<1> QED BY <1>1, RoutingInvCorrect, PTL

\* OpenWrtRouting::install and Drop: a jump that marks packets stands only while the policy
\* rules and, with the TUN, the route stand too.
THEOREM SelectionSafe == RoutingSpec => []SelectionNeedsPolicy
<1>1. RoutingInv => SelectionNeedsPolicy
  <2> SUFFICES ASSUME RoutingTypeOK, RestInv, FlagInv, SlotInv,
                      NEW o \in Selection \cap known, Has(o), o \notin stuck
               PROVE  Has("uidRule") /\ Has("markRule") /\ (tun => Has("route"))
    BY DEF RoutingInv, SelectionNeedsPolicy
  <2>1. Slot \subseteq known
    BY DEF FlagInv
  <2>2. CASE at \in {"none", "legacy", "stale", "closing"}
    BY <2>2 DEF FlagInv, SlotInv
  <2>3. CASE at \in {"install", "up"}
    BY <2>1, <2>3 DEF SlotInv, Slot
  <2>4. CASE at = "drop"
    <3>1. o \in Ahead
      BY <2>4 DEF SlotInv
    <3>2. Slot \subseteq Ahead
      BY <2>4, <3>1, DropPlaces DEF RestInv, Ahead
    <3> QED BY <2>1, <2>4, <3>2 DEF SlotInv, Slot
  <2> QED BY <2>2, <2>3, <2>4 DEF RoutingTypeOK
<1> QED BY <1>1, RoutingInvCorrect, PTL

\* OpenWrtRouting::install and Drop: the rule that sends marked packets into the tunnel never
\* stands without the rule that lets the core's own packets out.
THEOREM RecursionExcluded == RoutingSpec => []CoreNeverRecurses
<1>1. RoutingInv => CoreNeverRecurses
  <2> SUFFICES ASSUME RoutingTypeOK, RestInv, FlagInv, SlotInv, Has("markRule"), Has("route"),
                      "markRule" \notin stuck
               PROVE  Has("uidRule")
    BY DEF RoutingInv, CoreNeverRecurses
  <2>1. CASE at \in {"none", "legacy", "stale", "closing"}
    BY <2>1 DEF SlotInv, Slot
  <2>2. CASE at \in {"install", "up"}
    BY <2>2 DEF FlagInv, SlotInv, Slot
  <2>3. CASE at = "drop"
    <3>1. {"markRule", "uidRule"} \subseteq known
      BY <2>3 DEF FlagInv, SlotInv, Slot
    <3>2. "markRule" \in Ahead
      BY <2>3, <3>1 DEF SlotInv
    <3>3. "uidRule" \in Ahead
      BY <2>3, <3>2, DropPlaces DEF RestInv, Ahead
    <3> QED BY <2>3, <3>1, <3>3 DEF SlotInv, Slot
  <2> QED BY <2>1, <2>2, <2>3 DEF RoutingTypeOK
<1> QED BY <1>1, RoutingInvCorrect, PTL

\* Drop: a session that is over, at whichever step its install failed, leaves in the kernel
\* only what stuck and what a kill had left, and resolv.conf as the others wrote it.
THEOREM AllReturned == RoutingSpec => []GivenBack
<1>1. RoutingInv => GivenBack
  BY DEF RoutingInv, GivenBack, OwnInv, Owned, DnsInv
<1> QED BY <1>1, RoutingInvCorrect, PTL
====
