--------------------------- MODULE A64BlockProofs ---------------------------
(***************************************************************************)
(* Theorems about A64Block, for blocks of any length made of any           *)
(* instructions whose control flow is in order (InsnsAssumption): those of *)
(* the decoder, for which TLC evaluates the assumption, and any to come.   *)
(***************************************************************************)
EXTENDS A64Block, SequenceTheorems, TLAPS

-----------------------------------------------------------------------------
(* What is left of an instruction after its first effect. *)

\* The first effect and the others, by their positions.
LEMMA TailIs ==
  ASSUME NEW s \in Seq(Control), s # <<>>
  PROVE  /\ Tail(s) \in Seq(Control) /\ Len(s) \in Nat /\ Len(s) >= 1
         /\ Len(Tail(s)) = Len(s) - 1 /\ Head(s) = s[1] /\ Head(s) \in Control
         /\ \A j \in 1 .. Len(s) - 1 : Tail(s)[j] = s[j + 1]
         /\ (Tail(s) = <<>>) <=> (Len(s) = 1)
<1>1. Len(s) \in Nat /\ Len(s) # 0
  BY EmptySeq
<1>2. /\ Tail(s) \in Seq(Control) /\ Len(Tail(s)) = Len(s) - 1 /\ Head(s) = s[1]
      /\ \A j \in 1 .. Len(s) - 1 : Tail(s)[j] = s[j + 1]
  BY <1>1, HeadTailProperties
<1>3. s[1] \in Control
  BY <1>1, ElementOfSeq
<1>4. (Tail(s) = <<>>) <=> (Len(Tail(s)) = 0)
  BY <1>2, EmptySeq
<1> QED
  BY <1>1, <1>2, <1>3, <1>4

\* The order of the effects is kept by the effects that remain.
LEMMA TailWellFormed ==
  ASSUME NEW s \in Seq(Control), s # <<>>, WellFormed(s)
  PROVE  WellFormed(Tail(s))
<1>1. PICK t \in Seq(Control), m \in Nat : t = Tail(s) /\ m = Len(s) - 1
  BY TailIs
<1>2. /\ t \in Seq(Control) /\ Len(t) = m /\ Len(s) = m + 1
      /\ \A j \in 1 .. m : t[j] = s[j + 1]
  BY <1>1, TailIs
<1>3. SUFFICES ASSUME NEW i \in 1 .. m PROVE InOrder(t, m, i)
  BY <1>1, <1>2, Zenon DEF WellFormed
<1>4. PICK n \in 1 .. m + 1 : n = i + 1
  BY <1>3
<1>5. t[i] = s[n]
  BY <1>2, <1>4
<1>0. InOrder(s, m + 1, n)
  BY <1>2 DEF WellFormed
<1>6. s[n] = "brcond" => \E j \in n + 1 .. m + 1 : s[j] = "label"
  BY <1>0 DEF InOrder
<1>7. s[n] = "br" => \E j \in n + 1 .. m + 1 :
                       s[j] = "label" /\ \E k \in j + 1 .. m + 1 : s[k] = "label"
  BY <1>0 DEF InOrder
<1>8. /\ s[n] \in {"brcond", "br"} => \A j \in n + 1 .. m + 1 : s[j] \in Exits => s[m + 1] \in Exits
      /\ s[n] \in {"brcond", "br"} => \A j \in n + 1 .. m + 1 : s[j] # "fp_access_check"
      /\ \A j \in n + 1 .. m + 1 : SlotOf(s[n]) = SlotOf(s[j]) => SlotOf(s[n]) = -1
      /\ n < m + 1 /\ s[n + 1] = "helper" => s[n] = "set_pc"
      /\ n < m + 1 /\ s[n + 1] = "DISAS_JUMP" => s[n] = "write_pc" /\ n + 1 = m + 1
      /\ s[n] \in {"printer_0", "printer_1"} => n < m + 1 /\ s[n + 1] \in Gotos
      /\ n < m + 1 /\ s[n + 1] \in Gotos => s[n] = RecordOf(s[n + 1])
  BY <1>0 DEF InOrder
<1>9. \A j \in n + 1 .. m + 1 : j - 1 \in i + 1 .. m /\ j - 1 \in 1 .. m /\ t[j - 1] = s[j]
  BY <1>2, <1>4
<1>10. t[i] = "brcond" => \E j \in i + 1 .. m : t[j] = "label"
  BY <1>5, <1>6, <1>9
<1>11. t[i] = "br" => \E j \in i + 1 .. m :
                        t[j] = "label" /\ \E k \in j + 1 .. m : t[k] = "label"
  <2> SUFFICES ASSUME t[i] = "br"
               PROVE  \E j \in i + 1 .. m : t[j] = "label" /\ \E k \in j + 1 .. m : t[k] = "label"
    OBVIOUS
  <2>1. PICK j \in n + 1 .. m + 1 :
               s[j] = "label" /\ \E k \in j + 1 .. m + 1 : s[k] = "label"
    BY <1>5, <1>7
  <2>2. PICK k \in j + 1 .. m + 1 : s[k] = "label"
    BY <2>1
  <2>3. k \in n + 1 .. m + 1 /\ k - 1 \in (j - 1) + 1 .. m
    BY <1>4, <2>1, <2>2
  <2>4. j - 1 \in i + 1 .. m /\ t[j - 1] = "label" /\ t[k - 1] = "label"
    BY <1>9, <2>1, <2>2, <2>3
  <2> QED
    BY <2>3, <2>4
<1>12. t[m] = s[m + 1] /\ (i < m => t[i + 1] = s[n + 1]) /\ ((i < m) <=> (n < m + 1))
       /\ ((i + 1 = m) <=> (n + 1 = m + 1))
  BY <1>2, <1>4
<1>13. t[i] \in {"brcond", "br"} => \A j \in i + 1 .. m : t[j] # "fp_access_check"
  <2>1. \A j \in i + 1 .. m : j + 1 \in n + 1 .. m + 1 /\ t[j] = s[j + 1]
    BY <1>2, <1>4
  <2> QED
    BY <1>5, <1>8, <2>1
<1>14. \A j \in i + 1 .. m : SlotOf(t[i]) = SlotOf(t[j]) => SlotOf(t[i]) = -1
  <2>1. \A j \in i + 1 .. m : j + 1 \in n + 1 .. m + 1 /\ t[j] = s[j + 1]
    BY <1>2, <1>4
  <2> QED
    BY <1>5, <1>8, <2>1
<1>15. t[i] \in {"brcond", "br"} => \A j \in i + 1 .. m : t[j] \in Exits => t[m] \in Exits
  <2>1. \A j \in i + 1 .. m : j + 1 \in n + 1 .. m + 1 /\ t[j] = s[j + 1]
    BY <1>2, <1>4
  <2> QED
    BY <1>5, <1>8, <1>12, <2>1
<1>16. /\ i < m /\ t[i + 1] = "helper" => t[i] = "set_pc"
       /\ i < m /\ t[i + 1] = "DISAS_JUMP" => t[i] = "write_pc" /\ i + 1 = m
       /\ t[i] \in {"printer_0", "printer_1"} => i < m /\ t[i + 1] \in Gotos
       /\ i < m /\ t[i + 1] \in Gotos => t[i] = RecordOf(t[i + 1])
  BY <1>5, <1>8, <1>12
<1> QED
  BY <1>10, <1>11, <1>13, <1>14, <1>15, <1>16, Zenon DEF InOrder

\* What the order of the effects says of the first one.
LEMMA HeadFacts ==
  ASSUME NEW s \in Seq(Control), s # <<>>, WellFormed(s)
  PROVE  /\ Head(s) = "brcond" => HasLabel(Tail(s))
         /\ Head(s) = "br" => HasTwoLabels(Tail(s))
         /\ Head(s) \in {"brcond", "br"} => NoCheck(Tail(s)) /\ ExitLast(Tail(s))
         /\ \A j \in 1 .. Len(Tail(s)) :
              SlotOf(Head(s)) = SlotOf(Tail(s)[j]) => SlotOf(Head(s)) = -1
<1>1. PICK t \in Seq(Control), m \in Nat : t = Tail(s) /\ m = Len(s) - 1
  BY TailIs
<1>2. /\ Len(t) = m /\ Len(s) = m + 1 /\ Head(s) = s[1] /\ s[1] \in Control
      /\ \A j \in 1 .. m : t[j] = s[j + 1]
  BY <1>1, TailIs
<1>3. 1 \in 1 .. Len(s)
  BY <1>2
<1>4. /\ s[1] = "brcond" => \E j \in 1 + 1 .. m + 1 : s[j] = "label"
      /\ s[1] = "br" => \E j \in 1 + 1 .. m + 1 :
                          s[j] = "label" /\ \E k \in j + 1 .. m + 1 : s[k] = "label"
  BY <1>2, <1>3 DEF WellFormed, InOrder
<1>5. /\ s[1] \in {"brcond", "br"} => \A j \in 1 + 1 .. m + 1 : s[j] \in Exits => s[m + 1] \in Exits
      /\ s[1] \in {"brcond", "br"} => \A j \in 1 + 1 .. m + 1 : s[j] # "fp_access_check"
      /\ \A j \in 1 + 1 .. m + 1 : SlotOf(s[1]) = SlotOf(s[j]) => SlotOf(s[1]) = -1
  BY <1>2, <1>3 DEF WellFormed, InOrder
<1>6. \A j \in 1 + 1 .. m + 1 : j - 1 \in 1 .. m /\ t[j - 1] = s[j]
  BY <1>2
<1>7. \A j \in 1 .. m : j + 1 \in 1 + 1 .. m + 1 /\ t[j] = s[j + 1]
  BY <1>2
<1>8. s[1] = "brcond" => HasLabel(t)
  BY <1>2, <1>4, <1>6 DEF HasLabel
<1>9. s[1] = "br" => HasTwoLabels(t)
  <2> SUFFICES ASSUME s[1] = "br" PROVE HasTwoLabels(t)
    OBVIOUS
  <2>1. PICK j \in 1 + 1 .. m + 1 :
               s[j] = "label" /\ \E k \in j + 1 .. m + 1 : s[k] = "label"
    BY <1>4
  <2>2. PICK k \in j + 1 .. m + 1 : s[k] = "label"
    BY <2>1
  <2>3. k \in 1 + 1 .. m + 1 /\ j - 1 < k - 1
    BY <2>1, <2>2
  <2>4. j - 1 \in 1 .. m /\ k - 1 \in 1 .. m /\ t[j - 1] = "label" /\ t[k - 1] = "label"
    BY <1>6, <2>1, <2>2, <2>3
  <2> QED
    BY <1>2, <2>3, <2>4 DEF HasTwoLabels
<1>10. s[1] \in {"brcond", "br"} => ExitLast(t)
  <2> SUFFICES ASSUME s[1] \in {"brcond", "br"}, NEW j \in 1 .. m, t[j] \in Exits
               PROVE  EndsInExit(t)
    BY <1>2, Zenon DEF ExitLast
  <2>1. j + 1 \in 1 + 1 .. m + 1 /\ s[j + 1] \in Exits /\ m # 0
    BY <1>7
  <2>2. s[m + 1] \in Exits
    BY <1>5, <2>1
  <2>3. m \in 1 .. m /\ t[m] = s[m + 1] /\ t # <<>>
    BY <1>2, <2>1
  <2> QED
    BY <1>2, <2>2, <2>3 DEF EndsInExit
<1>11. s[1] \in {"brcond", "br"} => \A j \in 1 .. m : t[j] # "fp_access_check"
  BY <1>5, <1>7
<1>12. \A j \in 1 .. m : SlotOf(s[1]) = SlotOf(t[j]) => SlotOf(s[1]) = -1
  BY <1>5, <1>7
<1> QED
  BY <1>1, <1>2, <1>8, <1>9, <1>10, <1>11, <1>12 DEF NoCheck

\* What it says of the first two.
LEMMA NeighbourFacts ==
  ASSUME NEW s \in Seq(Control), s # <<>>, WellFormed(s)
  PROVE  /\ Tail(s) # <<>> /\ Head(Tail(s)) = "helper" => Head(s) = "set_pc"
         /\ Tail(s) # <<>> /\ Head(Tail(s)) = "DISAS_JUMP" => Head(s) = "write_pc"
         /\ Tail(s) # <<>> /\ Head(Tail(s)) = "DISAS_JUMP" => Tail(Tail(s)) = <<>>
         /\ Head(s) \in {"printer_0", "printer_1"} =>
              Tail(s) # <<>> /\ Head(Tail(s)) \in Gotos
         /\ Tail(s) # <<>> /\ Head(Tail(s)) \in Gotos => Head(s) = RecordOf(Head(Tail(s)))
<1>1. PICK m \in Nat : m = Len(s) - 1
  BY TailIs
<1>2. /\ Len(s) = m + 1 /\ Head(s) = s[1] /\ (Tail(s) # <<>> <=> 1 < m + 1)
      /\ Tail(s) \in Seq(Control) /\ Len(Tail(s)) = m
  <2>1. /\ Tail(s) \in Seq(Control) /\ Len(s) \in Nat /\ Len(Tail(s)) = Len(s) - 1
        /\ Head(s) = s[1] /\ ((Tail(s) = <<>>) <=> (Len(s) = 1))
    BY TailIs
  <2> QED
    BY <1>1, <2>1
<1>3. /\ 1 < m + 1 /\ s[1 + 1] = "helper" => s[1] = "set_pc"
      /\ 1 < m + 1 /\ s[1 + 1] = "DISAS_JUMP" => s[1] = "write_pc" /\ 1 + 1 = m + 1
      /\ s[1] \in {"printer_0", "printer_1"} => 1 < m + 1 /\ s[1 + 1] \in Gotos
      /\ 1 < m + 1 /\ s[1 + 1] \in Gotos => s[1] = RecordOf(s[1 + 1])
  BY <1>2 DEF WellFormed, InOrder
<1>4. 1 < m + 1 => Head(Tail(s)) = s[1 + 1] /\ (m = 1 => Tail(Tail(s)) = <<>>)
  <2> SUFFICES ASSUME 1 < m + 1
               PROVE  Head(Tail(s)) = s[1 + 1] /\ (m = 1 => Tail(Tail(s)) = <<>>)
    OBVIOUS
  <2>1. Tail(s) # <<>> /\ 1 \in 1 .. Len(s) - 1
    BY <1>2
  <2>2. Tail(s)[1] = s[1 + 1]
    BY <2>1, TailIs
  <2> QED
    BY <1>2, <2>1, <2>2, TailIs
<1> QED
  BY <1>2, <1>3, <1>4

\* The label a skipping path waits for stays ahead until it is met.
LEMMA LabelAhead ==
  ASSUME NEW s \in Seq(Control), s # <<>>
  PROVE  /\ HasLabel(s) /\ Head(s) # "label" => HasLabel(Tail(s))
         /\ HasTwoLabels(s) /\ Head(s) # "label" => HasTwoLabels(Tail(s))
         /\ HasTwoLabels(s) => HasLabel(Tail(s))
<1>1. PICK t \in Seq(Control), m \in Nat : t = Tail(s) /\ m = Len(s) - 1
  BY TailIs
<1>2. /\ Len(t) = m /\ Len(s) = m + 1 /\ Head(s) = s[1]
      /\ \A j \in 1 .. m : t[j] = s[j + 1]
  BY <1>1, TailIs
<1>3. \A j \in 1 .. m + 1 : j # 1 => j - 1 \in 1 .. m /\ t[j - 1] = s[j]
  BY <1>2
<1>4. HasLabel(s) /\ s[1] # "label" => HasLabel(t)
  BY <1>2, <1>3 DEF HasLabel
<1>5. ASSUME HasTwoLabels(s)
      PROVE  HasLabel(t) /\ (s[1] # "label" => HasTwoLabels(t))
  <2>1. PICK j \in 1 .. m + 1, k \in 1 .. m + 1 : j < k /\ s[j] = "label" /\ s[k] = "label"
    BY <1>2, <1>5 DEF HasTwoLabels
  <2>2. k # 1 /\ j - 1 < k - 1
    BY <2>1
  <2>3. k - 1 \in 1 .. m /\ t[k - 1] = "label"
    BY <1>3, <2>1, <2>2
  <2>4. s[1] # "label" => j # 1
    BY <2>1
  <2>5. s[1] # "label" => j - 1 \in 1 .. m /\ t[j - 1] = "label"
    BY <1>3, <2>1, <2>4
  <2>6. HasLabel(t)
    BY <1>2, <2>3 DEF HasLabel
  <2> QED
    BY <1>2, <2>2, <2>3, <2>5, <2>6 DEF HasTwoLabels
<1> QED
  BY <1>1, <1>2, <1>4, <1>5

\* At the end of an instruction nothing is ahead.
LEMMA NothingAhead ==
  /\ WellFormed(<<>>) /\ ~HasLabel(<<>>) /\ ~HasTwoLabels(<<>>) /\ ~EndsInExit(<<>>)
  /\ NoCheck(<<>>) /\ \A used : SlotsFree(<<>>, used)
<1>1. Len(<<>>) = 0
  BY EmptySeq
<1> QED
  BY <1>1 DEF WellFormed, HasLabel, HasTwoLabels, EndsInExit, NoCheck, SlotsFree

\* The exit at the end stays there until it is the next.
LEMMA ExitAhead ==
  ASSUME NEW s \in Seq(Control), s # <<>>, EndsInExit(s)
  PROVE  /\ Tail(s) # <<>> => EndsInExit(Tail(s))
         /\ Tail(s) = <<>> => Head(s) \in Exits
<1>1. PICK t \in Seq(Control), m \in Nat : t = Tail(s) /\ m = Len(s) - 1
  BY TailIs
<1>2. /\ Len(t) = m /\ Len(s) = m + 1 /\ Head(s) = s[1] /\ (t = <<>> <=> m = 0)
      /\ \A j \in 1 .. m : t[j] = s[j + 1]
  BY <1>1, TailIs
<1>3. s[m + 1] \in Exits
  BY <1>2 DEF EndsInExit
<1>4. CASE m = 0
  BY <1>1, <1>2, <1>3, <1>4
<1>5. CASE m # 0
  <2>1. t # <<>> /\ t[m] \in Exits
    BY <1>2, <1>3, <1>5
  <2> QED
    BY <1>1, <1>2, <2>1 DEF EndsInExit
<1> QED
  BY <1>4, <1>5

\* If an exit is ahead the last effect is one, and so it stays.
LEMMA ExitStaysLast ==
  ASSUME NEW s \in Seq(Control), s # <<>>, ExitLast(s)
  PROVE  /\ ExitLast(Tail(s))
         /\ Head(s) \in Exits => EndsInExit(s)
<1>1. PICK t \in Seq(Control), m \in Nat : t = Tail(s) /\ m = Len(s) - 1
  BY TailIs
<1>2. /\ Len(t) = m /\ Len(s) = m + 1 /\ Head(s) = s[1] /\ (t = <<>> <=> m = 0)
      /\ \A j \in 1 .. m : t[j] = s[j + 1]
  BY <1>1, TailIs
<1>3. Head(s) \in Exits => EndsInExit(s)
  <2>1. 1 \in 1 .. Len(s)
    BY <1>2
  <2> QED
    BY <1>2, <2>1 DEF ExitLast
<1>4. ASSUME NEW j \in 1 .. m, t[j] \in Exits PROVE EndsInExit(t)
  <2>1. j + 1 \in 1 .. Len(s) /\ s[j + 1] \in Exits /\ t # <<>>
    BY <1>2, <1>4
  <2> QED
    BY <1>1, <2>1, ExitAhead DEF ExitLast
<1> QED
  BY <1>1, <1>2, <1>3, <1>4 DEF ExitLast

\* What is free of access checks, or of the slots in use, stays so.
LEMMA FreeAhead ==
  ASSUME NEW s \in Seq(Control), s # <<>>, NEW used
  PROVE  /\ NoCheck(s) => NoCheck(Tail(s)) /\ Head(s) # "fp_access_check"
         /\ SlotsFree(s, used) => SlotsFree(Tail(s), used) /\ SlotOf(Head(s)) \notin used
<1>1. PICK t \in Seq(Control), m \in Nat : t = Tail(s) /\ m = Len(s) - 1
  BY TailIs
<1>2. /\ Len(t) = m /\ Len(s) = m + 1 /\ Head(s) = s[1]
      /\ \A j \in 1 .. m : t[j] = s[j + 1]
  BY <1>1, TailIs
<1>3. 1 \in 1 .. m + 1 /\ \A j \in 1 .. m : j + 1 \in 1 .. m + 1
  OBVIOUS
<1> QED
  BY <1>1, <1>2, <1>3 DEF NoCheck, SlotsFree

\* The slot an effect takes is not taken by a later one.
LEMMA SlotTaken ==
  ASSUME NEW s \in Seq(Control), s # <<>>, WellFormed(s), NEW used, SlotsFree(s, used),
         Head(s) \in Gotos
  PROVE  SlotsFree(Tail(s), used \cup {SlotOf(Head(s))})
<1>1. SlotsFree(Tail(s), used)
  BY FreeAhead
<1>2. SlotOf(Head(s)) # -1
  BY DEF SlotOf, Gotos
<1>3. \A j \in 1 .. Len(Tail(s)) : SlotOf(Tail(s)[j]) # SlotOf(Head(s))
  BY <1>2, HeadFacts
<1> QED
  BY <1>1, <1>3 DEF SlotsFree

-----------------------------------------------------------------------------
(* The steps. *)

\* What holds around an effect, whatever the effect is.
EffectFacts ==
  /\ todo \in Seq(Control) /\ todo # <<>> /\ todo' \in Seq(Control) /\ phase = "insn"
  /\ Head(todo) \in Control /\ WellFormed(todo) /\ WellFormed(todo')
  /\ SlotsFree(todo', slots) /\ is_jmp # "DISAS_JUMP"
  /\ flow = "skip" /\ Head(todo) # "label" => HasLabel(todo')
  /\ flow = "skip2" /\ Head(todo) # "label" => HasTwoLabels(todo')
  /\ flow = "skip2" => HasLabel(todo')
  /\ flow \in {"skip", "skip2"} => NoCheck(todo') /\ Head(todo) # "fp_access_check"
  /\ flow \in {"skip", "skip2"} => ExitLast(todo') /\ (Head(todo) \in Exits => EndsInExit(todo))
  /\ EndsInExit(todo) => EndsInExit(todo') \/ (todo' = <<>> /\ Head(todo) \in Exits)
  /\ todo' # <<>> /\ Head(todo') = "helper" => Head(todo) = "set_pc"
  /\ todo' # <<>> /\ Head(todo') = "DISAS_JUMP" => Head(todo) = "write_pc" /\ Tail(todo') = <<>>
  /\ todo' # <<>> /\ Head(todo') \in Gotos => Head(todo) = RecordOf(Head(todo'))
  /\ Head(todo) \in {"printer_0", "printer_1"} => todo' # <<>> /\ Head(todo') \in Gotos
  /\ Head(todo) = "DISAS_JUMP" => todo' = <<>> /\ (running => pc = "target")
  /\ Head(todo) = "brcond" => HasLabel(todo') /\ NoCheck(todo') /\ ExitLast(todo')
  /\ Head(todo) = "br" => HasTwoLabels(todo') /\ NoCheck(todo') /\ ExitLast(todo')
  /\ todo' = <<>> => ~HasLabel(todo') /\ ~HasTwoLabels(todo')

\* The invariant gives them.
LEMMA BeforeEffect ==
  ASSUME BlockInv, NEW kinds, Upcoming(kinds), Rest
  PROVE  EffectFacts /\ Head(todo) \in kinds
<1>1. /\ todo \in Seq(Control) /\ todo # <<>> /\ todo' = Tail(todo) /\ phase = "insn"
      /\ Head(todo) \in kinds /\ WellFormed(todo)
  BY DEF BlockInv, TypeOK, Remaining, Upcoming, Rest
<1>2. todo' \in Seq(Control) /\ Head(todo) \in Control
  BY <1>1, TailIs
<1>3. WellFormed(todo')
  BY <1>1, TailWellFormed
<1>4. SlotsFree(todo', slots)
  BY <1>1, FreeAhead DEF BlockInv, Slots
<1>5. /\ flow = "skip" /\ Head(todo) # "label" => HasLabel(todo')
      /\ flow = "skip2" /\ Head(todo) # "label" => HasTwoLabels(todo')
      /\ flow = "skip2" => HasLabel(todo')
  BY <1>1, LabelAhead DEF BlockInv, Remaining
<1>6. flow \in {"skip", "skip2"} => NoCheck(todo') /\ Head(todo) # "fp_access_check"
  BY <1>1, FreeAhead DEF BlockInv, Remaining
<1>7. EndsInExit(todo) => EndsInExit(todo') \/ (todo' = <<>> /\ Head(todo) \in Exits)
  BY <1>1, ExitAhead
<1>8. is_jmp # "DISAS_JUMP"
  BY <1>1 DEF BlockInv, Ending
<1>9. /\ todo' # <<>> /\ Head(todo') = "helper" => Head(todo) = "set_pc"
      /\ todo' # <<>> /\ Head(todo') = "DISAS_JUMP" => Head(todo) = "write_pc" /\ Tail(todo') = <<>>
      /\ todo' # <<>> /\ Head(todo') \in Gotos => Head(todo) = RecordOf(Head(todo'))
      /\ Head(todo) \in {"printer_0", "printer_1"} => todo' # <<>> /\ Head(todo') \in Gotos
  BY <1>1, NeighbourFacts
<1>10. Head(todo) = "DISAS_JUMP" => todo' = <<>> /\ (running => pc = "target")
  BY <1>1 DEF BlockInv, Ending, Upcoming
<1>11. /\ Head(todo) = "brcond" => HasLabel(todo') /\ NoCheck(todo') /\ ExitLast(todo')
       /\ Head(todo) = "br" => HasTwoLabels(todo') /\ NoCheck(todo') /\ ExitLast(todo')
  BY <1>1, HeadFacts
<1>12. todo' = <<>> => ~HasLabel(todo') /\ ~HasTwoLabels(todo')
  BY NothingAhead
<1>13. flow \in {"skip", "skip2"} =>
         ExitLast(todo') /\ (Head(todo) \in Exits => EndsInExit(todo))
  BY <1>1, ExitStaysLast DEF BlockInv, Remaining
<1> QED
  BY <1>1, <1>2, <1>3, <1>4, <1>5, <1>6, <1>7, <1>8, <1>9, <1>10, <1>11, <1>12, <1>13
     DEF EffectFacts

\* At the end of an instruction no path skips, and after an exception or a block
\* jump it has left.
LEMMA AtEnd ==
  ASSUME BlockInv, todo = <<>>
  PROVE  /\ flow \in {"run"} \cup Left
         /\ is_jmp \in {"DISAS_EXC", "DISAS_TB_JUMP"} => flow \in Left
BY NothingAhead DEF BlockInv, TypeOK, Remaining, Ending

\* An exception: the path leaves, if it is here.
LEMMA ExceptionStep ==
  ASSUME BlockInv, Exception
  PROVE  BlockInv'
<1>1. /\ Upcoming({"unallocated", "exception", "exception_next"}) /\ Rest
      /\ LeaveAt(IF Head(todo) = "exception_next" THEN "next" ELSE "insn", "exception")
      /\ is_jmp' = "DISAS_EXC"
      /\ UNCHANGED <<phase, num_insns, pstate_ss, slots, assert_ok, flags, ss_clear, printed>>
  BY DEF Exception
<1>2. EffectFacts /\ Head(todo) \in {"unallocated", "exception", "exception_next"}
  BY <1>1, BeforeEffect
<1>3. TypeOK'
  BY <1>1, <1>2 DEF BlockInv, TypeOK, EffectFacts, flags, Left, LeaveAt, Jmp
<1>4. AssertsHold' /\ LeavesWithPc' /\ StepTraps'
  BY <1>1, <1>2 DEF BlockInv, TypeOK, EffectFacts, AssertsHold, LeavesWithPc, StepTraps, running, Upcoming,
                    Left, flags, LeaveAt
<1>5. Remaining' /\ Slots'
  BY <1>1, <1>2 DEF BlockInv, EffectFacts, Remaining, Slots, flags, running, LeaveAt
<1>6. Recording'
  BY <1>1, <1>2 DEF BlockInv, EffectFacts, Recording, running, Upcoming, RecordOf, Gotos, Left, LeaveAt
<1>7. Ending'
  BY <1>1, <1>2 DEF BlockInv, TypeOK, EffectFacts, Ending, running, Upcoming, Exits, Left, flags, LeaveAt
<1> QED
  BY <1>3, <1>4, <1>5, <1>6, <1>7 DEF BlockInv

\* The PC is set for a helper or for DISAS_JUMP.
LEMMA SetPcStep ==
  ASSUME BlockInv, SetPc
  PROVE  BlockInv'
<1>1. /\ Upcoming({"set_pc", "write_pc"}) /\ Rest
      /\ pc' = IF ~running THEN pc ELSE IF Head(todo) = "set_pc" THEN "insn" ELSE "target"
      /\ UNCHANGED <<phase, num_insns, is_jmp, pstate_ss, slots, assert_ok, flags, flow, ss_clear,
                     printed>>
  BY DEF SetPc
<1>2. EffectFacts /\ Head(todo) \in {"set_pc", "write_pc"}
  BY <1>1, BeforeEffect
<1>3. TypeOK'
  BY <1>1, <1>2 DEF BlockInv, TypeOK, EffectFacts, flags, Left
<1>4. AssertsHold' /\ LeavesWithPc' /\ StepTraps'
  BY <1>1, <1>2 DEF BlockInv, TypeOK, EffectFacts, AssertsHold, LeavesWithPc, StepTraps, running, Upcoming,
                    Left, flags
<1>5. Remaining' /\ Slots'
  BY <1>1, <1>2 DEF BlockInv, EffectFacts, Remaining, Slots, flags, running
<1>6. Recording'
  BY <1>1, <1>2 DEF BlockInv, EffectFacts, Recording, running, Upcoming, RecordOf, Gotos, Left
<1>7. Ending'
  BY <1>1, <1>2 DEF BlockInv, TypeOK, EffectFacts, Ending, running, Upcoming, Exits, Left, flags
<1> QED
  BY <1>3, <1>4, <1>5, <1>6, <1>7 DEF BlockInv

\* A helper, which may raise an exception at the PC just set.
LEMMA HelperStep ==
  ASSUME BlockInv, Helper
  PROVE  BlockInv'
<1>1. /\ Upcoming({"helper"}) /\ Rest
      /\ flow' \in IF running THEN {"run", "exception"} ELSE {flow}
      /\ UNCHANGED <<phase, num_insns, is_jmp, pstate_ss, slots, assert_ok, flags, pc, ss_clear,
                     printed>>
  BY DEF Helper
<1>2. EffectFacts /\ Head(todo) \in {"helper"}
  BY <1>1, BeforeEffect
<1>3. TypeOK'
  BY <1>1, <1>2 DEF BlockInv, TypeOK, EffectFacts, flags, Left
<1>4. AssertsHold' /\ LeavesWithPc' /\ StepTraps'
  BY <1>1, <1>2 DEF BlockInv, TypeOK, EffectFacts, AssertsHold, LeavesWithPc, StepTraps, running, Upcoming,
                    Left, flags
<1>5. Remaining' /\ Slots'
  BY <1>1, <1>2 DEF BlockInv, EffectFacts, Remaining, Slots, flags, running
<1>6. Recording'
  BY <1>1, <1>2 DEF BlockInv, EffectFacts, Recording, running, Upcoming, RecordOf, Gotos, Left
<1>7. Ending'
  BY <1>1, <1>2 DEF BlockInv, TypeOK, EffectFacts, Ending, running, Upcoming, Exits, Left, flags
<1> QED
  BY <1>3, <1>4, <1>5, <1>6, <1>7 DEF BlockInv

\* A step that is about to complete.
LEMMA gen_ss_advanceStep ==
  ASSUME BlockInv, gen_ss_advance
  PROVE  BlockInv'
<1>1. /\ Upcoming({"ss_advance"}) /\ Rest
      /\ pstate_ss' = (pstate_ss /\ ~ss_active)
      /\ ss_clear' = (ss_clear \/ (ss_active /\ running))
      /\ UNCHANGED <<phase, num_insns, is_jmp, slots, assert_ok, flags, flow, pc, printed>>
  BY DEF gen_ss_advance
<1>2. EffectFacts /\ Head(todo) \in {"ss_advance"}
  BY <1>1, BeforeEffect
<1>3. TypeOK'
  BY <1>1, <1>2 DEF BlockInv, TypeOK, EffectFacts, flags, Left
<1>4. AssertsHold' /\ LeavesWithPc' /\ StepTraps'
  BY <1>1, <1>2 DEF BlockInv, TypeOK, EffectFacts, AssertsHold, LeavesWithPc, StepTraps, running, Upcoming,
                    Left, flags
<1>5. Remaining' /\ Slots'
  BY <1>1, <1>2 DEF BlockInv, EffectFacts, Remaining, Slots, flags, running
<1>6. Recording'
  BY <1>1, <1>2 DEF BlockInv, EffectFacts, Recording, running, Upcoming, RecordOf, Gotos, Left
<1>7. Ending'
  BY <1>1, <1>2 DEF BlockInv, TypeOK, EffectFacts, Ending, running, Upcoming, Exits, Left, flags
<1> QED
  BY <1>3, <1>4, <1>5, <1>6, <1>7 DEF BlockInv

\* A jump inside the instruction, or the label that ends one.
LEMMA JumpStep ==
  ASSUME BlockInv, Jump
  PROVE  BlockInv'
<1>1. /\ Upcoming({"brcond", "br", "label"}) /\ Rest
      /\ flow' \in CASE Head(todo) = "brcond" /\ running -> {"run", "skip"}
                     [] Head(todo) = "br" /\ running -> {"skip2"}
                     [] Head(todo) = "label" /\ flow = "skip" -> {"run"}
                     [] Head(todo) = "label" /\ flow = "skip2" -> {"skip"}
                     [] OTHER -> {flow}
      /\ UNCHANGED <<phase, num_insns, is_jmp, pstate_ss, slots, assert_ok, flags, pc, ss_clear,
                     printed>>
  BY DEF Jump
<1>2. EffectFacts /\ Head(todo) \in {"brcond", "br", "label"}
  BY <1>1, BeforeEffect
<1>3. TypeOK'
  BY <1>1, <1>2 DEF BlockInv, TypeOK, EffectFacts, flags, Left
<1>4. AssertsHold' /\ LeavesWithPc' /\ StepTraps'
  BY <1>1, <1>2 DEF BlockInv, TypeOK, EffectFacts, AssertsHold, LeavesWithPc, StepTraps, running, Upcoming,
                    Left, flags
<1>5. Remaining' /\ Slots'
  BY <1>1, <1>2 DEF BlockInv, EffectFacts, Remaining, Slots, flags, running
<1>6. Recording'
  BY <1>1, <1>2 DEF BlockInv, EffectFacts, Recording, running, Upcoming, RecordOf, Gotos, Left
<1>7. Ending'
  BY <1>1, <1>2 DEF BlockInv, TypeOK, EffectFacts, Ending, running, Upcoming, Exits, Left, flags
<1> QED
  BY <1>3, <1>4, <1>5, <1>6, <1>7 DEF BlockInv

\* A record, after which the exit it is for comes.
LEMMA PrinterStep ==
  ASSUME BlockInv, Printer
  PROVE  BlockInv'
<1>1. /\ Upcoming({"printer_0", "printer_1"}) /\ Rest
      /\ printed' = IF running THEN Append(printed, Head(todo)) ELSE printed
      /\ UNCHANGED <<phase, num_insns, is_jmp, pstate_ss, slots, assert_ok, flags, flow, pc, ss_clear>>
  BY DEF Printer
<1>2. EffectFacts /\ Head(todo) \in {"printer_0", "printer_1"}
  BY <1>1, BeforeEffect
<1>3. TypeOK'
  BY <1>1, <1>2 DEF BlockInv, TypeOK, EffectFacts, flags, Left
<1>4. AssertsHold' /\ LeavesWithPc' /\ StepTraps'
  BY <1>1, <1>2 DEF BlockInv, TypeOK, EffectFacts, AssertsHold, LeavesWithPc, StepTraps, running, Upcoming,
                    Left, flags
<1>5. Remaining' /\ Slots'
  BY <1>1, <1>2 DEF BlockInv, EffectFacts, Remaining, Slots, flags, running
<1>6. Recording'
  <2>1. todo' # <<>> /\ Head(todo') \in Gotos /\ Head(todo) = RecordOf(Head(todo'))
    BY <1>2 DEF EffectFacts
  <2>2. running => printed = <<>>
    BY <1>2 DEF BlockInv, Recording, running, Upcoming, Gotos, Left
  <2>3. running => printed' = <<Head(todo)>>
    BY <1>1, <2>2
  <2> QED
    BY <1>1, <1>2, <2>1, <2>2, <2>3 DEF BlockInv, EffectFacts, Recording, running, Upcoming
<1>7. Ending'
  BY <1>1, <1>2 DEF BlockInv, TypeOK, EffectFacts, Ending, running, Upcoming, Exits, Left, flags
<1> QED
  BY <1>3, <1>4, <1>5, <1>6, <1>7 DEF BlockInv

\* The instruction ends the block.
LEMMA SetIsJmpStep ==
  ASSUME BlockInv, SetIsJmp
  PROVE  BlockInv'
<1>1. /\ Upcoming(Jmp) /\ Rest
      /\ is_jmp' = Head(todo)
      /\ UNCHANGED <<phase, num_insns, pstate_ss, slots, assert_ok, flags, path>>
  BY DEF SetIsJmp
<1>2. /\ EffectFacts
      /\ Head(todo) \in {"DISAS_JUMP", "DISAS_UPDATE", "DISAS_WFI", "DISAS_WFE", "DISAS_YIELD"}
  <2>1. EffectFacts /\ Head(todo) \in Jmp
    BY <1>1, BeforeEffect
  <2> QED
    BY <2>1 DEF EffectFacts, Control, Jmp
<1>3. TypeOK'
  BY <1>1, <1>2 DEF BlockInv, TypeOK, EffectFacts, flags, Left, path, Jmp, Control
<1>4. AssertsHold' /\ LeavesWithPc' /\ StepTraps'
  BY <1>1, <1>2 DEF BlockInv, TypeOK, EffectFacts, AssertsHold, LeavesWithPc, StepTraps, running, Upcoming,
                    Left, flags, path
<1>5. Remaining' /\ Slots'
  BY <1>1, <1>2 DEF BlockInv, EffectFacts, Remaining, Slots, flags, running, path, Jmp, Control
<1>6. Recording'
  BY <1>1, <1>2 DEF BlockInv, EffectFacts, Recording, running, Upcoming, RecordOf, Gotos, Left, path
<1>7. Ending'
  BY <1>1, <1>2 DEF BlockInv, TypeOK, EffectFacts, Ending, running, Upcoming, Exits, Left, flags, path, Jmp, Control
<1> QED
  BY <1>3, <1>4, <1>5, <1>6, <1>7 DEF BlockInv

\* The access check passes, or the handler returns after its exception.
LEMMA FpCheckStep ==
  ASSUME BlockInv, FpCheck
  PROVE  BlockInv'
<1>1. CASE Rest /\ UNCHANGED <<is_jmp, flow, pc>>
  <2>1. /\ Upcoming({"fp_access_check"}) /\ Rest
        /\ UNCHANGED <<is_jmp, flow, pc, phase, num_insns, pstate_ss, slots, assert_ok, flags,
                       ss_clear, printed>>
    BY <1>1 DEF FpCheck
  <2>2. EffectFacts /\ Head(todo) \in {"fp_access_check"}
    BY <2>1, BeforeEffect
  <2>3. TypeOK'
    BY <2>1, <2>2 DEF BlockInv, TypeOK, EffectFacts, flags
  <2>4. AssertsHold' /\ LeavesWithPc' /\ StepTraps'
    BY <2>1, <2>2 DEF BlockInv, EffectFacts, AssertsHold, LeavesWithPc, StepTraps, running,
                      Upcoming, flags
  <2>5. Remaining' /\ Slots'
    BY <2>1, <2>2 DEF BlockInv, EffectFacts, Remaining, Slots
  <2>6. Recording'
    BY <2>1, <2>2 DEF BlockInv, EffectFacts, Recording, running, Upcoming, RecordOf, Gotos
  <2>7. Ending'
    BY <2>1, <2>2 DEF BlockInv, EffectFacts, Ending, running, Upcoming, Exits, flags
  <2> QED
    BY <2>3, <2>4, <2>5, <2>6, <2>7 DEF BlockInv
<1>2. CASE LeaveAt("insn", "exception") /\ is_jmp' = "DISAS_EXC" /\ todo' = <<>>
  <2>1. /\ phase = "insn" /\ todo # <<>> /\ Head(todo) = "fp_access_check"
        /\ UNCHANGED <<phase, num_insns, pstate_ss, slots, assert_ok, flags, ss_clear, printed>>
    BY <1>2 DEF FpCheck, Upcoming
  <2>2. flow \notin {"skip", "skip2"}
    <3>1. todo \in Seq(Control) /\ (flow \in {"skip", "skip2"} => NoCheck(todo))
      BY DEF BlockInv, TypeOK, Remaining
    <3> QED
      BY <2>1, <3>1, FreeAhead
  <2>3. flow' \in Left /\ (~running => flow' = flow /\ pc' = pc)
        /\ (running => flow' = "exception" /\ pc' = "insn")
    BY <1>2, <2>2 DEF LeaveAt, running, Left, BlockInv, TypeOK
  <2>4. todo' \in Seq(Control)
    BY <1>2, EmptySeq
  <2>5. TypeOK'
    BY <1>2, <2>1, <2>3, <2>4 DEF BlockInv, TypeOK, flags, Jmp
  <2>6. AssertsHold' /\ LeavesWithPc' /\ StepTraps'
    BY <1>2, <2>1, <2>3 DEF BlockInv, AssertsHold, LeavesWithPc, StepTraps, running, Upcoming, flags
  <2>7. Remaining' /\ Slots' /\ Recording' /\ Ending'
    BY <1>2, <2>1, <2>3, NothingAhead
       DEF BlockInv, Remaining, Slots, Recording, Ending, running, Upcoming, Left
  <2> QED
    BY <2>5, <2>6, <2>7 DEF BlockInv
<1> QED
  BY <1>1, <1>2 DEF FpCheck

\* How a path and the translator stand after gen_goto_tb.
LEMMA GotoOutcome ==
  ASSUME TypeOK, NEW n, NEW dest, NEW near, gen_goto_tb(n, dest, near), n \notin slots
  PROVE  /\ assert_ok' = assert_ok
         /\ running => flow' \in {"chain", "step", "debug", "lookup"} /\ pc' = dest
         /\ ~running => flow' = flow /\ pc' = pc /\ ss_clear' = ss_clear
         /\ running /\ ss_active => flow' = "step" /\ ss_clear'
         /\ slots' = slots \/ (slots' = slots \cup {n} /\ is_jmp' = "DISAS_TB_JUMP")
         /\ is_jmp' \in {is_jmp, "DISAS_EXC", "DISAS_TB_JUMP"}
         /\ is_jmp' = "DISAS_TB_JUMP" => is_jmp = "DISAS_TB_JUMP" \/ (~stepping /\ ~ss_active)
         /\ pstate_ss' \in BOOLEAN /\ ss_clear' \in BOOLEAN
         /\ running /\ ~ss_active => ss_clear' = ss_clear
<1>1. assert_ok \in BOOLEAN /\ ss_clear \in BOOLEAN /\ pstate_ss \in BOOLEAN
      /\ ss_active \in BOOLEAN /\ stepping \in BOOLEAN
  BY DEF TypeOK
<1> QED
  BY <1>1 DEF gen_goto_tb, StepComplete, LeaveAt, running

\* An exit of a branch.
LEMMA GotoTbStep ==
  ASSUME BlockInv, GotoTb
  PROVE  BlockInv'
<1>1. Upcoming(Gotos) /\ Rest /\ UNCHANGED <<phase, num_insns, flags, printed>>
  BY DEF GotoTb
<1>2. EffectFacts /\ Head(todo) \in Gotos
  BY <1>1, BeforeEffect
<1>3. PICK near \in BOOLEAN :
        gen_goto_tb(IF Head(todo) = "goto_addr_1" THEN 1 ELSE 0,
                    IF Head(todo) = "goto_pc_0" THEN "next" ELSE "target", near)
  BY DEF GotoTb
<1>4. PICK n \in {0, 1}, dest \in {"next", "target"} :
        gen_goto_tb(n, dest, near) /\ n = SlotOf(Head(todo))
  BY <1>2, <1>3 DEF SlotOf, Gotos
<1>5. n \notin slots
  BY <1>2, <1>4, FreeAhead DEF BlockInv, Slots, EffectFacts
<1>6. /\ assert_ok' = assert_ok
      /\ running => flow' \in {"chain", "step", "debug", "lookup"} /\ pc' = dest
      /\ ~running => flow' = flow /\ pc' = pc /\ ss_clear' = ss_clear
      /\ running /\ ss_active => flow' = "step" /\ ss_clear'
      /\ slots' = slots \/ (slots' = slots \cup {n} /\ is_jmp' = "DISAS_TB_JUMP")
      /\ is_jmp' \in {is_jmp, "DISAS_EXC", "DISAS_TB_JUMP"}
      /\ is_jmp' = "DISAS_TB_JUMP" => is_jmp = "DISAS_TB_JUMP" \/ (~stepping /\ ~ss_active)
      /\ pstate_ss' \in BOOLEAN /\ ss_clear' \in BOOLEAN
  BY <1>4, <1>5, GotoOutcome DEF BlockInv
<1>7. SlotsFree(todo', slots \cup {n})
  BY <1>1, <1>2, <1>4, SlotTaken DEF BlockInv, Slots, EffectFacts, Rest
<1>8. TypeOK'
  BY <1>1, <1>2, <1>6 DEF BlockInv, TypeOK, EffectFacts, flags, Jmp, Left
<1>9. AssertsHold' /\ LeavesWithPc'
  BY <1>1, <1>2, <1>6 DEF BlockInv, TypeOK, EffectFacts, AssertsHold, LeavesWithPc, running,
                          Upcoming, Left, Gotos
<1>10. StepTraps'
  BY <1>1, <1>2, <1>6 DEF BlockInv, TypeOK, StepTraps, running, flags
<1>11. Remaining'
  BY <1>1, <1>2, <1>6 DEF BlockInv, EffectFacts, Remaining, running, Gotos
<1>12. Slots'
  BY <1>2, <1>6, <1>7 DEF BlockInv, Slots, EffectFacts
<1>13. Recording'
  BY <1>1, <1>2, <1>6 DEF BlockInv, EffectFacts, Recording, running, Upcoming, RecordOf, Gotos, Left
<1>14. Ending'
  <2>1. flow \in {"skip", "skip2"} => EndsInExit(todo')
    BY <1>2 DEF BlockInv, EffectFacts, Gotos, Exits
  <2>2. flow' \in Left \/ EndsInExit(todo')
    BY <1>1, <1>2, <1>6, <2>1 DEF BlockInv, TypeOK, EffectFacts, running, Left, Gotos
  <2> QED
    BY <1>1, <1>2, <1>6, <2>2 DEF BlockInv, EffectFacts, Ending, running, Upcoming, flags, Gotos
<1> QED
  BY <1>8, <1>9, <1>10, <1>11, <1>12, <1>13, <1>14 DEF BlockInv

-----------------------------------------------------------------------------
\* Between two instructions.
LEMMA InLoop ==
  ASSUME BlockInv, phase = "loop"
  PROVE  /\ todo = <<>> /\ is_jmp = "DISAS_NEXT" /\ slots = {} /\ flow \in {"run"} \cup Left
         /\ ss_active => num_insns = 0
         /\ num_insns = 0 => running /\ pc = "insn" /\ ~ss_clear
         /\ running => printed = <<>>
<1>1. todo = <<>>
  BY DEF BlockInv, Remaining
<1> QED
  BY <1>1, AtEnd DEF BlockInv, Ending, Slots, Recording, Upcoming, running, Left

\* A breakpoint of the debugger.
LEMMA BreakpointStep ==
  ASSUME BlockInv, Breakpoint
  PROVE  BlockInv'
<1>1. /\ phase = "loop" /\ num_insns' = num_insns + 1 /\ LeaveAt("insn", "debug")
      /\ is_jmp' = "DISAS_EXC" /\ phase' = "done"
      /\ UNCHANGED <<todo, pstate_ss, slots, assert_ok, flags, ss_clear, printed>>
  BY DEF Breakpoint
<1>2. /\ todo = <<>> /\ slots = {} /\ flow \in {"run"} \cup Left
      /\ ss_active => num_insns = 0
  BY <1>1, InLoop
<1>3. TypeOK'
  BY <1>1 DEF BlockInv, TypeOK, flags, LeaveAt, Jmp, Left
<1>4. AssertsHold' /\ LeavesWithPc' /\ StepTraps'
  BY <1>1, <1>2 DEF BlockInv, TypeOK, AssertsHold, LeavesWithPc, StepTraps, LeaveAt, running, Upcoming,
                    Left, flags
<1>5. Remaining' /\ Slots' /\ Recording' /\ Ending'
  BY <1>1, <1>2 DEF BlockInv, Remaining, Slots, Recording, Ending, LeaveAt, running, Upcoming, Left,
                    flags
<1> QED
  BY <1>3, <1>4, <1>5 DEF BlockInv

\* A step found pending: it is the first instruction of the block.
LEMMA ActivePendingStep ==
  ASSUME BlockInv, ActivePending
  PROVE  BlockInv'
<1>1. /\ phase = "loop" /\ ss_active /\ num_insns' = num_insns + 1
      /\ assert_ok' = (assert_ok /\ num_insns' = 1)
      /\ is_jmp' = "DISAS_EXC" /\ phase' = "tail"
      /\ UNCHANGED <<todo, pstate_ss, slots, flags, ss_clear, printed>>
  BY DEF ActivePending
<1>2. PICK cpu \in BOOLEAN, hit \in BOOLEAN :
        LeaveAt(IF cpu THEN "insn" ELSE pc, IF cpu /\ hit THEN "exception" ELSE "pending")
  BY DEF ActivePending
<1>3. /\ todo = <<>> /\ slots = {} /\ num_insns = 0 /\ flow = "run" /\ pc = "insn" /\ ~ss_clear
  BY <1>1, InLoop DEF running
<1>4. flow' \in {"exception", "pending"} /\ pc' = "insn" /\ num_insns' = 1 /\ assert_ok' = assert_ok
  BY <1>1, <1>2, <1>3 DEF LeaveAt, running, BlockInv, TypeOK
<1>5. TypeOK'
  BY <1>1, <1>4 DEF BlockInv, TypeOK, flags, Jmp, Left
<1>6. AssertsHold' /\ LeavesWithPc' /\ StepTraps'
  <2>1. AssertsHold' /\ LeavesWithPc'
    BY <1>1, <1>3, <1>4 DEF BlockInv, AssertsHold, LeavesWithPc, running, Upcoming, Left
  <2>2. num_insns' <= 1 /\ ss_clear' = ss_clear
    BY <1>1, <1>4
  <2> QED
    BY <1>3, <1>4, <2>1, <2>2 DEF StepTraps
<1>7. Remaining' /\ Slots' /\ Recording' /\ Ending'
  BY <1>1, <1>3, <1>4 DEF BlockInv, Remaining, Slots, Recording, Ending, running, Upcoming, Left
<1> QED
  BY <1>5, <1>6, <1>7 DEF BlockInv

\* The next instruction: any one whose control flow is in order.
LEMMA FetchStep ==
  ASSUME BlockInv, Fetch
  PROVE  BlockInv'
<1>1. /\ phase = "loop" /\ num_insns' = num_insns + 1 /\ todo' \in insns
      /\ printed' = <<>> /\ phase' = "insn"
      /\ UNCHANGED <<pstate_ss, slots, assert_ok, flags, ss_clear>>
  BY DEF Fetch
<1>2. PICK cpu \in BOOLEAN, hit \in BOOLEAN :
        /\ hit => cpu
        /\ is_jmp' = IF cpu THEN "DISAS_UPDATE" ELSE is_jmp
        /\ flow' = IF running /\ hit THEN "exception" ELSE flow
        /\ pc' = IF ~running THEN pc ELSE IF cpu \/ num_insns = 0 THEN "insn" ELSE "stale"
  BY DEF Fetch
<1>3. /\ todo = <<>> /\ is_jmp = "DISAS_NEXT" /\ slots = {} /\ flow \in {"run"} \cup Left
      /\ ss_active => num_insns = 0
  BY <1>1, InLoop
<1>4. /\ todo' \in Seq(Control) /\ WellFormed(todo')
      /\ todo' # <<>> => todo'[1] \notin {"helper", "DISAS_JUMP"} \cup Gotos
  BY <1>1, InsnsAssumption
<1>5. todo' # <<>> => Head(todo') \notin {"helper", "DISAS_JUMP"} \cup Gotos
  BY <1>4, TailIs
<1>6. SlotsFree(todo', {})
  BY DEF SlotsFree
<1>7. TypeOK'
  <2>1. printed' \in Seq({"printer_0", "printer_1"})
    BY <1>1, EmptySeq
  <2> QED
    BY <1>1, <1>2, <1>4, <2>1 DEF BlockInv, TypeOK, flags, Jmp, Left
<1>8. AssertsHold' /\ LeavesWithPc'
  BY <1>1, <1>2, <1>3, <1>5 DEF BlockInv, AssertsHold, LeavesWithPc, running, Upcoming, Left
<1>9. StepTraps'
  BY <1>1, <1>2, <1>3 DEF BlockInv, TypeOK, StepTraps, running, flags
<1>10. Remaining' /\ Slots'
  BY <1>1, <1>2, <1>3, <1>4, <1>6 DEF BlockInv, Remaining, Slots, Left
<1>11. Recording'
  BY <1>1, <1>5 DEF Recording, Upcoming
<1>12. num_insns' # 0
  BY <1>1 DEF BlockInv, TypeOK
<1>13. Ending'
  BY <1>1, <1>2, <1>3, <1>5, <1>12 DEF Ending, Upcoming
<1> QED
  BY <1>7, <1>8, <1>9, <1>10, <1>11, <1>13 DEF BlockInv

\* The instruction is done; another one only if the guest does not step.
LEMMA EndInsnStep ==
  ASSUME BlockInv, EndInsn
  PROVE  BlockInv'
<1>1. /\ phase = "insn" /\ todo = <<>>
      /\ \/ is_jmp = "DISAS_NEXT" /\ ~ss_active /\ phase' = "loop"
         \/ phase' = "tail"
      /\ UNCHANGED <<todo, num_insns, is_jmp, pstate_ss, slots, assert_ok, flags, path>>
  BY DEF EndInsn
<1>2. TypeOK'
  BY <1>1 DEF BlockInv, TypeOK, flags, path
<1>3. AssertsHold' /\ LeavesWithPc' /\ StepTraps'
  BY <1>1 DEF BlockInv, AssertsHold, LeavesWithPc, StepTraps, running, Upcoming, flags, path
<1>4. Remaining' /\ Slots' /\ Recording' /\ Ending'
  BY <1>1 DEF BlockInv, Remaining, Slots, Recording, Ending, running, Upcoming, flags, path
<1> QED
  BY <1>2, <1>3, <1>4 DEF BlockInv

-----------------------------------------------------------------------------
\* After the loop.
LEMMA InTail ==
  ASSUME BlockInv, phase = "tail"
  PROVE  /\ todo = <<>> /\ flow \in {"run"} \cup Left
         /\ is_jmp \in {"DISAS_EXC", "DISAS_TB_JUMP"} => flow \in Left
         /\ is_jmp = "DISAS_JUMP" /\ running => pc = "target"
         /\ is_jmp = "DISAS_TB_JUMP" => ~stepping /\ ~ss_active
         /\ is_jmp = "DISAS_NEXT" => slots = {}
<1>1. todo = <<>>
  BY DEF BlockInv, Remaining
<1> QED
  BY <1>1, AtEnd DEF BlockInv, Ending, Slots

\* The block is complete once the path has left it, with the PC of an
\* instruction not yet executed.
LEMMA DoneStep ==
  ASSUME BlockInv, phase = "tail", phase' = "done", TypeOK', assert_ok' = assert_ok,
         UNCHANGED <<todo, num_insns, flags, printed>>,
         flow' \in Left, ~running => flow' = flow /\ pc' = pc /\ ss_clear' = ss_clear,
         running => pc' \in {"next", "target"} /\ flow' \notin {"pending"},
         ss_active /\ running => flow' \in {"step", "debug"} /\ (flow' = "step" => ss_clear'),
         is_jmp' = "DISAS_TB_JUMP" => ~stepping /\ ~ss_active,
         slots' # {} => is_jmp' # "DISAS_NEXT"
  PROVE  BlockInv'
<1>1. todo = <<>> /\ todo' = <<>>
  BY InTail
<1>2. AssertsHold' /\ LeavesWithPc'
  BY <1>1 DEF BlockInv, AssertsHold, LeavesWithPc, running, Upcoming, Left
<1>3. StepTraps'
  BY DEF BlockInv, StepTraps, running, flags
<1>4. Remaining' /\ Slots' /\ Recording' /\ Ending'
  BY <1>1, NothingAhead DEF Remaining, Slots, Recording, Ending, running, Upcoming, Left, flags
<1> QED
  BY <1>2, <1>3, <1>4 DEF BlockInv

\* Under either kind of stepping.
LEMMA TailSteppingStep ==
  ASSUME BlockInv, TailStepping
  PROVE  BlockInv'
<1>1. /\ phase = "tail" /\ (stepping \/ ss_active) /\ is_jmp # "DISAS_EXC"
      /\ assert_ok' = (assert_ok /\ is_jmp # "DISAS_TB_JUMP") /\ phase' = "done"
      /\ UNCHANGED <<todo, num_insns, slots, flags, printed>>
  BY DEF TailStepping
<1>2. PICK dest : /\ dest = IF is_jmp = "DISAS_JUMP" THEN pc ELSE "next"
                  /\ IF stepping
                     THEN LeaveAt(dest, "debug") /\ UNCHANGED <<is_jmp, pstate_ss, ss_clear>>
                     ELSE StepComplete(dest)
  BY DEF TailStepping
<1>3. /\ flow \in {"run"} \cup Left /\ is_jmp # "DISAS_TB_JUMP"
      /\ is_jmp = "DISAS_JUMP" /\ running => pc = "target"
      /\ is_jmp = "DISAS_NEXT" => slots = {}
  BY <1>1, InTail
<1>4. assert_ok' = assert_ok
  BY <1>1, <1>3 DEF BlockInv, TypeOK
<1>5. running => dest \in {"next", "target"}
  BY <1>2, <1>3
<1>6. /\ running => flow' \in {"step", "debug"} /\ pc' = dest
      /\ running => (flow' = "step" => ss_clear')
      /\ ~running => flow' = flow /\ pc' = pc /\ ss_clear' = ss_clear
      /\ is_jmp' \in {is_jmp, "DISAS_EXC"}
      /\ pstate_ss' \in BOOLEAN /\ ss_clear' \in BOOLEAN
  BY <1>2 DEF LeaveAt, StepComplete, running, BlockInv, TypeOK
<1>7. TypeOK'
  BY <1>1, <1>3, <1>4, <1>5, <1>6 DEF BlockInv, TypeOK, flags, Left, Jmp, running
<1>8. flow' \in Left
  BY <1>3, <1>6 DEF Left, running
<1> QED
  BY <1>1, <1>3, <1>4, <1>5, <1>6, <1>7, <1>8, DoneStep

\* The next block, in order.
LEMMA TailNextStep ==
  ASSUME BlockInv, TailNext
  PROVE  BlockInv'
<1>1. /\ phase = "tail" /\ ~stepping /\ ~ss_active /\ is_jmp = "DISAS_NEXT" /\ phase' = "done"
      /\ UNCHANGED <<todo, num_insns, flags, printed>>
  BY DEF TailNext
<1>2. PICK near : gen_goto_tb(1, "next", near)
  BY DEF TailNext
<1>3. flow \in {"run"} \cup Left /\ slots = {}
  BY <1>1, InTail
<1>4. /\ assert_ok' = assert_ok
      /\ running => flow' \in {"chain", "step", "debug", "lookup"} /\ pc' = "next"
      /\ ~running => flow' = flow /\ pc' = pc /\ ss_clear' = ss_clear
      /\ slots' = slots \/ (slots' = slots \cup {1} /\ is_jmp' = "DISAS_TB_JUMP")
      /\ is_jmp' \in {is_jmp, "DISAS_EXC", "DISAS_TB_JUMP"}
      /\ pstate_ss' \in BOOLEAN /\ ss_clear' \in BOOLEAN
  BY <1>2, <1>3, GotoOutcome DEF BlockInv
<1>5. TypeOK'
  BY <1>1, <1>3, <1>4 DEF BlockInv, TypeOK, flags, Left, Jmp, running
<1>6. flow' \in Left
  BY <1>3, <1>4 DEF Left, running
<1>7. slots' # {} => is_jmp' # "DISAS_NEXT"
  BY <1>3, <1>4
<1> QED
  BY <1>1, <1>4, <1>5, <1>6, <1>7, DoneStep

\* Back to the main loop.
LEMMA TailExitStep ==
  ASSUME BlockInv, TailExit
  PROVE  BlockInv'
<1>1. /\ phase = "tail" /\ ~stepping /\ ~ss_active /\ phase' = "done"
      /\ is_jmp \in {"DISAS_UPDATE", "DISAS_JUMP", "DISAS_WFE", "DISAS_YIELD", "DISAS_WFI"}
      /\ UNCHANGED <<todo, num_insns, is_jmp, pstate_ss, slots, assert_ok, flags, ss_clear, printed>>
  BY DEF TailExit
<1>2. PICK how \in {"wait", "lookup"} : LeaveAt(IF is_jmp = "DISAS_JUMP" THEN pc ELSE "next", how)
  BY DEF TailExit
<1>3. flow \in {"run"} \cup Left /\ (is_jmp = "DISAS_JUMP" /\ running => pc = "target")
  BY <1>1, InTail
<1>4. /\ running => flow' \in {"wait", "lookup"} /\ pc' \in {"next", "target"}
      /\ ~running => flow' = flow /\ pc' = pc /\ ss_clear' = ss_clear
  BY <1>1, <1>2, <1>3 DEF LeaveAt, running
<1>5. TypeOK'
  BY <1>1, <1>3, <1>4 DEF BlockInv, TypeOK, flags, Left, running
<1>6. flow' \in Left
  BY <1>3, <1>4 DEF Left, running
<1>7. slots' # {} => is_jmp' # "DISAS_NEXT"
  BY <1>1
<1> QED
  BY <1>1, <1>4, <1>5, <1>6, <1>7, DoneStep

\* Nothing is left to emit.
LEMMA TailNothingStep ==
  ASSUME BlockInv, TailNothing
  PROVE  BlockInv'
<1>1. /\ phase = "tail" /\ is_jmp \in {"DISAS_EXC", "DISAS_TB_JUMP"} /\ phase' = "done"
      /\ UNCHANGED <<todo, num_insns, is_jmp, pstate_ss, slots, assert_ok, flags, path>>
  BY DEF TailNothing
<1>2. flow \in Left /\ ~running /\ (is_jmp = "DISAS_TB_JUMP" => ~stepping /\ ~ss_active)
  BY <1>1, InTail DEF running, Left
<1>3. TypeOK'
  BY <1>1 DEF BlockInv, TypeOK, flags, path
<1>4. flow' = flow /\ pc' = pc /\ ss_clear' = ss_clear /\ printed' = printed
  BY <1>1 DEF path
<1> QED
  BY <1>1, <1>2, <1>3, <1>4, DoneStep

-----------------------------------------------------------------------------
\* A block starts with nothing translated and the PC of its first instruction.
LEMMA InitBlockInv == Init => BlockInv
<1> SUFFICES ASSUME Init PROVE BlockInv
  OBVIOUS
<1>1. TypeOK
  <2>1. todo \in Seq(Control) /\ printed \in Seq({"printer_0", "printer_1"})
    BY EmptySeq DEF Init
  <2> QED
    BY <2>1 DEF Init, TypeOK, Jmp
<1>2. AssertsHold /\ LeavesWithPc /\ StepTraps
  BY DEF Init, AssertsHold, LeavesWithPc, StepTraps, Upcoming, Left
<1>3. Remaining /\ Recording /\ Ending /\ Slots
  BY NothingAhead DEF Init, Remaining, Recording, Ending, Slots, Upcoming, running
<1> QED
  BY <1>1, <1>2, <1>3 DEF BlockInv

\* Every step keeps the invariant.
LEMMA NextBlockInv == BlockInv /\ [Next]_vars => BlockInv'
<1> SUFFICES ASSUME BlockInv, [Next]_vars PROVE BlockInv'
  OBVIOUS
<1>1. CASE UNCHANGED vars
  <2>1. TypeOK' /\ AssertsHold' /\ LeavesWithPc' /\ StepTraps'
    BY <1>1 DEF vars, flags, path, BlockInv, TypeOK, AssertsHold, LeavesWithPc, StepTraps, Upcoming,
                running
  <2>2. Remaining' /\ Recording' /\ Ending' /\ Slots'
    BY <1>1 DEF vars, flags, path, BlockInv, Remaining, Recording, Ending, Slots, Upcoming, running
  <2> QED
    BY <2>1, <2>2 DEF BlockInv
<1>2. CASE Breakpoint \/ ActivePending \/ Fetch \/ EndInsn
  BY <1>2, BreakpointStep, ActivePendingStep, FetchStep, EndInsnStep
<1>3. CASE Exception \/ FpCheck \/ SetPc \/ Helper \/ gen_ss_advance \/ Jump \/ Printer \/ GotoTb
           \/ SetIsJmp
  BY <1>3, ExceptionStep, FpCheckStep, SetPcStep, HelperStep, gen_ss_advanceStep, JumpStep,
     PrinterStep, GotoTbStep, SetIsJmpStep
<1>4. CASE TailStepping \/ TailNext \/ TailExit \/ TailNothing
  BY <1>4, TailSteppingStep, TailNextStep, TailExitStep, TailNothingStep
<1> QED
  BY <1>1, <1>2, <1>3, <1>4 DEF Next

\* The invariant holds throughout a translation.
LEMMA BlockInvariant == Spec => []BlockInv
BY InitBlockInv, NextBlockInv, PTL DEF Spec

\* The asserts of gen_intermediate_code_a64 and of TCG hold in every block, of
\* whatever instructions in order it is made: a pending step is found at the
\* first one only, and no goto_tb slot is emitted twice.
THEOREM BlockAsserts == Spec => []AssertsHold
BY BlockInvariant, PTL DEF BlockInv

\* Whichever way the emitted jumps go, the path leaves the block, and with the
\* PC of an instruction not yet executed in the CPU state.
THEOREM BlockLeaves == Spec => []LeavesWithPc
BY BlockInvariant, PTL DEF BlockInv

\* Under the architecture's single step every block is one instruction and ends
\* in an exception, PSTATE.SS having been cleared by the code of a completed step
\* and not by that of a pending one.
THEOREM BlockSteps == Spec => []StepTraps
BY BlockInvariant, PTL DEF BlockInv

\* A path that leaves by an exit of an immediate branch has made one record in
\* this instruction, the one that says which way it goes.
THEOREM BlockRecords == Spec => []BranchRecorded
<1>1. BlockInv => BranchRecorded
  BY DEF BlockInv, Recording, BranchRecorded, running, Left
<1> QED
  BY <1>1, BlockInvariant, PTL
=============================================================================
