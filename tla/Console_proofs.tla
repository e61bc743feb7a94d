---------------------------- MODULE Console_proofs ----------------------------
(***************************************************************************)
(* Proofs about the console as a whole: its pages for the prices and the   *)
(* playground, and what the pages keep together, whichever is open.        *)
(***************************************************************************)
EXTENDS MC_Console, ConsolePages_proofs

-----------------------------------------------------------------------------
(* The prices.                                                             *)

\* The console and the engine make a number of every text.
LEMMA TimesAreNumbers ==
    ASSUME NEW t \in Texts
    PROVE  parseMinutes(t) \in Int /\ parseTimeToMinutes(t) \in Int
<1>1. CASE t \in {Blank, Garbled}
  BY <1>1 DEF parseMinutes, parseTimeToMinutes, NoTime
<1>2. CASE t \notin {Blank, Garbled}
  <2>1. t.h \in Halves /\ t.m \in Halves
    BY <1>2 DEF Texts
  <2>2. t.h.atoi \in Int /\ t.m.atoi \in Int /\ HourLength \in Int
    BY <2>1, SlotsAssumption DEF Halves
  <2>3. parseTimeToMinutes(t) \in Int
    BY <1>2, <2>2 DEF parseTimeToMinutes
  <2>4. parseMinutes(t) \in Int
    BY <2>2, SlotsAssumption DEF parseMinutes, NoTime
  <2> QED
    BY <2>3, <2>4
<1> QED
  BY <1>1, <1>2

\* The minutes of a window are those of its segments.
LEMMA WindowIsItsSegments ==
    ASSUME NEW from \in Int, NEW to \in Int, from # to,
           NEW minute \in 0..(DayLength - 1), Covers(from, to, minute)
    PROVE  \E seg \in Segments(from, to) :
              seg[1] \in Int /\ seg[2] \in Int /\ seg[1] <= minute /\ minute < seg[2]
<1>1. minute \in Nat /\ DayLength \in Int /\ minute < DayLength
  BY SlotsAssumption DEF DayLength
<1>2. CASE from < to
  <2>1. Segments(from, to) = {<<from, to>>}
    BY <1>2 DEF Segments
  <2>2. from <= minute /\ minute < to
    BY <1>1, <1>2 DEF Covers
  <2> QED
    BY <2>1, <2>2
<1>3. CASE ~(from < to)
  <2>1. Segments(from, to) = {<<from, DayLength>>, <<0, to>>}
    BY <1>3 DEF Segments
  <2>2. from <= minute \/ minute < to
    BY <1>1, <1>3 DEF Covers
  <2> QED
    BY <1>1, <2>1, <2>2
<1> QED
  BY <1>2, <1>3

\* Two windows that apply at one minute have a day in common and meet.
LEMMA WindowsThatApplyMeet ==
    ASSUME NEW s1 \in Slots, NEW s2 \in Slots,
           parseTimeToMinutes(s1.start) # parseTimeToMinutes(s1.end),
           parseTimeToMinutes(s2.start) # parseTimeToMinutes(s2.end),
           NEW day \in Days, NEW minute \in 0..(DayLength - 1),
           Applies(s1, day, minute), Applies(s2, day, minute)
    PROVE  ShareADay(s1, s2) /\ Meet(getIntervals(s1), getIntervals(s2))
<1>1. ShareADay(s1, s2)
  BY DEF Applies, DaysOf, ShareADay
<1>2. \A s \in {s1, s2} : parseTimeToMinutes(s.start) \in Int /\ parseTimeToMinutes(s.end) \in Int
  BY TimesAreNumbers DEF Slots
<1>3. PICK a \in getIntervals(s1) : a[1] \in Int /\ a[2] \in Int /\ a[1] <= minute /\ minute < a[2]
  BY <1>2, WindowIsItsSegments DEF Applies, getIntervals
<1>4. PICK b \in getIntervals(s2) : b[1] \in Int /\ b[2] \in Int /\ b[1] <= minute /\ minute < b[2]
  BY <1>2, WindowIsItsSegments DEF Applies, getIntervals
<1>5. minute \in Int
  OBVIOUS
<1>6. a[1] < a[2] /\ a[1] < b[2] /\ b[1] < a[2] /\ b[1] < b[2]
  BY <1>3, <1>4, <1>5
<1> QED
  BY <1>1, <1>6 DEF Meet

\* Windows the engine reads as proper and apart leave it no choice.
LEMMA ApartIsUnambiguous ==
    ASSUME NEW slots \in Seq(Slots),
           \A i, j \in DOMAIN slots : j > i =>
               /\ parseTimeToMinutes(slots[i].start) # parseTimeToMinutes(slots[i].end)
               /\ parseTimeToMinutes(slots[j].start) # parseTimeToMinutes(slots[j].end)
               /\ ~ShareADay(slots[i], slots[j]) \/ ~Meet(getIntervals(slots[i]), getIntervals(slots[j]))
    PROVE  Unambiguous(slots)
<1> SUFFICES ASSUME NEW day \in Days, NEW minute \in 0..(DayLength - 1),
                    NEW i \in DOMAIN slots, NEW j \in DOMAIN slots,
                    Applies(slots[i], day, minute), Applies(slots[j], day, minute), i # j
             PROVE  FALSE
  BY DEF Unambiguous
<1>1. i \in Nat /\ j \in Nat /\ slots[i] \in Slots /\ slots[j] \in Slots
  OBVIOUS
<1>2. CASE j > i
  BY <1>1, <1>2, WindowsThatApplyMeet
<1>3. CASE i > j
  BY <1>1, <1>3, WindowsThatApplyMeet
<1> QED
  BY <1>1, <1>2, <1>3

\* The server's check is as strong as it has to be: the engine never has to
\* choose between two windows of a list it accepts, whatever the texts.
THEOREM ServerCheckMakesUnambiguous ==
    ASSUME NEW slots \in Seq(Slots), ValidateSlotsOverlap(slots)
    PROVE  Unambiguous(slots)
<1>1. CASE Len(slots) < 2
  BY <1>1 DEF Unambiguous
<1>2. CASE ~(Len(slots) < 2)
  <2>1. \A i, j \in DOMAIN slots : j > i =>
            /\ IsInterval(slots[i]) /\ IsInterval(slots[j])
            /\ ~ShareADay(slots[i], slots[j]) \/ ~Meet(getIntervals(slots[i]), getIntervals(slots[j]))
    BY <1>2 DEF ValidateSlotsOverlap
  <2> QED
    BY <2>1, ApartIsUnambiguous DEF IsInterval
<1> QED
  BY <1>1, <1>2

\* So is the form's check, of texts the console and the engine read alike.
THEOREM ChecksMakeUnambiguous ==
    ASSUME NEW slots \in Seq(Slots), checkSlotsOverlap(slots), ReadAlike(slots)
    PROVE  Unambiguous(slots)
<1>1. CASE Len(slots) < 2
  BY <1>1 DEF Unambiguous
<1>2. CASE ~(Len(slots) < 2)
  <2>1. \A i \in DOMAIN slots :
            /\ parseMinutes(slots[i].start) = parseTimeToMinutes(slots[i].start)
            /\ parseMinutes(slots[i].end) = parseTimeToMinutes(slots[i].end)
    BY DEF ReadAlike
  <2>2. \A i \in DOMAIN slots :
            /\ parseTimeToMinutes(slots[i].start) # parseTimeToMinutes(slots[i].end)
            /\ SegmentsShown(slots[i]) = getIntervals(slots[i])
    BY <1>2, <2>1 DEF checkSlotsOverlap, Valid, SegmentsShown, getIntervals
  <2>3. \A i, j \in DOMAIN slots : j > i =>
            ~ShareADay(slots[i], slots[j]) \/ ~Meet(SegmentsShown(slots[i]), SegmentsShown(slots[j]))
    BY <1>2 DEF checkSlotsOverlap
  <2> QED
    BY <2>2, <2>3, ApartIsUnambiguous
<1> QED
  BY <1>1, <1>2

-----------------------------------------------------------------------------
\* Every save that is sent was checked by the form; the other requests carry
\* no rule.
CallChecked(c) ==
    IF c.op = "save" THEN ReadAlike(c.rule.slots) => Unambiguous(c.rule.slots) ELSE c.rule = NoRule

\* The invariant: the types, every rule that is stored was accepted, and every
\* request that is out was checked.
RulesAccepted == \A k \in Keys : rules[k] # NoRule => Saveable(rules[k])
CallsChecked == \A c \in priceCalls : CallChecked(c)
PricingInv == PricingTypeOK /\ RulesAccepted /\ CallsChecked

\* A request with its types.
CallTyped(c) ==
    /\ c.op \in {"list", "save", "delete", "batch"}
    /\ c.keys \subseteq Keys
    /\ c.rule \in Rules \cup {NoRule}
    /\ c.reply \in [served : BOOLEAN, ok : BOOLEAN, rows : [Keys -> Rules \cup {NoRule}]]

LEMMA NewPriceCalls ==
    /\ ListCall.op = "list" /\ CallTyped(ListCall) /\ CallChecked(ListCall)
    /\ \A op \in {"save", "delete", "batch"}, keys \in SUBSET Keys, rule \in Rules \cup {NoRule} :
           /\ Call(op, keys, rule).op = op /\ Call(op, keys, rule).rule = rule
           /\ CallTyped(Call(op, keys, rule))
  BY DEF ListCall, Call, CallTyped, CallChecked, Unanswered

\* What a new state has to show when the rules are left alone.
LEMMA PricingInvSteps ==
    ASSUME PricingInv, PricingTypeOK', UNCHANGED rules, \A c \in priceCalls' : CallChecked(c)
    PROVE  PricingInv'
  BY DEF PricingInv, RulesAccepted, CallsChecked, CallChecked

LEMMA PricingInitHolds == PricingInit => PricingInv
<1> SUFFICES ASSUME PricingInit PROVE PricingInv
  OBVIOUS
<1>1. priceForm = [open |-> FALSE, editing |-> NoRule, group |-> DefaultGroup, model |-> NoModel,
                   offPeak |-> TRUE, slots |-> <<DefaultSlot>>]
  BY DEF PricingInit, ClosedForm
<1>2. <<DefaultSlot>> \in Seq(Slots)
  BY PricingAssumption
<1>3. priceForm \in [open : BOOLEAN, editing : Keys \cup {NoRule}, group : Groups,
                     model : Models \cup {NoModel}, offPeak : BOOLEAN, slots : Seq(Slots)]
  BY <1>1, <1>2, PricingAssumption
<1>4. priceCalls = {ListCall} /\ CallTyped(ListCall) /\ CallChecked(ListCall)
  BY NewPriceCalls DEF PricingInit
<1>5. rules \in [Keys -> Rules \cup {NoRule}] /\ prices \in [Keys -> Rules \cup {NoRule}]
  BY PricingAssumption DEF PricingInit
<1>6. RulesAccepted
  BY PricingAssumption DEF PricingInit, RulesAccepted
<1> QED
  BY <1>3, <1>4, <1>5, <1>6 DEF PricingInit, PricingInv, PricingTypeOK, CallsChecked, CallTyped

\* What the server and the network do.
LEMMA PriceAnswerHolds == PricingInv /\ Answer => PricingInv'
<1> SUFFICES ASSUME PricingInv, Answer PROVE PricingInv'
  OBVIOUS
<1>1. PICK c \in priceCalls, done \in BOOLEAN, ok \in BOOLEAN :
        /\ done => AcceptsCall(c)
        /\ rules' = IF done THEN AfterCall(c) ELSE rules
        /\ priceCalls' = (priceCalls \ {c})
                \cup {[c EXCEPT !.reply = [served |-> TRUE, ok |-> ok, rows |-> rules']]}
        /\ UNCHANGED <<prices, groupFilter, selectedKeys, priceForm, loadingPrices, saving, pricingSteps>>
  BY DEF Answer
<1>2. CallTyped(c) /\ CallChecked(c)
  BY DEF PricingInv, PricingTypeOK, CallsChecked, CallTyped
<1>3. rules' \in [Keys -> Rules \cup {NoRule}]
  BY <1>1, <1>2 DEF PricingInv, PricingTypeOK, AfterCall, CallTyped
<1> DEFINE d == [c EXCEPT !.reply = [served |-> TRUE, ok |-> ok, rows |-> rules']]
<1>4. d.op = c.op /\ d.rule = c.rule /\ CallTyped(d)
  BY <1>2, <1>3 DEF CallTyped
<1>5. PricingTypeOK'
  BY <1>1, <1>3, <1>4 DEF PricingInv, PricingTypeOK, CallTyped
<1>6. CallChecked(d)
  BY <1>2, <1>4 DEF CallChecked
<1>7. CallsChecked'
  <2> HIDE DEF d
  <2>1. priceCalls' = (priceCalls \ {c}) \cup {d}
    BY <1>1 DEF d
  <2>2. \A e \in priceCalls' : CallChecked(e)
    BY <1>6, <2>1 DEF PricingInv, CallsChecked
  <2> QED
    BY <2>2 DEF CallsChecked, CallChecked
<1>8. RulesAccepted'
  <2>1. CASE ~done \/ c.op = "list"
    BY <1>1, <2>1 DEF AfterCall, PricingInv, RulesAccepted, Saveable
  <2>2. CASE done /\ c.op # "list"
    <3>1. \A k \in Keys : rules'[k] = IF k \in c.keys THEN c.rule ELSE rules[k]
      BY <1>1, <2>2 DEF AfterCall
    <3>2. c.rule # NoRule => Saveable(c.rule)
      BY <1>1, <1>2, <2>2 DEF AcceptsCall, CallChecked
    <3> QED
      BY <3>1, <3>2 DEF PricingInv, RulesAccepted, Saveable
  <2> QED
    BY <2>1, <2>2
<1> QED
  BY <1>5, <1>7, <1>8 DEF PricingInv

LEMMA PriceReturnsHold == PricingInv /\ (ListArrives \/ SaveReturns \/ DeleteReturns) => PricingInv'
<1> SUFFICES ASSUME PricingInv, ListArrives \/ SaveReturns \/ DeleteReturns PROVE PricingInv'
  OBVIOUS
<1>1. PICK c \in priceCalls : priceCalls' \in {priceCalls \ {c}, (priceCalls \ {c}) \cup {ListCall}}
  BY DEF ListArrives, SaveReturns, DeleteReturns, Returned, fetchPrices
<1>2. CallTyped(ListCall) /\ CallChecked(ListCall)
  BY NewPriceCalls
<1>3. \A d \in priceCalls' : CallTyped(d) /\ CallChecked(d)
  BY <1>1, <1>2 DEF PricingInv, PricingTypeOK, CallsChecked, CallTyped
<1>4. /\ rules' = rules /\ groupFilter' = groupFilter /\ pricingSteps' = pricingSteps
      /\ prices' \in [Keys -> Rules \cup {NoRule}]
      /\ selectedKeys' \in {selectedKeys, {}}
      /\ priceForm' \in {priceForm, [priceForm EXCEPT !.open = FALSE]}
      /\ saving' \in {saving, FALSE} /\ loadingPrices' \in BOOLEAN
  BY DEF ListArrives, SaveReturns, DeleteReturns, Returned, fetchPrices, PricingInv, PricingTypeOK
<1>5. PricingTypeOK'
  BY <1>3, <1>4 DEF PricingInv, PricingTypeOK, CallTyped
<1> QED
  BY <1>3, <1>4, <1>5, PricingInvSteps

-----------------------------------------------------------------------------
\* The table: the form is left alone or opened with windows; what is sent is
\* no save.
LEMMA PriceTableHolds ==
    ASSUME PricingInv, pricingSteps' = pricingSteps + 1,
           \/ Refresh \/ FilterGroup \/ TickAll \/ TickRow \/ Untick \/ Delete \/ BatchDelete
           \/ handleOpenAdd \/ handleOpenEdit
    PROVE  PricingInv'
<1> USE DEF PricingInv
<1>1. rules' = rules /\ prices' = prices /\ saving' = saving /\ loadingPrices' \in BOOLEAN
  BY DEF Refresh, FilterGroup, TickAll, TickRow, Untick, Delete, BatchDelete, handleOpenAdd, handleOpenEdit,
         fetchPrices, PricingTypeOK
<1>2. filteredPrices \subseteq Keys
  BY DEF filteredPrices, Configured
<1>3. groupFilter' \in {"all"} \cup Groups
  <2>1. availableGroups \subseteq Groups
    BY PricingAssumption DEF availableGroups, Configured, Keys
  <2> QED
    BY <2>1 DEF Refresh, FilterGroup, TickAll, TickRow, Untick, Delete, BatchDelete, handleOpenAdd,
       handleOpenEdit, PricingTypeOK
<1>4. selectedKeys' \subseteq Keys
  BY <1>2 DEF Refresh, FilterGroup, TickAll, TickRow, Untick, Delete, BatchDelete, handleOpenAdd,
     handleOpenEdit, PricingTypeOK
<1>5. priceForm' \in [open : BOOLEAN, editing : Keys \cup {NoRule}, group : Groups,
                      model : Models \cup {NoModel}, offPeak : BOOLEAN, slots : Seq(Slots)]
  <2>1. CASE handleOpenAdd
    <3> DEFINE g == IF groupFilter # "all" THEN groupFilter ELSE DefaultGroup
    <3>1. g \in Groups
      BY PricingAssumption DEF PricingTypeOK
    <3>2. priceForm' = [ClosedForm EXCEPT !.open = TRUE, !.group = g]
      BY <2>1 DEF handleOpenAdd
    <3> HIDE DEF g
    <3>3. priceForm' = [open |-> TRUE, editing |-> NoRule, group |-> g, model |-> NoModel,
                        offPeak |-> TRUE, slots |-> <<DefaultSlot>>]
      BY <3>2 DEF ClosedForm
    <3>4. <<DefaultSlot>> \in Seq(Slots)
      BY PricingAssumption
    <3> QED
      BY <3>1, <3>3, <3>4
  <2>2. CASE handleOpenEdit
    <3>1. PICK k \in RowsOffered :
             priceForm' = [open |-> TRUE, editing |-> k, group |-> k[1], model |-> k[2],
                           offPeak |-> prices[k].offPeak, slots |-> parseSlotsFromPrice(prices[k])]
      BY <2>2 DEF handleOpenEdit
    <3>2. k \in Keys /\ prices[k] \in Rules
      BY <1>2 DEF RowsOffered, filteredPrices, Configured, PricingTypeOK
    <3>3. parseSlotsFromPrice(prices[k]) \in Seq(Slots) /\ prices[k].offPeak \in BOOLEAN
      BY <3>2, PricingAssumption DEF parseSlotsFromPrice, Rules
    <3> QED
      BY <3>1, <3>2, <3>3 DEF Keys
  <2> QED
    BY <2>1, <2>2 DEF Refresh, FilterGroup, TickAll, TickRow, Untick, Delete, BatchDelete, PricingTypeOK
<1>6. PICK op \in {"delete", "batch"}, keys \in SUBSET Keys :
        priceCalls' \in {priceCalls, priceCalls \cup {ListCall}, priceCalls \cup {Call(op, keys, NoRule)}}
  <2>1. CASE Refresh
    BY <2>1 DEF Refresh, fetchPrices
  <2>2. CASE Delete
    BY <2>2, <1>2 DEF Delete, Send, RowsOffered
  <2>3. CASE BatchDelete
    BY <2>3 DEF BatchDelete, Send, PricingTypeOK
  <2> QED
    BY <2>1, <2>2, <2>3 DEF FilterGroup, TickAll, TickRow, Untick, handleOpenAdd, handleOpenEdit
<1>7. \A d \in priceCalls' : CallTyped(d) /\ CallChecked(d)
  <2> DEFINE c == Call(op, keys, NoRule)
  <2>1. c.op = op /\ c.rule = NoRule /\ CallTyped(c) /\ CallTyped(ListCall) /\ CallChecked(ListCall)
    BY NewPriceCalls
  <2>2. op # "save"
    OBVIOUS
  <2> HIDE DEF c
  <2>3. priceCalls' \in {priceCalls, priceCalls \cup {ListCall}, priceCalls \cup {c}}
    BY <1>6 DEF c
  <2>4. \A d \in priceCalls : CallTyped(d) /\ CallChecked(d)
    BY DEF PricingTypeOK, CallsChecked, CallTyped
  <2>5. CallChecked(c)
    BY <2>1, <2>2 DEF CallChecked
  <2> QED
    BY <2>1, <2>3, <2>4, <2>5
<1>8. PricingTypeOK'
  BY <1>1, <1>3, <1>4, <1>5, <1>7 DEF PricingTypeOK, CallTyped
<1> QED
  BY <1>1, <1>7, <1>8, PricingInvSteps

\* A gesture in the form sends nothing, and windows stay windows.
LEMMA PriceFormHolds ==
    ASSUME PricingInv, pricingSteps' = pricingSteps + 1,
           \/ CancelForm \/ TypeModel \/ TypeGroup \/ SwitchOffPeak
           \/ handleAddSlot \/ handleRemoveSlot \/ handleUpdateSlot \/ toggleSlotDay
    PROVE  PricingInv'
<1> USE DEF PricingInv
<1> DEFINE Form == [open : BOOLEAN, editing : Keys \cup {NoRule}, group : Groups,
                    model : Models \cup {NoModel}, offPeak : BOOLEAN, slots : Seq(Slots)]
<1>1. UNCHANGED <<rules, prices, groupFilter, selectedKeys, loadingPrices, saving, priceCalls>>
  BY DEF CancelForm, TypeModel, TypeGroup, SwitchOffPeak, handleAddSlot, handleRemoveSlot, handleUpdateSlot,
         toggleSlotDay, EditSlots, EditForm
<1>2. priceForm \in Form /\ priceForm.slots \in Seq(Slots)
  BY DEF PricingTypeOK
<1>3. \A slots \in Seq(Slots) : EditSlots(slots) => priceForm' \in Form
  BY <1>2 DEF EditSlots, EditForm
<1>4. priceForm' \in Form
  <2>1. CASE CancelForm \/ TypeModel \/ TypeGroup \/ SwitchOffPeak
    BY <2>1, <1>2 DEF CancelForm, TypeModel, TypeGroup, SwitchOffPeak, EditForm
  <2>2. CASE handleAddSlot
    <3>1. Append(priceForm.slots, ExtraSlot) \in Seq(Slots)
      BY <1>2, PricingAssumption
    <3> QED
      BY <2>2, <3>1, <1>3 DEF handleAddSlot
  <2>3. CASE handleRemoveSlot
    <3>1. PICK i \in DOMAIN priceForm.slots :
             EditSlots([j \in 1..(Len(priceForm.slots) - 1) |->
                          priceForm.slots[IF j < i THEN j ELSE j + 1]])
      BY <2>3 DEF handleRemoveSlot
    <3>2. [j \in 1..(Len(priceForm.slots) - 1) |-> priceForm.slots[IF j < i THEN j ELSE j + 1]] \in Seq(Slots)
      <4> DEFINE n == Len(priceForm.slots) - 1
                 f == [j \in 1..n |-> priceForm.slots[IF j < i THEN j ELSE j + 1]]
      <4>1. n \in Nat /\ \A j \in 1..n : priceForm.slots[IF j < i THEN j ELSE j + 1] \in Slots
        BY <1>2
      <4>2. f \in [1..n -> Slots]
        BY <4>1
      <4> HIDE DEF f, n
      <4>3. f \in Seq(Slots)
        BY <4>1, <4>2
      <4> QED
        BY <4>3 DEF f, n
    <3> QED
      BY <3>1, <3>2, <1>3
  <2>4. CASE handleUpdateSlot
    <3>1. PICK i \in DOMAIN priceForm.slots, field \in SlotFields, t \in Texts :
             EditSlots([priceForm.slots EXCEPT ![i] = [@ EXCEPT ![field] = t]])
      BY <2>4, PricingAssumption DEF handleUpdateSlot
    <3>2. [priceForm.slots[i] EXCEPT ![field] = t] \in Slots
      <4>1. priceForm.slots[i] \in Slots
        BY <1>2
      <4> QED
        BY <3>1, <4>1 DEF SlotFields, Slots
    <3>3. [priceForm.slots EXCEPT ![i] = [@ EXCEPT ![field] = t]] \in Seq(Slots)
      BY <3>2, <1>2
    <3> QED
      BY <3>1, <3>3, <1>3
  <2>5. CASE toggleSlotDay
    <3>1. PICK i \in DOMAIN priceForm.slots, d \in DayButtons :
             EditSlots([priceForm.slots EXCEPT ![i].days = ToggledDays(@, d)])
      BY <2>5 DEF toggleSlotDay
    <3>2. priceForm.slots[i] \in Slots
      BY <1>2
    <3>3. ToggledDays(priceForm.slots[i].days, d) \subseteq Days
      BY <3>2 DEF ToggledDays, Slots, DayButtons
    <3>4. [priceForm.slots[i] EXCEPT !.days = ToggledDays(priceForm.slots[i].days, d)] \in Slots
      BY <3>2, <3>3 DEF Slots
    <3>5. [priceForm.slots EXCEPT ![i].days = ToggledDays(@, d)] \in Seq(Slots)
      BY <3>4, <1>2
    <3> QED
      BY <3>1, <3>5, <1>3
  <2> QED
    BY <2>1, <2>2, <2>3, <2>4, <2>5
<1>5. PricingTypeOK'
  BY <1>1, <1>4 DEF PricingTypeOK
<1>6. \A d \in priceCalls' : CallChecked(d)
  BY <1>1 DEF CallsChecked
<1> QED
  BY <1>1, <1>5, <1>6, PricingInvSteps

\* What is saved was checked, or has no windows.
LEMMA PriceSaveHolds == ASSUME PricingInv, pricingSteps' = pricingSteps + 1, handleSave PROVE PricingInv'
<1> USE DEF PricingInv
<1> DEFINE sent == [offPeak |-> priceForm.offPeak,
                    slots |-> IF priceForm.offPeak THEN priceForm.slots ELSE <<>>]
           key == <<priceForm.group, priceForm.model>>
<1>1. sent \in Rules
  BY DEF Rules, PricingTypeOK
<1>2. key \in Keys
  BY DEF handleSave, MaySave, Keys, PricingTypeOK
<1>3. ReadAlike(sent.slots) => Unambiguous(sent.slots)
  <2>1. CASE priceForm.offPeak
    BY <2>1, ChecksMakeUnambiguous DEF handleSave, MaySave, PricingTypeOK
  <2>2. CASE ~priceForm.offPeak
    BY <2>2 DEF Unambiguous
  <2> QED
    BY <2>1, <2>2
<1> DEFINE c == Call("save", {key}, sent)
<1>4. c.op = "save" /\ c.rule = sent /\ CallTyped(c)
  BY <1>1, <1>2, NewPriceCalls
<1>5. priceCalls' = priceCalls \cup {c}
  BY DEF handleSave, Send
<1>6. CallChecked(c)
  <2> HIDE DEF c, sent
  <2> QED
    BY <1>3, <1>4 DEF CallChecked
<1> HIDE DEF c, sent, key
<1>7. \A d \in priceCalls' : CallTyped(d) /\ CallChecked(d)
  BY <1>4, <1>5, <1>6 DEF PricingTypeOK, CallsChecked, CallTyped
<1>8. /\ UNCHANGED <<rules, prices, groupFilter, selectedKeys, priceForm, loadingPrices>>
      /\ saving' = TRUE
  BY DEF handleSave
<1>9. PricingTypeOK'
  BY <1>7, <1>8 DEF PricingTypeOK, CallTyped
<1> QED
  BY <1>7, <1>8, <1>9, PricingInvSteps

LEMMA PricingInvHolds == PricingSpec => []PricingInv
<1>1. PricingInv /\ [PricingNext]_pricingVars => PricingInv'
  <2> SUFFICES ASSUME PricingInv, [PricingNext]_pricingVars PROVE PricingInv'
    OBVIOUS
  <2>1. CASE Answer \/ ListArrives \/ SaveReturns \/ DeleteReturns
    BY <2>1, PriceAnswerHolds, PriceReturnsHold
  <2>2. CASE pricingSteps' = pricingSteps + 1 /\ Gesture
    BY <2>2, PriceTableHolds, PriceFormHolds, PriceSaveHolds DEF Gesture
  <2>3. CASE UNCHANGED pricingVars
    <3>1. PricingTypeOK' /\ UNCHANGED <<rules, priceCalls>>
      BY <2>3 DEF pricingVars, PricingInv, PricingTypeOK
    <3> QED
      BY <3>1, PricingInvSteps DEF PricingInv, CallsChecked
  <2> QED
    BY <2>1, <2>2, <2>3 DEF PricingNext
<1> QED
  BY PricingInitHolds, <1>1, PTL DEF PricingSpec

\* However the answers come, no rule whose times the console and the engine
\* read alike leaves the page under which the billing engine would have to
\* choose between windows (handleSave against CustomOffPeakStrategy).
THEOREM SentAreUnambiguous == PricingSpec => []SentWindowsUnambiguous
<1>1. PricingInv => SentWindowsUnambiguous
  BY DEF PricingInv, CallsChecked, CallChecked, SentWindowsUnambiguous
<1> QED
  BY <1>1, PricingInvHolds, PTL

\* Whatever the user types and however the two sides read it, no rule is stored
\* under which the billing engine would have to choose between windows
\* (ValidateSlotsOverlap against CustomOffPeakStrategy).
THEOREM StoredAreUnambiguous == PricingSpec => []StoredWindowsUnambiguous
<1>1. PricingInv => StoredWindowsUnambiguous
  <2> SUFFICES ASSUME PricingInv, NEW k \in Keys, rules[k] # NoRule, rules[k].offPeak
               PROVE  Unambiguous(rules[k].slots)
    BY DEF StoredWindowsUnambiguous
  <2>1. rules[k] \in Rules
    BY DEF PricingInv, PricingTypeOK
  <2>2. rules[k].slots \in Seq(Slots) /\ ValidateSlotsOverlap(rules[k].slots)
    BY <2>1 DEF PricingInv, RulesAccepted, Saveable, Rules
  <2> QED
    BY <2>2, ServerCheckMakesUnambiguous
<1> QED
  BY <1>1, PricingInvHolds, PTL

-----------------------------------------------------------------------------
(* The playground.                                                         *)

\* What the page holds of a catalogue limits keys to models.
LimitsTyped(t) ==
    /\ t.routes \subseteq PlayModels \X PlayModalities /\ t.models \subseteq PlayModels
    /\ DOMAIN t.keys \subseteq PlayKeys
    /\ \A key \in DOMAIN t.keys : t.keys[key] \subseteq PlayModels

IsChoice(choice) == choice \in [PlayModalities -> PlayModels \cup {Unset}]

PlayInv ==
    /\ PlayTypeOK /\ LimitsTyped(tables) /\ played \in Nat
    /\ PlaysOfferedModels /\ LoadingIsUnderWay

LEMMA OfferedAreModels ==
    ASSUME NEW t, LimitsTyped(t), NEW key, NEW modality \in PlayModalities
    PROVE  PlaygroundModels(t, key, modality) \subseteq PlayModels
<1>1. Listed(t.routes, t.models, modality) \subseteq PlayModels
  BY DEF Listed, LimitsTyped
<1> QED BY <1>1 DEF PlaygroundModels, LimitsTyped

\* The first of a list is one of its members.
LEMMA FirstIsOne == ASSUME NEW S, S # {} PROVE First(S) \in S
BY DEF First

\* What the effect chooses is offered, if anything is.
LEMMA SynchronizedIsOffered ==
    ASSUME NEW t, LimitsTyped(t), NEW key, NEW choice, IsChoice(choice)
    PROVE  /\ IsChoice(Synchronize(t, key, choice))
           /\ \A modality \in PlayModalities :
                 LET offered == PlaygroundModels(t, key, modality)
                 IN  offered # {} => Synchronize(t, key, choice)[modality] \in offered
<1> DEFINE offered(modality) == PlaygroundModels(t, key, modality)
<1>1. \A modality \in PlayModalities :
         Synchronize(t, key, choice)[modality] =
            IF offered(modality) = {} \/ choice[modality] \in offered(modality)
            THEN choice[modality] ELSE First(offered(modality))
  BY DEF Synchronize
<1>2. \A modality \in PlayModalities : offered(modality) \subseteq PlayModels
  BY OfferedAreModels
<1>3. \A modality \in PlayModalities : offered(modality) # {} => First(offered(modality)) \in offered(modality)
  BY FirstIsOne
<1>4. Synchronize(t, key, choice) = [modality \in PlayModalities |-> Synchronize(t, key, choice)[modality]]
  BY DEF Synchronize
<1> HIDE DEF offered
<1>5. \A modality \in PlayModalities : Synchronize(t, key, choice)[modality] \in PlayModels \cup {Unset}
  BY <1>1, <1>2, <1>3 DEF IsChoice
<1>6. IsChoice(Synchronize(t, key, choice))
  BY <1>4, <1>5 DEF IsChoice
<1>7. \A modality \in PlayModalities :
         offered(modality) # {} => Synchronize(t, key, choice)[modality] \in offered(modality)
  BY <1>1, <1>3
<1> USE DEF offered
<1> QED BY <1>6, <1>7

\* Whatever starts the effects, they leave the choice to what is offered.
LEMMA EffectsChoose ==
    ASSUME PlayInv, NEW t, LimitsTyped(t), NEW custom \in BOOLEAN, NEW input \in PlayKeys \cup {NoKey},
           NEW key \in PlayKeys \cup {NoKey, Passthrough}, NEW choice, IsChoice(choice),
           Effects(t, custom, input, key, choice),
           UNCHANGED <<playModality, playInput, playRuns>>, playSteps' = playSteps + 1
    PROVE  PlayInv'
<1> DEFINE chosen == KeyChosen(t, custom, key)
           selected == SelectedKey(custom, input, chosen)
           before == Synchronize(t, SelectedKey(custom, input, key), choice)
<1>1. /\ tables' = t /\ isCustomKey' = custom /\ customKeyInput' = input /\ playApiKey' = chosen
      /\ playModel' = Synchronize(t, selected, before) /\ chatRouted' = FALSE
  BY DEF Effects
<1>2. chosen \in PlayKeys \cup {NoKey, Passthrough}
  BY FirstIsOne DEF KeyChosen, LimitsTyped
<1>3. IsChoice(before)
  BY SynchronizedIsOffered
<1>4. /\ IsChoice(playModel')
      /\ \A modality \in PlayModalities :
            LET offered == PlaygroundModels(t, selected, modality)
            IN  offered # {} => playModel'[modality] \in offered
  <2> HIDE DEF selected, before
  <2> QED BY <1>1, <1>3, SynchronizedIsOffered
<1>5. \A modality : getPlaygroundModels(modality)' = PlaygroundModels(t, selected, modality)
  BY <1>1 DEF getPlaygroundModels
<1>6. PlaysOfferedModels'
  <2> HIDE DEF selected
  <2> QED BY <1>4, <1>5 DEF PlaysOfferedModels
<1>7. PlayTypeOK'
  <2>1. KeysHeld' \subseteq PlayKeys /\ t.routes \subseteq PlayModels \X PlayModalities /\ t.models \subseteq PlayModels
    BY <1>1 DEF KeysHeld, LimitsTyped
  <2>2. UNCHANGED <<playModality, playInput, playLoading, playOutput, playResult, videoTaskStatus, generations, pollers, played>>
    BY DEF playRuns, playShown
  <2> HIDE DEF chosen, selected, before
  <2>3. playModel' \in [PlayModalities -> PlayModels \cup {Unset}]
    BY <1>4 DEF IsChoice
  <2>4. playSteps' \in Nat
    BY DEF PlayInv, PlayTypeOK
  <2> QED BY <1>1, <1>2, <2>1, <2>2, <2>3, <2>4 DEF PlayInv, PlayTypeOK
<1>8. LimitsTyped(tables)' /\ played' \in Nat
  BY <1>1 DEF playRuns, PlayInv, LimitsTyped
<1>9. LoadingIsUnderWay'
  BY DEF playRuns, PlayInv, LoadingIsUnderWay
<1> QED BY <1>6, <1>7, <1>8, <1>9 DEF PlayInv

LEMMA DataArrivesHolds ==
    ASSUME PlayInv, DataArrives, playSteps' = playSteps + 1
    PROVE  PlayInv'
<1>1. PICK cat \in Catalogues, keysCame \in BOOLEAN, routesCame \in BOOLEAN, modelsCame \in BOOLEAN :
        /\ Effects([routes |-> IF routesCame THEN cat.routes ELSE tables.routes,
                    models |-> IF modelsCame THEN cat.models ELSE tables.models,
                    keys |-> IF keysCame THEN cat.keys ELSE tables.keys],
                   isCustomKey, customKeyInput, playApiKey,
                   IF modelsCame THEN Defaults(IF routesCame THEN cat.routes ELSE {}, cat.models, playModel)
                   ELSE playModel)
        /\ UNCHANGED <<playModality, playInput, playRuns>>
  BY Zenon DEF DataArrives
<1> DEFINE t == [routes |-> IF routesCame THEN cat.routes ELSE tables.routes,
                 models |-> IF modelsCame THEN cat.models ELSE tables.models,
                 keys |-> IF keysCame THEN cat.keys ELSE tables.keys]
           routed == IF routesCame THEN cat.routes ELSE {}
           choice == IF modelsCame THEN Defaults(routed, cat.models, playModel) ELSE playModel
<1>2. LimitsTyped(cat) /\ LimitsTyped(tables)
  BY PlaygroundAssumption DEF LimitsTyped, PlayInv
<1>3. LimitsTyped(t)
  BY <1>2 DEF LimitsTyped
<1>4. IsChoice(playModel) /\ isCustomKey \in BOOLEAN /\ customKeyInput \in PlayKeys \cup {NoKey}
      /\ playApiKey \in PlayKeys \cup {NoKey, Passthrough}
  BY DEF PlayInv, PlayTypeOK, IsChoice
<1>5. IsChoice(Defaults(routed, cat.models, playModel))
  <2>1. ASSUME NEW modality \in PlayModalities
        PROVE  Defaults(routed, cat.models, playModel)[modality] \in PlayModels \cup {Unset}
    <3> DEFINE listed == Listed(routed, cat.models, modality)
    <3>1. listed \subseteq PlayModels
      BY <1>2 DEF Listed, LimitsTyped
    <3>2. listed # {} => First(listed) \in listed
      BY FirstIsOne
    <3>3. Defaults(routed, cat.models, playModel)[modality] =
             IF playModel[modality] \in listed THEN playModel[modality]
             ELSE IF listed = {} THEN Unset ELSE First(listed)
      BY DEF Defaults
    <3> HIDE DEF listed
    <3> QED BY <1>4, <3>1, <3>2, <3>3 DEF IsChoice
  <2> QED BY <2>1 DEF IsChoice, Defaults
<1>6. IsChoice(choice)
  BY <1>4, <1>5
<1>7. Effects(t, isCustomKey, customKeyInput, playApiKey, choice)
  BY <1>1
<1> HIDE DEF t, choice
<1> QED BY <1>1, <1>3, <1>4, <1>6, <1>7, EffectsChoose

LEMMA KeyGestureHolds ==
    ASSUME PlayInv, ToggleCustomKey \/ TypeKey \/ SelectKey, playSteps' = playSteps + 1
    PROVE  PlayInv'
<1>1. /\ LimitsTyped(tables) /\ IsChoice(playModel) /\ isCustomKey \in BOOLEAN
      /\ customKeyInput \in PlayKeys \cup {NoKey} /\ playApiKey \in PlayKeys \cup {NoKey, Passthrough}
      /\ KeysHeld \subseteq PlayKeys
  BY DEF PlayInv, PlayTypeOK, IsChoice
<1>2. UNCHANGED <<playModality, playInput, playRuns>>
  BY DEF ToggleCustomKey, TypeKey, SelectKey
<1>3. CASE ToggleCustomKey
  <2>1. First(KeysHeld) \in PlayKeys
    BY <1>1, <1>3, FirstIsOne DEF ToggleCustomKey
  <2>2. PICK key \in PlayKeys \cup {NoKey, Passthrough} :
           Effects(tables, ~isCustomKey, customKeyInput, key, playModel)
    BY <1>1, <1>3, <2>1 DEF ToggleCustomKey
  <2>3. (~isCustomKey) \in BOOLEAN
    OBVIOUS
  <2> QED BY <1>1, <1>2, <2>2, <2>3, EffectsChoose
<1>4. CASE TypeKey
  <2>1. PICK input \in PlayKeys \cup {NoKey} : Effects(tables, isCustomKey, input, playApiKey, playModel)
    BY <1>4 DEF TypeKey
  <2> QED BY <1>1, <1>2, <2>1, EffectsChoose
<1>5. CASE SelectKey
  <2>1. PICK key \in PlayKeys \cup {NoKey, Passthrough}, input \in PlayKeys \cup {NoKey}, custom \in BOOLEAN :
           Effects(tables, custom, input, key, playModel)
    BY <1>1, <1>5 DEF SelectKey
  <2> QED BY <1>1, <1>2, <2>1, EffectsChoose
<1> QED BY <1>3, <1>4, <1>5

\* Gestures that leave the tables and the key alone.
LEMMA ChoiceHolds ==
    ASSUME PlayInv, playSteps' = playSteps + 1,
           ChooseModality \/ SelectModel \/ NavigateToPlayground \/ ProvideInput
    PROVE  PlayInv'
<1>0. /\ UNCHANGED <<tables, playApiKey, isCustomKey, customKeyInput, playLoading, playOutput, playResult,
                     videoTaskStatus, generations, pollers, played>>
      /\ playModel \in [PlayModalities -> PlayModels \cup {Unset}]
      /\ chatRouted \in BOOLEAN /\ chatRouted' \in BOOLEAN
  BY DEF ChooseModality, SelectModel, NavigateToPlayground, ProvideInput, playKey, playRuns, playShown,
         PlayInv, PlayTypeOK
<1>1. \A modality : getPlaygroundModels(modality)' = getPlaygroundModels(modality)
  BY <1>0 DEF getPlaygroundModels
<1>2. playModality \in PlayModalities /\ playInput \subseteq PlayModalities /\ playSteps' \in Nat
  BY DEF PlayInv, PlayTypeOK
<1>3. playModality' \in PlayModalities /\ playInput' \subseteq PlayModalities
  <2>1. \A route \in tables.routes : route[2] \in PlayModalities
    BY DEF PlayInv, PlayTypeOK
  <2> QED BY <1>2, <2>1 DEF ChooseModality, SelectModel, NavigateToPlayground, ProvideInput
<1>4. playModel' \in [PlayModalities -> PlayModels \cup {Unset}] /\ PlaysOfferedModels'
  <2>1. CASE ChooseModality \/ ProvideInput
    <3>1. playModel' = playModel /\ chatRouted' = chatRouted
      BY <2>1 DEF ChooseModality, ProvideInput
    <3> QED BY <1>0, <1>1, <3>1 DEF PlayInv, PlaysOfferedModels
  <2>2. CASE SelectModel
    <3>1. PICK m \in getPlaygroundModels(playModality) : playModel' = [playModel EXCEPT ![playModality] = m]
      BY <2>2 DEF SelectModel
    <3>2. m \in PlayModels
      BY <1>2, <3>1, OfferedAreModels DEF getPlaygroundModels, PlayInv
    <3>3. /\ playModel' \in [PlayModalities -> PlayModels \cup {Unset}]
          /\ \A modality \in PlayModalities :
                playModel'[modality] = IF modality = playModality THEN m ELSE playModel[modality]
      BY <1>0, <3>1, <3>2
    <3>4. chatRouted' = (chatRouted /\ playModality # "chat")
      BY <2>2 DEF SelectModel
    <3> QED BY <1>1, <3>1, <3>3, <3>4 DEF PlayInv, PlaysOfferedModels
  <2>3. CASE NavigateToPlayground
    <3>1. PICK route \in tables.routes : playModel' = [playModel EXCEPT !["chat"] = route[1]]
      BY <2>3 DEF NavigateToPlayground
    <3>2. route[1] \in PlayModels
      BY <3>1 DEF PlayInv, PlayTypeOK
    <3>3. /\ playModel' \in [PlayModalities -> PlayModels \cup {Unset}]
          /\ \A modality \in PlayModalities \ {"chat"} : playModel'[modality] = playModel[modality]
      BY <1>0, <3>1, <3>2
    <3>4. chatRouted' = TRUE
      BY <2>3 DEF NavigateToPlayground
    <3> QED BY <1>1, <3>3, <3>4 DEF PlayInv, PlaysOfferedModels
  <2> QED BY <2>1, <2>2, <2>3
<1>5. PlayTypeOK'
  BY <1>0, <1>2, <1>3, <1>4 DEF PlayInv, PlayTypeOK, KeysHeld
<1>6. LimitsTyped(tables)' /\ played' \in Nat /\ LoadingIsUnderWay'
  BY <1>0 DEF PlayInv, LimitsTyped, LoadingIsUnderWay
<1> QED BY <1>4, <1>5, <1>6 DEF PlayInv

\* What the generations change of the page: neither the tables, nor the key,
\* nor the choice.
LEMMA PlayPageHolds ==
    ASSUME PlayInv, UNCHANGED PlayPage,
           playLoading' \in BOOLEAN, played' \in Nat,
           playOutput' \in 0..played', playResult' \in [PlayModalities -> 0..played'],
           generations' \subseteq [id : 1..played', kind : PlayModalities, streaming : BOOLEAN],
           pollers' \subseteq [id : 1..played', attempts : 0..MaxPolls, on : BOOLEAN, asked : 0..MaxOverlap],
           playSteps' \in Nat, LoadingIsUnderWay'
    PROVE  PlayInv'
<1>1. UNCHANGED <<tables, playApiKey, isCustomKey, customKeyInput, playModality, playModel, chatRouted, playInput>>
  BY DEF PlayPage, playKey
<1>2. PlayTypeOK'
  BY <1>1 DEF PlayInv, PlayTypeOK, KeysHeld
<1>3. PlaysOfferedModels'
  BY <1>1 DEF PlayInv, PlaysOfferedModels, getPlaygroundModels
<1>4. LimitsTyped(tables)'
  BY <1>1 DEF PlayInv, LimitsTyped
<1> QED BY <1>2, <1>3, <1>4 DEF PlayInv

LEMMA BeginHolds ==
    ASSUME PlayInv, NEW kind \in PlayModalities, Begin(kind), playSteps' = playSteps + 1
    PROVE  PlayInv'
<1> DEFINE Generation(n) == [id : 1..n, kind : PlayModalities, streaming : BOOLEAN]
           Poller(n) == [id : 1..n, attempts : 0..MaxPolls, on : BOOLEAN, asked : 0..MaxOverlap]
<1>1. /\ played \in Nat /\ playSteps \in Nat /\ generations \subseteq Generation(played)
      /\ pollers \subseteq Poller(played) /\ playResult \in [PlayModalities -> 0..played]
  BY DEF PlayInv, PlayTypeOK
<1>2. /\ 1..played \subseteq 1..(played + 1) /\ 0..played \subseteq 0..(played + 1)
      /\ played + 1 \in 1..(played + 1) /\ 0 \in 0..(played + 1)
  BY <1>1
<1>3. /\ playLoading' \in BOOLEAN /\ played' = played + 1 /\ playOutput' = 0 /\ UNCHANGED PlayPage
      /\ pollers' = pollers
      /\ generations' = generations \cup {[id |-> played + 1, kind |-> kind, streaming |-> FALSE]}
      /\ playResult' = [playResult EXCEPT ![kind] = 0]
  BY DEF Begin
<1>4. Generation(played) \subseteq Generation(played + 1) /\ Poller(played) \subseteq Poller(played + 1)
  BY <1>2
<1>5. [id |-> played + 1, kind |-> kind, streaming |-> FALSE] \in Generation(played + 1)
  BY <1>2
<1>6. generations' \subseteq Generation(played') /\ pollers' \subseteq Poller(played')
  <2> HIDE DEF Generation, Poller
  <2> QED BY <1>1, <1>3, <1>4, <1>5
<1>7. playResult' \in [PlayModalities -> 0..played'] /\ playOutput' \in 0..played'
  BY <1>1, <1>2, <1>3
<1>8. played' \in Nat /\ playSteps' \in Nat
  BY <1>1, <1>3
<1>9. LoadingIsUnderWay'
  <2> DEFINE g == [id |-> played + 1, kind |-> kind, streaming |-> FALSE]
  <2>1. g.id = played' /\ g \in generations'
    BY <1>3
  <2> HIDE DEF g
  <2> QED BY <2>1 DEF LoadingIsUnderWay
<1> QED BY <1>3, <1>6, <1>7, <1>8, <1>9, PlayPageHolds

LEMMA EndsHolds ==
    ASSUME PlayInv, NEW g \in generations, NEW result \in BOOLEAN, Ends(g, result)
    PROVE  PlayInv'
<1>1. /\ played \in Nat /\ playSteps \in Nat
      /\ generations \subseteq [id : 1..played, kind : PlayModalities, streaming : BOOLEAN]
      /\ pollers \subseteq [id : 1..played, attempts : 0..MaxPolls, on : BOOLEAN, asked : 0..MaxOverlap]
      /\ playResult \in [PlayModalities -> 0..played]
  BY DEF PlayInv, PlayTypeOK
<1>2. g.id \in 0..played /\ g.kind \in PlayModalities
  BY <1>1
<1>3. /\ playLoading' = FALSE /\ playOutput' = g.id /\ generations' = generations \ {g}
      /\ UNCHANGED <<pollers, played, playSteps>> /\ UNCHANGED PlayPage
      /\ playResult' \in {playResult, [playResult EXCEPT ![g.kind] = g.id]}
  BY DEF Ends
<1>4. playResult' \in [PlayModalities -> 0..played']
  BY <1>1, <1>2, <1>3
<1>5. generations' \subseteq generations
  BY <1>3
<1>6. LoadingIsUnderWay'
  BY <1>3 DEF LoadingIsUnderWay
<1> QED BY <1>1, <1>2, <1>3, <1>4, <1>5, <1>6, PlayPageHolds

LEMMA StreamHolds == ASSUME PlayInv, ChatStreams PROVE PlayInv'
<1> DEFINE Generation == [id : 1..played, kind : PlayModalities, streaming : BOOLEAN]
<1>1. /\ played \in Nat /\ playSteps \in Nat /\ generations \subseteq Generation
      /\ pollers \subseteq [id : 1..played, attempts : 0..MaxPolls, on : BOOLEAN, asked : 0..MaxOverlap]
      /\ playResult \in [PlayModalities -> 0..played] /\ playOutput \in 0..played /\ playLoading \in BOOLEAN
  BY DEF PlayInv, PlayTypeOK
<1>2. PICK g \in generations :
        /\ generations' = (generations \ {g}) \cup {[g EXCEPT !.streaming = TRUE]}
        /\ playOutput' = IF g.streaming THEN g.id ELSE playOutput
        /\ UNCHANGED <<PlayPage, playLoading, playResult, videoTaskStatus, pollers, played, playSteps>>
  BY DEF ChatStreams
<1>3. g \in Generation
  BY <1>1
<1>4. g.id \in 0..played /\ [g EXCEPT !.streaming = TRUE] \in Generation
  <2>1. g.id \in 1..played
    BY <1>3
  <2>2. [g EXCEPT !.streaming = TRUE] \in Generation
    BY <1>3
  <2> QED BY <1>1, <2>1, <2>2
<1>5. generations' \subseteq Generation
  <2> HIDE DEF Generation
  <2> QED BY <1>1, <1>2, <1>4
<1>6. LoadingIsUnderWay'
  <2>1. [g EXCEPT !.streaming = TRUE].id = g.id
    BY <1>3
  <2> QED BY <1>2, <2>1 DEF PlayInv, LoadingIsUnderWay
<1> QED BY <1>1, <1>2, <1>4, <1>5, <1>6, PlayPageHolds

LEMMA TaskHolds == ASSUME PlayInv, VideoTaskMade PROVE PlayInv'
<1> DEFINE Poller == [id : 1..played, attempts : 0..MaxPolls, on : BOOLEAN, asked : 0..MaxOverlap]
<1>1. /\ played \in Nat /\ playSteps \in Nat /\ pollers \subseteq Poller
      /\ generations \subseteq [id : 1..played, kind : PlayModalities, streaming : BOOLEAN]
      /\ playResult \in [PlayModalities -> 0..played] /\ playLoading \in BOOLEAN
  BY DEF PlayInv, PlayTypeOK
<1>2. PICK g \in generations :
        /\ playOutput' = g.id
        /\ generations' = generations \ {g}
        /\ pollers' = pollers \cup {[id |-> g.id, attempts |-> 0, on |-> TRUE, asked |-> 0]}
        /\ UNCHANGED <<PlayPage, playLoading, playResult, played, playSteps>>
  BY DEF VideoTaskMade
<1>3. g.id \in 1..played
  BY <1>1
<1>4. [id |-> g.id, attempts |-> 0, on |-> TRUE, asked |-> 0] \in Poller
  BY <1>3, PlaygroundAssumption
<1>5. pollers' \subseteq Poller
  <2> HIDE DEF Poller
  <2> QED BY <1>1, <1>2, <1>4
<1>6. playOutput' \in 0..played' /\ generations' \subseteq generations
  BY <1>1, <1>2, <1>3
<1>7. LoadingIsUnderWay'
  <2> DEFINE p == [id |-> g.id, attempts |-> 0, on |-> TRUE, asked |-> 0]
  <2>1. p.id = g.id /\ p.on
    OBVIOUS
  <2> HIDE DEF p
  <2>2. pollers' = pollers \cup {p} /\ UNCHANGED <<playLoading, played>>
    BY <1>2 DEF p
  <2> QED BY <1>2, <2>1, <2>2 DEF PlayInv, LoadingIsUnderWay
<1> QED BY <1>1, <1>2, <1>5, <1>6, <1>7, PlayPageHolds

LEMMA PollHolds == ASSUME PlayInv, PollTicks \/ PollReturns PROVE PlayInv'
<1> DEFINE Poller == [id : 1..played, attempts : 0..MaxPolls, on : BOOLEAN, asked : 0..MaxOverlap]
<1>1. /\ played \in Nat /\ playSteps \in Nat /\ pollers \subseteq Poller
      /\ generations \subseteq [id : 1..played, kind : PlayModalities, streaming : BOOLEAN]
      /\ playResult \in [PlayModalities -> 0..played] /\ playOutput \in 0..played /\ playLoading \in BOOLEAN
      /\ MaxPolls \in Nat /\ MaxOverlap \in Nat
  BY PlaygroundAssumption DEF PlayInv, PlayTypeOK
<1>2. CASE PollTicks
  <2>1. PICK p \in pollers :
          /\ p.on /\ p.asked < MaxOverlap
          /\ pollers' = (pollers \ {p})
                \cup {[p EXCEPT !.attempts = IF @ < MaxPolls THEN @ + 1 ELSE @, !.asked = @ + 1]}
          /\ UNCHANGED <<PlayPage, playLoading, playShown, generations, played, playSteps>>
    BY <1>2 DEF PollTicks
  <2>2. p \in Poller /\ p.asked \in 0..MaxOverlap /\ p.attempts \in 0..MaxPolls
    BY <1>1
  <2>3. p.asked + 1 \in 0..MaxOverlap /\ (IF p.attempts < MaxPolls THEN p.attempts + 1 ELSE p.attempts) \in 0..MaxPolls
    BY <1>1, <2>1, <2>2
  <2>4. [p EXCEPT !.attempts = IF @ < MaxPolls THEN @ + 1 ELSE @, !.asked = @ + 1] \in Poller
    BY <2>2, <2>3
  <2>5. pollers' \subseteq Poller
    <3> HIDE DEF Poller
    <3> QED BY <1>1, <2>1, <2>4
  <2>6. LoadingIsUnderWay'
    <3> DEFINE q == [p EXCEPT !.attempts = IF @ < MaxPolls THEN @ + 1 ELSE @, !.asked = @ + 1]
    <3>1. q.id = p.id /\ q.on = p.on
      BY <2>2
    <3> HIDE DEF q, Poller
    <3>2. pollers' = (pollers \ {p}) \cup {q}
      BY <2>1 DEF q
    <3> QED BY <2>1, <3>1, <3>2 DEF PlayInv, LoadingIsUnderWay
  <2> QED BY <1>1, <2>1, <2>5, <2>6, PlayPageHolds DEF playShown
<1>3. CASE PollReturns
  <2>1. PICK p \in pollers, status \in {"processing", "success", "failed", "lost"} :
          /\ p.asked > 0
          /\ pollers' = (pollers \ {p})
                \cup (IF p.asked = 1 /\ (Final(status, p.attempts) \/ ~p.on) THEN {}
                      ELSE {[p EXCEPT !.asked = @ - 1, !.on = @ /\ ~Final(status, p.attempts)]})
          /\ playLoading' = IF Final(status, p.attempts) THEN FALSE ELSE playLoading
          /\ playOutput' = IF status = "lost" THEN playOutput ELSE p.id
          /\ playResult' = IF status = "success" THEN [playResult EXCEPT !["videos"] = p.id] ELSE playResult
          /\ UNCHANGED <<PlayPage, generations, played, playSteps>>
    BY <1>3 DEF PollReturns, FreesTheButtons
  <2>2. p \in Poller /\ p.asked \in 0..MaxOverlap /\ p.id \in 0..played /\ p.on \in BOOLEAN
    BY <1>1
  <2>3. p.asked - 1 \in 0..MaxOverlap /\ (p.on /\ ~Final(status, p.attempts)) \in BOOLEAN
    BY <1>1, <2>1, <2>2
  <2>4. [p EXCEPT !.asked = @ - 1, !.on = @ /\ ~Final(status, p.attempts)] \in Poller
    BY <2>2, <2>3
  <2>5. pollers' \subseteq Poller
    <3> HIDE DEF Poller
    <3> QED BY <1>1, <2>1, <2>4
  <2>6. playLoading' \in BOOLEAN /\ playOutput' \in 0..played' /\ playResult' \in [PlayModalities -> 0..played']
    BY <1>1, <2>1, <2>2 DEF PlayModalities
  <2>7. LoadingIsUnderWay'
    <3>1. CASE Final(status, p.attempts)
      BY <2>1, <3>1 DEF LoadingIsUnderWay
    <3>2. CASE ~Final(status, p.attempts)
      <4> DEFINE q == [p EXCEPT !.asked = @ - 1, !.on = @ /\ ~Final(status, p.attempts)]
      <4>1. q.id = p.id /\ q.on = p.on
        BY <2>2, <3>2
      <4> HIDE DEF q, Poller
      <4>2. pollers' = (pollers \ {p}) \cup (IF p.asked = 1 /\ ~p.on THEN {} ELSE {q})
        BY <2>1, <3>2 DEF q
      <4>3. playLoading' = playLoading /\ UNCHANGED <<generations, played>>
        BY <2>1, <3>2
      <4> QED BY <4>1, <4>2, <4>3 DEF PlayInv, LoadingIsUnderWay
    <3> QED BY <3>1, <3>2
  <2> QED BY <1>1, <2>1, <2>5, <2>6, <2>7, PlayPageHolds
<1> QED BY <1>2, <1>3

LEMMA PlayArrivalHolds == ASSUME PlayInv, PlayArrivals PROVE PlayInv'
<1>1. CASE ChatReturns
  <2>1. PICK g \in generations : Ends(g, FALSE)
    BY <1>1 DEF ChatReturns
  <2> QED BY <2>1, EndsHolds
<1>2. ASSUME NEW kind, Returns(kind) PROVE PlayInv'
  <2>1. PICK g \in generations, result \in BOOLEAN : Ends(g, result)
    BY <1>2 DEF Returns
  <2> QED BY <2>1, EndsHolds
<1>3. CASE VideoEnds
  <2>1. PICK g \in generations, status \in {"pending", "success", "processing"} : Ends(g, status = "success")
    BY <1>3 DEF VideoEnds
  <2>2. (status = "success") \in BOOLEAN
    OBVIOUS
  <2> QED BY <2>1, <2>2, EndsHolds
<1> QED BY <1>1, <1>2, <1>3, StreamHolds, TaskHolds, PollHolds
        DEF PlayArrivals, ImageReturns, SpeechReturns, TranscriptionReturns, EmbeddingReturns, RerankReturns

LEMMA PlayInitHolds == PlayInit => PlayInv
<1> SUFFICES ASSUME PlayInit PROVE PlayInv
  OBVIOUS
<1>1. \A modality \in PlayModalities : getPlaygroundModels(modality) = {}
  <2>1. /\ tables.routes = {} /\ tables.models = {} /\ DOMAIN tables.keys = {}
    BY DEF PlayInit
  <2> QED BY <2>1 DEF getPlaygroundModels, PlaygroundModels, Listed
<1>2. PlaysOfferedModels
  BY <1>1 DEF PlaysOfferedModels
<1>3. LimitsTyped(tables) /\ played \in Nat /\ LoadingIsUnderWay
  BY DEF PlayInit, LimitsTyped, LoadingIsUnderWay
<1>4. PlayTypeOK
  <2>1. /\ tables.routes \subseteq PlayModels \X PlayModalities /\ tables.models \subseteq PlayModels
        /\ KeysHeld \subseteq PlayKeys
    BY <1>3 DEF LimitsTyped, KeysHeld
  <2>2. /\ playApiKey \in PlayKeys \cup {NoKey, Passthrough} /\ customKeyInput \in PlayKeys \cup {NoKey}
        /\ {isCustomKey, chatRouted, playLoading} \subseteq BOOLEAN
        /\ playModality \in PlayModalities /\ playInput \subseteq PlayModalities
        /\ playModel \in [PlayModalities -> PlayModels \cup {Unset}]
    BY DEF PlayInit, PlayModalities
  <2>3. 0 \in 0..played
    BY DEF PlayInit
  <2>4. /\ playOutput \in 0..played /\ playResult \in [PlayModalities -> 0..played]
        /\ generations = {} /\ pollers = {} /\ playSteps = 0
    BY <2>3 DEF PlayInit
  <2> QED BY <2>1, <2>2, <2>4 DEF PlayTypeOK
<1> QED BY <1>2, <1>3, <1>4 DEF PlayInv

LEMMA PlayInvHolds == PlaySpec => []PlayInv
<1>1. PlayInv /\ [PlayNext]_playVars => PlayInv'
  <2> SUFFICES ASSUME PlayInv, [PlayNext]_playVars PROVE PlayInv'
    OBVIOUS
  <2>1. CASE UNCHANGED playVars
    <3>1. UNCHANGED PlayPage /\ UNCHANGED <<playLoading, playOutput, playResult, generations, pollers, played, playSteps>>
      BY <2>1 DEF playVars, playRuns, playShown, PlayPage
    <3> QED BY <3>1, PlayPageHolds DEF PlayInv, PlayTypeOK, LoadingIsUnderWay
  <2>2. CASE PlayArrivals
    BY <2>2, PlayArrivalHolds
  <2>3. ASSUME NEW kind \in PlayModalities, Begin(kind), playSteps' = playSteps + 1 PROVE PlayInv'
    BY <2>3, BeginHolds
  <2> QED BY <2>1, <2>2, <2>3, DataArrivesHolds, KeyGestureHolds, ChoiceHolds
          DEF PlayNext, PlayModalities, handleSendChat, handleGenerateImage, handleGenerateSpeech,
              handleTranscribeAudio, handleGenerateVideo, handleGenerateEmbedding, handleExecuteRerank
<1> QED BY <1>1, PlayInitHolds, PTL DEF PlaySpec

\* While models are offered for a modality and the key in use, the model in
\* hand is one of them: for any tables and keys, whatever parts of them came
\* and whichever keys were chosen, typed or taken away; for chats except
\* between a choice on the page of the routes and the next run of the effects
\* (the effects of App.jsx that choose a key and the models).
THEOREM OfferedModelsArePlayed == PlaySpec => []PlaysOfferedModels
<1>1. PlayInv => PlaysOfferedModels
  BY DEF PlayInv
<1> QED BY <1>1, PlayInvHolds, PTL

\* However the generations and the polls of their tasks overlap, fail or are
\* lost, the flag that disables the buttons is up only while the generation
\* begun last is awaited or polled (handleGenerateVideo and its timer).
THEOREM LoadingEndsWithItsCause == PlaySpec => []LoadingIsUnderWay
<1>1. PlayInv => LoadingIsUnderWay
  BY DEF PlayInv
<1> QED BY <1>1, PlayInvHolds, PTL

-----------------------------------------------------------------------------
(* The console: every page keeps its promises within it.                   *)

\* A behaviour of the console is one of each of its pages: what is proved of a page by itself holds of it among the others.
THEOREM PagesAreThemselves ==
    ConsoleSpec => /\ PricingSpec /\ UsersSpec /\ WalletPageSpec /\ SessionSpec
                   /\ LogsSpec /\ ChannelsSpec /\ PlaySpec
<1>1. ConsoleInit => /\ PricingInit /\ UsersInit /\ WalletPageInit /\ SessionInit
                     /\ LogsInit /\ ChannelsInit /\ PlayInit
  BY DEF ConsoleInit
<1>3. [ConsoleNext]_consoleVars =>
        /\ [PricingNext]_pricingVars /\ [UsersNext]_userVars /\ [WalletPageNext]_walletVars
        /\ [SessionNext]_sessionVars /\ [LogsNext]_logVars /\ [ChannelsNext]_channelVars
        /\ [PlayNext]_playVars
  BY DEF ConsoleNext, consoleVars
<1> QED
  BY <1>1, <1>3, PTL DEF ConsoleSpec, PricingSpec, UsersSpec, WalletPageSpec, SessionSpec, LogsSpec, ChannelsSpec,
     PlaySpec

\* All that the console holds is of its kind on every page, whichever is open.
THEOREM ConsoleTypeCorrect == ConsoleSpec => []ConsoleTypeOK
<1>1. page \in PageNames /\ [ConsoleNext]_consoleVars => (page \in PageNames)'
  BY DEF ConsoleNext, consoleVars
<1>2. ConsoleInit => page \in PageNames
  BY DEF ConsoleInit
<1>3. ConsoleSpec => [](page \in PageNames)
  BY <1>1, <1>2, PTL DEF ConsoleSpec
<1>4. PricingInv => PricingTypeOK
  BY DEF PricingInv
<1>5. PlayInv => PlayTypeOK
  BY DEF PlayInv
<1>6. /\ page \in PageNames
      /\ PricingTypeOK /\ UsersTypeOK /\ WalletPageTypeOK /\ SessionTypeOK /\ LogsTypeOK
      /\ ChannelsTypeOK /\ PlayTypeOK
      => ConsoleTypeOK
  BY DEF ConsoleTypeOK
<1> QED
  BY <1>3, <1>4, <1>5, <1>6, PagesAreThemselves, PricingInvHolds, PlayInvHolds, UsersTypeCorrect, WalletTypeCorrect,
     SessionTypeCorrect, LogsTypeCorrect, ChannelsTypeCorrect, PTL

\* All that the pages promise is promised by the console.
THEOREM ConsoleKeepsItsPromises ==
    ConsoleSpec => /\ []( /\ SentWindowsUnambiguous /\ StoredWindowsUnambiguous
                          /\ PlaysOfferedModels /\ LoadingIsUnderWay /\ AdminTabsNeedAnAdmin
                          /\ AsksOnlyWhatIsAllowed /\ OneAdjustmentAtATime
                          /\ OneBalanceShown /\ CreditedOncePerPress /\ SavedWhereItCameFrom )
                   /\ OnlyTheUserTurnsPages
  BY PagesAreThemselves, SentAreUnambiguous, StoredAreUnambiguous, OfferedModelsArePlayed,
     LoadingEndsWithItsCause, AdminTabsAreGuarded, AsksAreAllowed, AdjustmentsAreSingle, OneBalance, PaidOncePerPress, SavedWhereFrom, TheUserTurnsPages, PTL
=============================================================================
