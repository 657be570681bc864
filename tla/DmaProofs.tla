----------------------------- MODULE DmaProofs ------------------------------
(***************************************************************************)
(* Proofs about the DMA controller, for any number of channels, any        *)
(* descriptors and any set of accesses.  First what each operator on the   *)
(* record of the controller returns and leaves alone, then one inductive   *)
(* invariant for each property.                                            *)
(***************************************************************************)
EXTENDS DmaController, TLAPS

(* What the operators keep of the two pairs of registers the properties are
   about: errors with their lines, and requests with their sources. *)
SameErrors(d, e) == e.err = d.err /\ e.es = d.es
SameLines(d, e) ==
  e.irqs = d.irqs /\ e.error_irq = d.error_irq /\ e.int = d.int /\ e.eei = d.eei
SameRequests(d, e) ==
  e.requests = d.requests /\ e.hardware = d.hardware /\ e.source = d.source
SameDescriptors(d, e) == e.tcd = d.tcd /\ e.active = d.active
OnRecord(d) ==
  d.hardware = {c \in Channels : d.source[c] # None} /\ d.hardware \subseteq d.requests
Told(d) == d.err = {} <=> d.es = {}
LinesOf(d) == d.irqs = d.int /\ d.error_irq = (d.err \cap d.eei # {})
Quiet(d, cs) ==
  d.active \subseteq cs /\ \A c \in Channels : "ACTIVE" \in d.tcd[c].csr => c \in cs
CleanDescriptors == \A t \in Descriptors : "ACTIVE" \notin t.csr
InOrder(d) == \A c \in Channels : d.priority[c] = c

(* A channel is queued, if it is there. *)
LEMMA QueueFacts ==
  ASSUME NEW d \in Dma, NEW c
  PROVE  LET e == Queue(d, c)
         IN  /\ e \in Dma /\ SameErrors(d, e) /\ SameLines(d, e) /\ SameDescriptors(d, e)
             /\ e.priority = d.priority
             /\ e.hardware = d.hardware /\ e.source = d.source /\ d.requests \subseteq e.requests
  BY DEF Queue, Dma, SameErrors, SameLines, SameDescriptors

(* Requests of the hardware are queued together with their sources. *)
LEMMA QueueHardwareFacts ==
  ASSUME NEW d \in Dma, NEW cs \in SUBSET Channels
  PROVE  LET e == QueueHardware(d, cs)
         IN  /\ e \in Dma /\ SameErrors(d, e) /\ SameLines(d, e) /\ SameDescriptors(d, e)
             /\ e.priority = d.priority
             /\ e.hardware = d.hardware \cup cs /\ e.erq = d.erq
             /\ OnRecord(d) => OnRecord(e)
  <1> DEFINE e == QueueHardware(d, cs)
  <1>1. /\ e \in Dma /\ SameErrors(d, e) /\ SameLines(d, e) /\ SameDescriptors(d, e)
        /\ e.priority = d.priority
    BY DEF QueueHardware, Dma, Mux, SameErrors, SameLines, SameDescriptors
  <1>2. /\ e.requests = d.requests \cup cs /\ e.hardware = d.hardware \cup cs /\ e.erq = d.erq
        /\ e.source = [c \in Channels |-> IF c \in cs THEN d.mux[c].source ELSE d.source[c]]
    BY DEF QueueHardware, Dma
  <1>3. \A c \in Channels : d.mux[c].source # None
    BY CountsAssumption DEF Dma, Mux
  <1> QED BY <1>1, <1>2, <1>3 DEF OnRecord

(* And so are those of the channels that request again and again. *)
LEMMA QueueAlwaysFacts ==
  ASSUME NEW d \in Dma, NEW cs \in SUBSET Channels
  PROVE  LET e == QueueAlwaysEnabled(d, cs)
         IN  /\ e \in Dma /\ SameErrors(d, e) /\ SameLines(d, e) /\ SameDescriptors(d, e)
             /\ e.priority = d.priority
             /\ e.hardware \subseteq d.hardware \cup d.erq /\ e.erq = d.erq
             /\ OnRecord(d) => OnRecord(e)
  <1> DEFINE asking == {c \in cs \cap d.erq : /\ d.mux[c].on /\ ~d.mux[c].periodic
                                              /\ d.mux[c].source \in AlwaysEnabled}
  <1>1. asking \in SUBSET Channels /\ asking \subseteq d.erq
    OBVIOUS
  <1> QED BY <1>1, QueueHardwareFacts DEF QueueAlwaysEnabled

(* The update reports the registers as they are. *)
LEMMA UpdateFacts ==
  ASSUME NEW d \in Dma
  PROVE  LET e == UpdateInterrupts(d)
         IN  /\ e \in Dma /\ SameErrors(d, e) /\ SameDescriptors(d, e) /\ SameRequests(d, e)
             /\ e.priority = d.priority /\ e.erq = d.erq /\ LinesOf(e)
  BY DEF UpdateInterrupts, Dma, SameErrors, SameDescriptors, SameRequests, LinesOf

(* An error is told in all three places at once. *)
LEMMA ErrorFacts ==
  ASSUME NEW d \in Dma, NEW c \in Channels, NEW reason \in Reasons
  PROVE  LET e == Error(d, c, reason)
         IN  /\ e \in Dma /\ SameDescriptors(d, e) /\ SameRequests(d, e)
             /\ e.priority = d.priority
             /\ e.err # {} /\ e.es # {}
             /\ LinesOf(d) => LinesOf(e)
  <1> DEFINE e == Error(d, c, reason)
  <1>1. /\ e \in Dma /\ SameDescriptors(d, e) /\ SameRequests(d, e) /\ e.priority = d.priority
    BY DEF Error, Dma, Controls, SameDescriptors, SameRequests
  <1>2. /\ e.err = d.err \cup {c} /\ e.es = d.es \cup {reason}
        /\ e.irqs = d.irqs /\ e.int = d.int /\ e.eei = d.eei
        /\ e.error_irq = (d.error_irq \/ c \in d.eei)
    BY DEF Error, Dma
  <1>3. LinesOf(d) => LinesOf(e)
    BY <1>2 DEF LinesOf
  <1> QED BY <1>1, <1>2, <1>3

(* A request is taken together with its source. *)
LEMMA TakenFacts ==
  ASSUME NEW d \in Dma, NEW c \in Channels
  PROVE  LET e == Taken(d, c)
         IN  /\ e \in Dma /\ SameErrors(d, e) /\ SameLines(d, e) /\ SameDescriptors(d, e)
             /\ e.priority = d.priority
             /\ OnRecord(d) => OnRecord(e)
  <1> DEFINE e == Taken(d, c)
  <1>1. /\ e \in Dma /\ SameErrors(d, e) /\ SameLines(d, e) /\ SameDescriptors(d, e)
        /\ e.priority = d.priority
    BY DEF Taken, Dma, SameErrors, SameLines, SameDescriptors
  <1>2. /\ e.requests = d.requests \ {c} /\ e.hardware = d.hardware \ {c}
        /\ e.source = [d.source EXCEPT ![c] = None]
    BY DEF Taken, Dma
  <1>3. d.source \in [Channels -> Sources \cup {None}]
    BY DEF Dma
  <1> QED BY <1>1, <1>2, <1>3 DEF OnRecord

(* A count that is written back fits. *)
LEMMA SetIterationFacts ==
  ASSUME NEW t \in Tcd, NEW count \in Nat
  PROVE  SetIteration(t, count) \in Tcd /\ SetIteration(t, count).csr = t.csr
  BY CountsAssumption DEF SetIteration, Tcd

(* A descriptor is replaced by another. *)
LEMMA DescriptorFacts ==
  ASSUME NEW d \in Dma, NEW c \in Channels, NEW t \in Tcd
  PROVE  LET e == [d EXCEPT !.tcd[c] = t]
         IN  /\ e \in Dma /\ SameErrors(d, e) /\ SameLines(d, e) /\ SameRequests(d, e)
             /\ e.priority = d.priority /\ e.active = d.active
             /\ e.tcd = [d.tcd EXCEPT ![c] = t]
             /\ \A cs : Quiet(d, cs) /\ "ACTIVE" \notin t.csr => Quiet(e, cs)
  <1> DEFINE e == [d EXCEPT !.tcd[c] = t]
  <1>1. /\ e \in Dma /\ SameErrors(d, e) /\ SameLines(d, e) /\ SameRequests(d, e)
        /\ e.priority = d.priority /\ e.active = d.active
        /\ e.tcd = [d.tcd EXCEPT ![c] = t]
    BY DEF Dma, SameErrors, SameLines, SameRequests
  <1>2. d.tcd \in [Channels -> Tcd]
    BY DEF Dma
  <1> QED BY <1>1, <1>2 DEF Quiet

(* The end of a major loop adds requests, but none of the hardware. *)
LEMMA MajorDoneFacts ==
  ASSUME NEW d \in Dma, NEW c \in Channels
  PROVE  LET e == MajorDone(d, c)
         IN  /\ e \in Dma /\ SameErrors(d, e) /\ SameDescriptors(d, e)
             /\ e.priority = d.priority /\ e.hardware = d.hardware
             /\ OnRecord(d) => OnRecord(e)
  <1> DEFINE csr == d.tcd[c].csr
             disabled == IF "DREQ" \in csr THEN [d EXCEPT !.erq = @ \ {c}] ELSE d
             told == IF "INTMAJOR" \in csr THEN [disabled EXCEPT !.int = @ \cup {c}]
                     ELSE disabled
  <1>1. /\ disabled \in Dma /\ SameErrors(d, disabled) /\ SameDescriptors(d, disabled)
        /\ SameRequests(d, disabled) /\ disabled.priority = d.priority
    BY DEF Dma, SameErrors, SameDescriptors, SameRequests
  <1>2. /\ told \in Dma /\ SameErrors(disabled, told) /\ SameDescriptors(disabled, told)
        /\ SameRequests(disabled, told) /\ told.priority = disabled.priority
    <2> HIDE DEF disabled
    <2> QED BY <1>1 DEF Dma, SameErrors, SameDescriptors, SameRequests
  <1>3. MajorDone(d, c) = IF "MAJORELINK" \in csr THEN Queue(told, d.tcd[c].major) ELSE told
    BY DEF MajorDone
  <1> HIDE DEF csr, disabled, told
  <1>4. LET q == Queue(told, d.tcd[c].major)
        IN  /\ q \in Dma /\ SameErrors(told, q) /\ SameDescriptors(told, q)
            /\ q.priority = told.priority
            /\ q.hardware = told.hardware /\ q.source = told.source
            /\ told.requests \subseteq q.requests
    BY <1>2, QueueFacts
  <1> QED BY <1>1, <1>2, <1>3, <1>4
          DEF SameErrors, SameDescriptors, SameRequests, OnRecord

(* Half a descriptor is still a descriptor. *)
LEMMA HalfCopiedFacts ==
  ASSUME NEW t \in Tcd, NEW rest \in HalfCopied(t)
  PROVE  rest \in Tcd /\ rest.csr = t.csr
  <1>1. CASE rest = t
    BY <1>1
  <1>2. ASSUME NEW fits \in BOOLEAN, rest = [t EXCEPT !.good = fits]
        PROVE  rest \in Tcd /\ rest.csr = t.csr
    BY <1>2 DEF Tcd
  <1>3. ASSUME NEW next \in Tcd,
               rest = [t EXCEPT !.good = next.good, !.citer = next.citer, !.link = next.link]
        PROVE  rest \in Tcd /\ rest.csr = t.csr
    BY <1>3 DEF Tcd
  <1> QED BY <1>1, <1>2, <1>3, ValuesAssumption DEF HalfCopied

(* However the major loop ends, with the next descriptor loaded or not. *)
LEMMA MajorOutcomesFacts ==
  ASSUME NEW d \in Dma, NEW c \in Channels, NEW e \in MajorOutcomes(d, c)
  PROVE  /\ e \in Dma /\ e.priority = d.priority /\ e.hardware = d.hardware
         /\ Told(d) => Told(e)
         /\ OnRecord(d) => OnRecord(e)
         /\ \A cs : CleanDescriptors /\ Quiet(d, cs) /\ "ACTIVE" \notin d.tcd[c].csr => Quiet(e, cs)
  <1> DEFINE t == SetIteration(d.tcd[c], d.tcd[c].biter)
  <1>1. d.tcd[c] \in Tcd /\ d.tcd[c].biter \in Nat
    BY CountsAssumption DEF Dma, Tcd
  <1>2. t \in Tcd /\ t.csr = d.tcd[c].csr
    BY <1>1, SetIterationFacts
  <1>3. \/ \E next \in Descriptors : e = MajorDone([d EXCEPT !.tcd[c] = next], c)
        \/ \E rest \in HalfCopied(t) : e = Error([d EXCEPT !.tcd[c] = rest], c, "bus")
        \/ e = MajorDone([d EXCEPT !.tcd[c] = [t EXCEPT !.csr = @ \cup {"DONE"}]], c)
    BY DEF MajorOutcomes
  <1> HIDE DEF t
  <1>4. ASSUME NEW next \in Tcd, e = MajorDone([d EXCEPT !.tcd[c] = next], c),
               "ACTIVE" \notin next.csr \/ ~CleanDescriptors \/ "ACTIVE" \in d.tcd[c].csr
        PROVE  /\ e \in Dma /\ e.priority = d.priority /\ e.hardware = d.hardware
               /\ Told(d) => Told(e)
               /\ OnRecord(d) => OnRecord(e)
               /\ \A cs : CleanDescriptors /\ Quiet(d, cs) /\ "ACTIVE" \notin d.tcd[c].csr
                            => Quiet(e, cs)
    <2> DEFINE f == [d EXCEPT !.tcd[c] = next]
    <2>1. /\ f \in Dma /\ SameErrors(d, f) /\ SameRequests(d, f) /\ f.priority = d.priority
          /\ \A cs : Quiet(d, cs) /\ "ACTIVE" \notin next.csr => Quiet(f, cs)
      BY DescriptorFacts
    <2> HIDE DEF f
    <2>2. /\ e \in Dma /\ SameErrors(f, e) /\ SameDescriptors(f, e) /\ e.priority = f.priority
          /\ e.hardware = f.hardware
          /\ OnRecord(f) => OnRecord(e)
      BY <2>1, <1>4, MajorDoneFacts DEF f
    <2> QED BY <2>1, <2>2, <1>4
            DEF SameErrors, SameRequests, SameDescriptors, Told, OnRecord, Quiet
  <1>5. CASE \E next \in Descriptors : e = MajorDone([d EXCEPT !.tcd[c] = next], c)
    BY <1>4, <1>5, ValuesAssumption DEF CleanDescriptors
  <1>6. CASE \E rest \in HalfCopied(t) : e = Error([d EXCEPT !.tcd[c] = rest], c, "bus")
    <2> PICK rest \in HalfCopied(t) : e = Error([d EXCEPT !.tcd[c] = rest], c, "bus")
      BY <1>6
    <2> DEFINE f == [d EXCEPT !.tcd[c] = rest]
    <2>0. rest \in Tcd /\ rest.csr = d.tcd[c].csr
      BY <1>2, HalfCopiedFacts
    <2>1. /\ f \in Dma /\ SameErrors(d, f) /\ SameRequests(d, f) /\ f.priority = d.priority
          /\ \A cs : Quiet(d, cs) /\ "ACTIVE" \notin rest.csr => Quiet(f, cs)
      BY <2>0, DescriptorFacts
    <2> HIDE DEF f
    <2>2. /\ e \in Dma /\ SameDescriptors(f, e) /\ SameRequests(f, e) /\ e.priority = f.priority
          /\ e.err # {} /\ e.es # {}
      BY <2>1, ErrorFacts DEF f, Reasons
    <2> QED BY <2>0, <2>1, <2>2 DEF SameErrors, SameRequests, SameDescriptors, Told, OnRecord, Quiet
  <1>7. CASE e = MajorDone([d EXCEPT !.tcd[c] = [t EXCEPT !.csr = @ \cup {"DONE"}]], c)
    <2>1. /\ [t EXCEPT !.csr = @ \cup {"DONE"}] \in Tcd
          /\ [t EXCEPT !.csr = @ \cup {"DONE"}].csr = d.tcd[c].csr \cup {"DONE"}
      BY <1>2 DEF Tcd, Flags
    <2> QED BY <1>4, <1>7, <2>1
  <1> QED BY <1>3, <1>5, <1>6, <1>7

(* The end of a service that is not in error. *)
LEMMA EndedFacts ==
  ASSUME NEW d \in Dma, service \in Service
  PROVE  /\ Ended(d) \in Dma /\ SameErrors(d, Ended(d)) /\ SameLines(d, Ended(d))
         /\ SameRequests(d, Ended(d)) /\ Ended(d).priority = d.priority
         /\ Ended(d).tcd[service.channel].csr = service.csr
         /\ Quiet(d, {service.channel}) /\ "ACTIVE" \notin service.csr => Quiet(Ended(d), {})
  <1> DEFINE e == Ended(d)
             c == service.channel
  <1>1. c \in Channels /\ service.csr \in SUBSET Flags
    BY DEF Service
  <1>2. /\ e \in Dma /\ SameErrors(d, e) /\ SameLines(d, e) /\ SameRequests(d, e)
        /\ e.priority = d.priority
    <2>1. d.tcd[c] \in Tcd
      BY <1>1 DEF Dma
    <2>2. [d.tcd[c] EXCEPT !.csr = service.csr] \in Tcd
      BY <1>1, <2>1 DEF Tcd
    <2> QED BY <1>1, <2>2 DEF Ended, Dma, SameErrors, SameLines, SameRequests
  <1>3. /\ e.active = d.active \ {c}
        /\ e.tcd = [d.tcd EXCEPT ![c] = [d.tcd[c] EXCEPT !.csr = service.csr]]
    BY <1>1 DEF Ended, Dma
  <1>4. d.tcd \in [Channels -> Tcd]
    BY DEF Dma
  <1>5. /\ e.tcd[c].csr = service.csr
        /\ \A other \in Channels \ {c} : e.tcd[other] = d.tcd[other]
    BY <1>1, <1>3, <1>4 DEF Tcd
  <1> QED BY <1>2, <1>3, <1>5 DEF Quiet

(* The whole of a service whose transfer went well. *)
LEMMA ServedFacts ==
  ASSUME NEW d \in Dma, service \in Service, service.count # 0,
         NEW e \in Served(d, service.channel)
  PROVE  /\ e \in Dma /\ e.priority = d.priority /\ e.hardware = d.hardware
         /\ Told(d) => Told(e)
         /\ OnRecord(d) => OnRecord(e)
         /\ CleanDescriptors /\ Quiet(d, {service.channel}) /\ "ACTIVE" \notin service.csr
              => Quiet(e, {})
  <1> DEFINE c == service.channel
             count == service.count - 1
             ended == Ended(d)
             t == SetIteration(ended.tcd[c], count)
             counted == [ended EXCEPT !.tcd[c] = t]
             linked == IF service.link = None THEN counted ELSE Queue(counted, service.link)
             halved == IF /\ service.beginning > 1 /\ count = service.beginning \div 2
                          /\ "INTHALF" \in service.csr /\ c \notin linked.half
                       THEN [linked EXCEPT !.half = @ \cup {c}, !.int = @ \cup {c}]
                       ELSE linked
             whole == [halved EXCEPT !.half = @ \ {c}]
             Kept(f) == /\ f \in Dma /\ f.priority = d.priority /\ f.hardware = d.hardware
                        /\ SameErrors(d, f)
                        /\ OnRecord(d) => OnRecord(f)
                        /\ f.tcd[c].csr = service.csr
                        /\ Quiet(d, {c}) /\ "ACTIVE" \notin service.csr => Quiet(f, {})
  <1>1. c \in Channels /\ count \in Nat
    BY CountsAssumption DEF Service
  <1>2. Kept(ended)
    BY EndedFacts DEF SameRequests, OnRecord
  <1>3. e \in (IF count = 0 THEN MajorOutcomes(whole, c) ELSE {halved})
    <2>1. linked.half = d.half
      BY <1>1, <1>2 DEF Queue, Ended, Dma
    <2> QED BY <2>1 DEF Served
  <1> HIDE DEF ended
  <1>4. t \in Tcd /\ t.csr = service.csr
    <2>1. ended.tcd[c] \in Tcd
      BY <1>1, <1>2 DEF Dma
    <2> QED BY <1>1, <1>2, <2>1, SetIterationFacts
  <1> HIDE DEF t
  <1>5. Kept(counted)
    <2>1. /\ counted \in Dma /\ SameErrors(ended, counted) /\ SameRequests(ended, counted)
          /\ counted.priority = ended.priority /\ counted.tcd = [ended.tcd EXCEPT ![c] = t]
          /\ Quiet(ended, {}) /\ "ACTIVE" \notin t.csr => Quiet(counted, {})
      BY <1>1, <1>2, <1>4, DescriptorFacts
    <2>2. counted.tcd[c] = t
      BY <1>1, <1>2, <2>1 DEF Dma
    <2> HIDE DEF counted
    <2> QED BY <1>2, <1>4, <2>1, <2>2 DEF SameErrors, SameRequests, OnRecord
  <1> HIDE DEF counted
  <1>6. Kept(linked)
    <2>1. LET q == Queue(counted, service.link)
          IN  /\ q \in Dma /\ SameErrors(counted, q) /\ SameDescriptors(counted, q)
              /\ q.priority = counted.priority
              /\ q.hardware = counted.hardware /\ q.source = counted.source
              /\ counted.requests \subseteq q.requests
      BY <1>5, QueueFacts
    <2> QED BY <1>5, <2>1 DEF SameErrors, SameDescriptors, OnRecord, Quiet
  <1> HIDE DEF linked
  <1>7. Kept(halved)
    <2>1. /\ halved \in Dma /\ SameErrors(linked, halved) /\ SameDescriptors(linked, halved)
          /\ SameRequests(linked, halved) /\ halved.priority = linked.priority
      BY <1>1, <1>6 DEF Dma, SameErrors, SameDescriptors, SameRequests
    <2> HIDE DEF halved
    <2> QED BY <1>6, <2>1 DEF SameErrors, SameDescriptors, SameRequests, OnRecord, Quiet
  <1> HIDE DEF halved
  <1>8. Kept(whole)
    <2>1. /\ whole \in Dma /\ SameErrors(halved, whole) /\ SameDescriptors(halved, whole)
          /\ SameRequests(halved, whole) /\ whole.priority = halved.priority
      BY <1>1, <1>7 DEF Dma, SameErrors, SameDescriptors, SameRequests
    <2> HIDE DEF whole
    <2> QED BY <1>7, <2>1 DEF SameErrors, SameDescriptors, SameRequests, OnRecord, Quiet
  <1> HIDE DEF whole
  <1>9. CASE count = 0
    <2>1. e \in MajorOutcomes(whole, c)
      BY <1>3, <1>9
    <2>2. /\ e \in Dma /\ e.priority = whole.priority /\ e.hardware = whole.hardware
          /\ Told(whole) => Told(e)
          /\ OnRecord(whole) => OnRecord(e)
          /\ \A cs : CleanDescriptors /\ Quiet(whole, cs) /\ "ACTIVE" \notin whole.tcd[c].csr
                       => Quiet(e, cs)
      BY <1>1, <1>8, <2>1, MajorOutcomesFacts
    <2> QED BY <1>8, <2>2 DEF SameErrors, Told
  <1>10. CASE count # 0
    BY <1>3, <1>7, <1>10 DEF SameErrors, Told
  <1> QED BY <1>9, <1>10

(* Errors are cleared with their summary. *)
LEMMA ClearErrorsFacts ==
  ASSUME NEW d \in Dma, NEW cs \in SUBSET Channels
  PROVE  LET e == ClearErrors(d, cs)
         IN  /\ e \in Dma /\ SameRequests(d, e) /\ SameDescriptors(d, e)
             /\ e.priority = d.priority
             /\ Told(d) => Told(e)
  <1> DEFINE e == ClearErrors(d, cs)
  <1>1. e \in Dma /\ SameRequests(d, e) /\ SameDescriptors(d, e) /\ e.priority = d.priority
    BY DEF ClearErrors, Dma, SameRequests, SameDescriptors
  <1>2. e.err = d.err \ cs /\ e.es = (IF d.err \subseteq cs THEN {} ELSE d.es)
    BY DEF ClearErrors, Dma
  <1> QED BY <1>1, <1>2 DEF Told

(* The state after a reset. *)
LEMMA ResetFacts ==
  /\ AfterReset \in Dma /\ Told(AfterReset) /\ LinesOf(AfterReset) /\ OnRecord(AfterReset)
  /\ InOrder(AfterReset) /\ Quiet(AfterReset, {})
  <1>1. ClearTcd \in Tcd
    BY CountsAssumption DEF ClearTcd, Tcd, LinkChannels, Flags
  <1>2. Off \in Mux
    BY ValuesAssumption DEF Mux, Off
  <1>3. N - 1 \in Channels
    BY CountsAssumption DEF Channels
  <1>4. AfterReset \in Dma
    <2>1. [c \in Channels |-> c] \in [Channels -> Nat]
      BY DEF Channels
    <2> QED BY <1>1, <1>2, <1>3, <2>1 DEF AfterReset, Dma
  <1>5. /\ Told(AfterReset) /\ LinesOf(AfterReset) /\ InOrder(AfterReset)
    BY DEF AfterReset, Told, LinesOf, InOrder
  <1>6. OnRecord(AfterReset)
    BY DEF AfterReset, OnRecord
  <1>7. Quiet(AfterReset, {})
    BY DEF AfterReset, Quiet, ClearTcd
  <1> QED BY <1>4, <1>5, <1>6, <1>7

-----------------------------------------------------------------------------
(* The inductive invariant *)

Good(d, cs) ==
  /\ d \in Dma
  /\ "REGISTERS" \notin Features => Told(d) /\ LinesOf(d)
  /\ PriorityValues = {} => OnRecord(d) /\ InOrder(d)
  /\ CleanDescriptors => Quiet(d, cs)
InTransfer == IF phase = "transfer" THEN {service.channel} ELSE {}

(* Besides the properties: what is put back at the end of a service has no
   active bit, there is something to count down, and the cycles of an advance
   are not used up before its end. *)
DmaInv ==
  /\ Good(dma, InTransfer)
  /\ service \in Service /\ phase \in {"idle", "arbitrate", "transfer"} /\ budget \in Nat
  /\ CleanDescriptors => "ACTIVE" \notin service.csr
  /\ phase = "transfer" => service.count # 0
  /\ phase # "idle" => budget # 0

(* Requests of always enabled channels keep all of it. *)
LEMMA AlwaysGood ==
  ASSUME NEW d, NEW cs, Good(d, cs), NEW xs \in SUBSET Channels
  PROVE  Good(QueueAlwaysEnabled(d, xs), cs)
  <1> DEFINE e == QueueAlwaysEnabled(d, xs)
  <1>1. /\ e \in Dma /\ SameErrors(d, e) /\ SameLines(d, e) /\ SameDescriptors(d, e)
        /\ e.priority = d.priority
        /\ OnRecord(d) => OnRecord(e)
    BY QueueAlwaysFacts DEF Good
  <1> HIDE DEF e
  <1>2. Good(e, cs)
    BY <1>1 DEF Good, SameErrors, SameLines, SameDescriptors, Told, LinesOf, InOrder, Quiet
  <1> QED BY <1>2 DEF e

(* An update brings the lines in step, whatever they were. *)
LEMMA UpdateGood ==
  ASSUME NEW d \in Dma, NEW cs,
         "REGISTERS" \notin Features => Told(d),
         PriorityValues = {} => OnRecord(d) /\ InOrder(d),
         CleanDescriptors => Quiet(d, cs)
  PROVE  Good(UpdateInterrupts(d), cs)
  <1> DEFINE e == UpdateInterrupts(d)
  <1>1. /\ e \in Dma /\ SameErrors(d, e) /\ SameDescriptors(d, e) /\ SameRequests(d, e)
        /\ e.priority = d.priority /\ LinesOf(e)
    BY UpdateFacts
  <1> HIDE DEF e
  <1>2. Good(e, cs)
    BY <1>1 DEF Good, SameErrors, SameDescriptors, SameRequests, Told, OnRecord, InOrder, Quiet
  <1> QED BY <1>2 DEF e

(* And so does a command. *)
LEMMA CommandedGood ==
  ASSUME NEW d \in Dma, NEW cs,
         "REGISTERS" \notin Features => Told(d),
         PriorityValues = {} => OnRecord(d) /\ InOrder(d),
         CleanDescriptors => Quiet(d, cs)
  PROVE  Good(UpdateInterrupts(QueueAlwaysEnabled(d, Channels)), cs)
  <1> DEFINE e == QueueAlwaysEnabled(d, Channels)
  <1>1. /\ e \in Dma /\ SameErrors(d, e) /\ SameDescriptors(d, e)
        /\ e.priority = d.priority
        /\ OnRecord(d) => OnRecord(e)
    BY QueueAlwaysFacts
  <1> HIDE DEF e
  <1>2. /\ "REGISTERS" \notin Features => Told(e)
        /\ PriorityValues = {} => OnRecord(e) /\ InOrder(e)
        /\ CleanDescriptors => Quiet(e, cs)
    BY <1>1 DEF SameErrors, SameDescriptors, Told, InOrder, Quiet
  <1> QED BY <1>1, <1>2, UpdateGood DEF e

(* An error keeps all of it, too. *)
LEMMA ErrorGood ==
  ASSUME NEW d, NEW cs, Good(d, cs), NEW c \in Channels, NEW reason \in Reasons
  PROVE  Good(Error(d, c, reason), cs)
  <1> DEFINE e == Error(d, c, reason)
  <1>1. /\ e \in Dma /\ SameDescriptors(d, e) /\ SameRequests(d, e)
        /\ e.priority = d.priority /\ e.err # {} /\ e.es # {}
        /\ LinesOf(d) => LinesOf(e)
    BY ErrorFacts DEF Good
  <1> HIDE DEF e
  <1>2. Good(e, cs)
    BY <1>1 DEF Good, SameDescriptors, SameRequests, Told, OnRecord, InOrder, Quiet
  <1> QED BY <1>2 DEF e

(* A step that takes a request. *)
LEMMA TakenGood ==
  ASSUME NEW d, NEW cs, Good(d, cs), NEW c \in Channels
  PROVE  Good(Taken(d, c), cs)
  <1> DEFINE e == Taken(d, c)
  <1>1. /\ e \in Dma /\ SameErrors(d, e) /\ SameLines(d, e) /\ SameDescriptors(d, e)
        /\ e.priority = d.priority
        /\ OnRecord(d) => OnRecord(e)
    BY TakenFacts DEF Good
  <1> HIDE DEF e
  <1>2. Good(e, cs)
    BY <1>1 DEF Good, SameErrors, SameLines, SameDescriptors, Told, LinesOf, InOrder, Quiet
  <1> QED BY <1>2 DEF e

(* A change of what the properties are not about. *)
Same(d, e) ==
  /\ SameErrors(d, e) /\ SameLines(d, e) /\ SameRequests(d, e) /\ SameDescriptors(d, e)
  /\ e.priority = d.priority

(* Such a change keeps all of it. *)
LEMMA SameGood ==
  ASSUME NEW d, NEW cs, Good(d, cs), NEW e \in Dma, Same(d, e)
  PROVE  Good(e, cs)
  BY DEF Good, Same, SameErrors, SameLines, SameRequests, SameDescriptors,
         Told, LinesOf, OnRecord, InOrder, Quiet

(* A descriptor may change, if it does not become active. *)
LEMMA DescriptorGood ==
  ASSUME NEW d, NEW cs, Good(d, cs), NEW c \in Channels, NEW t \in Tcd,
         CleanDescriptors /\ "ACTIVE" \in t.csr => "ACTIVE" \in d.tcd[c].csr
  PROVE  Good([d EXCEPT !.tcd[c] = t], cs)
  <1> DEFINE e == [d EXCEPT !.tcd[c] = t]
  <1>1. /\ e \in Dma /\ SameErrors(d, e) /\ SameLines(d, e) /\ SameRequests(d, e)
        /\ e.priority = d.priority /\ e.active = d.active
        /\ e.tcd = [d.tcd EXCEPT ![c] = t]
    BY DescriptorFacts DEF Good
  <1>2. d.tcd \in [Channels -> Tcd]
    BY DEF Good, Dma
  <1> HIDE DEF e
  <1>3. CleanDescriptors => Quiet(e, cs)
    BY <1>1, <1>2 DEF Good, Quiet
  <1>4. Good(e, cs)
    BY <1>1, <1>3 DEF Good, SameErrors, SameLines, SameRequests, Told, LinesOf, OnRecord, InOrder
  <1> QED BY <1>4 DEF e

(* A channel that is started. *)
LEMMA QueueGood ==
  ASSUME NEW d, NEW cs, Good(d, cs), NEW c
  PROVE  Good(Queue(d, c), cs)
  <1> DEFINE e == Queue(d, c)
  <1>1. /\ e \in Dma /\ SameErrors(d, e) /\ SameLines(d, e) /\ SameDescriptors(d, e)
        /\ e.priority = d.priority
        /\ e.hardware = d.hardware /\ e.source = d.source /\ d.requests \subseteq e.requests
    BY QueueFacts DEF Good
  <1> HIDE DEF e
  <1>2. Good(e, cs)
    BY <1>1 DEF Good, SameErrors, SameLines, SameDescriptors,
                Told, LinesOf, OnRecord, InOrder, Quiet
  <1> QED BY <1>2 DEF e

(* Requests of the hardware. *)
LEMMA QueueHardwareGood ==
  ASSUME NEW d, NEW cs, Good(d, cs), NEW xs \in SUBSET Channels
  PROVE  Good(QueueHardware(d, xs), cs)
  <1> DEFINE e == QueueHardware(d, xs)
  <1>1. /\ e \in Dma /\ SameErrors(d, e) /\ SameLines(d, e) /\ SameDescriptors(d, e)
        /\ e.priority = d.priority
        /\ OnRecord(d) => OnRecord(e)
    BY QueueHardwareFacts DEF Good
  <1> HIDE DEF e
  <1>2. Good(e, cs)
    BY <1>1 DEF Good, SameErrors, SameLines, SameDescriptors, Told, LinesOf, InOrder, Quiet
  <1> QED BY <1>2 DEF e

(* An action of the firmware or of a peripheral. *)
LEMMA AskedInv ==
  ASSUME DmaInv, NEW d, Good(d, InTransfer), Asked(d)
  PROVE  DmaInv'
  BY DEF DmaInv, Asked, InTransfer

(* Requests of peripherals and of the timer that paces them. *)
LEMMA RequestInv == DmaInv /\ Request => DmaInv'
  <1> SUFFICES ASSUME DmaInv, Request PROVE DmaInv'
    OBVIOUS
  <1>1. PICK source \in Sources :
          LET asked == {c \in dma.erq : dma.mux[c].on /\ dma.mux[c].source = source}
              paced == {c \in asked \cap TriggerChannels : dma.mux[c].periodic}
          IN  Asked([QueueHardware(dma, asked \ paced) EXCEPT !.waiting = @ \cup paced])
    BY DEF Request
  <1> DEFINE asked == {c \in dma.erq : dma.mux[c].on /\ dma.mux[c].source = source}
             paced == {c \in asked \cap TriggerChannels : dma.mux[c].periodic}
             queued == QueueHardware(dma, asked \ paced)
             d == [queued EXCEPT !.waiting = @ \cup paced]
  <1>2. asked \ paced \in SUBSET Channels /\ paced \in SUBSET Channels
    BY DEF DmaInv, Good, Dma
  <1>3. Good(queued, InTransfer)
    BY <1>2, QueueHardwareGood DEF DmaInv
  <1> HIDE DEF queued
  <1>4. d \in Dma /\ Same(queued, d)
    <2> HIDE DEF paced
    <2> QED BY <1>2, <1>3 DEF Good, Dma, Same, SameErrors, SameLines, SameRequests, SameDescriptors
  <1>5. Good(d, InTransfer)
    BY <1>3, <1>4, SameGood
  <1> QED BY <1>1, <1>5, AskedInv DEF queued

(* A timer releases the request that waits for it. *)
LEMMA TriggerInv == DmaInv /\ Trigger => DmaInv'
  <1> SUFFICES ASSUME DmaInv, Trigger PROVE DmaInv'
    OBVIOUS
  <1>1. PICK c \in Channels : Asked(QueueHardware([dma EXCEPT !.waiting = @ \ {c}], {c}))
    BY ValuesAssumption DEF Trigger
  <1> DEFINE d == [dma EXCEPT !.waiting = @ \ {c}]
  <1>2. d \in Dma /\ Same(dma, d)
    BY DEF DmaInv, Good, Dma, Same, SameErrors, SameLines, SameRequests, SameDescriptors
  <1>3. Good(d, InTransfer)
    BY <1>2, SameGood DEF DmaInv
  <1>4. Good(QueueHardware(d, {c}), InTransfer)
    BY <1>3, QueueHardwareGood
  <1> QED BY <1>1, <1>4, AskedInv

(* The commands. *)
CommandEffect(cs, d) ==
  \/ d = [dma EXCEPT !.erq = @ \cup cs]
  \/ d = [dma EXCEPT !.erq = @ \ cs]
  \/ d = [dma EXCEPT !.eei = @ \cup cs]
  \/ d = [dma EXCEPT !.eei = @ \ cs]
  \/ d = [dma EXCEPT !.int = @ \ cs]
  \/ d = ClearErrors(dma, cs)

(* Each of them, for one channel or all. *)
LEMMA CommandInv == DmaInv /\ Command => DmaInv'
  <1> SUFFICES ASSUME DmaInv, Command PROVE DmaInv'
    OBVIOUS
  <1>0. PICK cs \in SUBSET Channels : \E d : Commanded(d) /\ CommandEffect(cs, d)
    BY DEF Command, OneOrAll, CommandEffect
  <1>1. PICK d : Commanded(d) /\ CommandEffect(cs, d)
    BY <1>0
  <1>2. dma \in Dma
    BY DEF DmaInv, Good
  <1>3. /\ d \in Dma /\ d.priority = dma.priority
        /\ SameRequests(dma, d) /\ SameDescriptors(dma, d)
        /\ Told(dma) => Told(d)
    <2>1. CASE d = ClearErrors(dma, cs)
      BY <1>2, <2>1, ClearErrorsFacts
    <2>2. CASE d # ClearErrors(dma, cs)
      BY <1>1, <1>2, <2>2 DEF CommandEffect, Dma, SameRequests, SameDescriptors, Told
    <2> QED BY <2>1, <2>2
  <1>4. /\ "REGISTERS" \notin Features => Told(d)
        /\ PriorityValues = {} => OnRecord(d) /\ InOrder(d)
        /\ CleanDescriptors => Quiet(d, InTransfer)
    <2>1. "REGISTERS" \notin Features => Told(d)
      BY <1>3 DEF DmaInv, Good
    <2>2. PriorityValues = {} => OnRecord(d) /\ InOrder(d)
      BY <1>3 DEF DmaInv, Good, SameRequests, OnRecord, InOrder
    <2>3. CleanDescriptors => Quiet(d, InTransfer)
      BY <1>3 DEF DmaInv, Good, SameDescriptors, Quiet
    <2> QED BY <2>1, <2>2, <2>3
  <1>5. Good(UpdateInterrupts(QueueAlwaysEnabled(d, Channels)), InTransfer)
    BY <1>3, <1>4, CommandedGood
  <1> QED BY <1>1, <1>5, AskedInv DEF Commanded

(* A software start, or DONE cleared. *)
LEMMA StartOrRearmInv == DmaInv /\ StartOrRearm => DmaInv'
  <1> SUFFICES ASSUME DmaInv, StartOrRearm PROVE DmaInv'
    OBVIOUS
  <1>1. PICK c \in Channels : \/ Commanded(Queue(dma, c))
                              \/ Commanded([dma EXCEPT !.tcd[c].csr = @ \ {"DONE"}])
    BY DEF StartOrRearm
  <1>2. ASSUME NEW d, Good(d, InTransfer), Commanded(d)
        PROVE  DmaInv'
    <2>1. Good(UpdateInterrupts(QueueAlwaysEnabled(d, Channels)), InTransfer)
      BY <1>2, CommandedGood DEF Good
    <2> QED BY <1>2, <2>1, AskedInv DEF Commanded
  <1>3. Good(Queue(dma, c), InTransfer)
    BY QueueGood DEF DmaInv
  <1>4. Good([dma EXCEPT !.tcd[c].csr = @ \ {"DONE"}], InTransfer)
    <2> DEFINE t == [dma.tcd[c] EXCEPT !.csr = @ \ {"DONE"}]
    <2>1. dma.tcd[c] \in Tcd
      BY DEF DmaInv, Good, Dma
    <2>2. t \in Tcd /\ ("ACTIVE" \in t.csr => "ACTIVE" \in dma.tcd[c].csr)
      BY <2>1 DEF Tcd
    <2> QED BY <2>2, DescriptorGood DEF DmaInv
  <1> QED BY <1>1, <1>2, <1>3, <1>4

(* The registers. *)
LEMMA WriteControlInv == DmaInv /\ WriteControl => DmaInv'
  <1> SUFFICES ASSUME DmaInv, WriteControl PROVE DmaInv'
    OBVIOUS
  <1>0. dma \in Dma /\ Good(dma, InTransfer)
    BY DEF DmaInv, Good
  <1>1. CASE \E value \in CrValues : Asked([dma EXCEPT !.cr = value])
    <2>1. PICK value \in SUBSET Controls : Asked([dma EXCEPT !.cr = value])
      BY <1>1, ValuesAssumption
    <2> DEFINE d == [dma EXCEPT !.cr = value]
    <2>2. d \in Dma /\ Same(dma, d)
      BY <1>0 DEF Dma, Same, SameErrors, SameLines, SameRequests, SameDescriptors
    <2> QED BY <1>0, <2>1, <2>2, SameGood, AskedInv
  <1>2. CASE \E c \in Channels, value \in PriorityValues :
               Asked([dma EXCEPT !.priority[c] = value])
    <2>1. PICK c \in Channels, value \in PriorityValues :
            Asked([dma EXCEPT !.priority[c] = value])
      BY <1>2
    <2> DEFINE d == [dma EXCEPT !.priority[c] = value]
    <2>2. value \in Nat /\ PriorityValues # {}
      BY ValuesAssumption
    <2>3. /\ d \in Dma /\ SameErrors(dma, d) /\ SameLines(dma, d) /\ SameRequests(dma, d)
          /\ SameDescriptors(dma, d)
      BY <1>0, <2>2 DEF Dma, SameErrors, SameLines, SameRequests, SameDescriptors
    <2> HIDE DEF d
    <2>4. Good(d, InTransfer)
      BY <1>0, <2>2, <2>3 DEF Good, SameErrors, SameLines, SameDescriptors, Told, LinesOf, Quiet
    <2> QED BY <2>1, <2>4, AskedInv DEF d
  <1> QED BY <1>1, <1>2 DEF WriteControl

EnableEffect(cs, d) ==
  \/ d = [dma EXCEPT !.erq = cs]
  \/ d = [dma EXCEPT !.eei = cs]
  \/ d = [dma EXCEPT !.int = (@ \ HighChannels) \cup (cs \cap HighChannels)]
  \/ d = [dma EXCEPT !.err = (@ \ HighChannels) \cup (cs \cap HighChannels)]
  \/ d = [dma EXCEPT !.es = @ \ {"priority"}]
  \/ d = [dma EXCEPT !.es = @ \cup {"priority"}]

(* Writes that report nothing to the lines, where the feature allows them. *)
LEMMA WriteEnablesInv == DmaInv /\ WriteEnables => DmaInv'
  <1> SUFFICES ASSUME DmaInv, WriteEnables PROVE DmaInv'
    OBVIOUS
  <1> DEFINE Done(d) == Asked(d) \/ Asked(QueueAlwaysEnabled(d, Channels))
  <1>0. dma \in Dma /\ Good(dma, InTransfer) /\ "REGISTERS" \in Features
    BY DEF DmaInv, Good, WriteEnables
  <1>a. PICK cs \in SUBSET Channels : \E d : Done(d) /\ EnableEffect(cs, d)
    BY DEF WriteEnables, EnableEffect
  <1>1. PICK d : Done(d) /\ EnableEffect(cs, d)
    BY <1>a
  <1>2. d \in Dma /\ d.priority = dma.priority /\ SameRequests(dma, d) /\ SameDescriptors(dma, d)
    BY <1>0, <1>1, ValuesAssumption DEF EnableEffect, Dma, Reasons, SameRequests, SameDescriptors
  <1>3. Good(d, InTransfer)
    BY <1>0, <1>2 DEF Good, SameRequests, SameDescriptors, OnRecord, InOrder, Quiet
  <1>4. Good(QueueAlwaysEnabled(d, Channels), InTransfer)
    BY <1>3, AlwaysGood
  <1> QED BY <1>1, <1>3, <1>4, AskedInv

(* The descriptors. *)
LEMMA WriteTcdInv == DmaInv /\ WriteTcd => DmaInv'
  <1> SUFFICES ASSUME DmaInv, WriteTcd PROVE DmaInv'
    OBVIOUS
  <1>0. PICK c \in Channels, t \in Descriptors :
          \E next \in FieldsWritten(dma.tcd[c], t) \cup FlagsWritten(dma.tcd[c], t) :
            \/ Asked([dma EXCEPT !.tcd[c] = next])
            \/ Asked(Queue([dma EXCEPT !.tcd[c] = next], c))
    BY ValuesAssumption DEF WriteTcd
  <1>1. PICK next \in FieldsWritten(dma.tcd[c], t) \cup FlagsWritten(dma.tcd[c], t) :
          \/ Asked([dma EXCEPT !.tcd[c] = next])
          \/ Asked(Queue([dma EXCEPT !.tcd[c] = next], c))
    BY <1>0
  <1> DEFINE old == dma.tcd[c]
             put == [dma EXCEPT !.tcd[c] = next]
  <1>2. t \in Tcd /\ old \in Tcd
    BY ValuesAssumption DEF DmaInv, Good, Dma
  <1>3. \/ next = [old EXCEPT !.good = t.good]
        \/ next = [old EXCEPT !.citer = t.citer, !.link = t.link]
        \/ next = [old EXCEPT !.biter = t.biter]
        \/ next = [old EXCEPT !.major = t.major]
        \/ next = [old EXCEPT !.csr = t.csr, !.major = t.major, !.biter = t.biter]
        \/ \E major \in {t.major, old.major} :
             next = [old EXCEPT !.csr = (t.csr \ Status) \cup (@ \cap Status), !.major = major]
    <2> HIDE DEF old
    <2> QED BY DEF FieldsWritten, FlagsWritten, old
  <1> HIDE DEF old
  <1>4. next \in Tcd /\ (next.csr = old.csr \/ next.csr = t.csr
                          \/ next.csr = (t.csr \ Status) \cup (old.csr \cap Status))
    BY <1>2, <1>3 DEF Tcd
  <1>5. CleanDescriptors /\ "ACTIVE" \in next.csr => "ACTIVE" \in old.csr
    BY <1>4 DEF CleanDescriptors, Status
  <1>6. Good(put, InTransfer)
    BY <1>4, <1>5, DescriptorGood DEF DmaInv, old
  <1> HIDE DEF put
  <1>7. Good(Queue(put, c), InTransfer)
    BY <1>6, QueueGood
  <1> QED BY <1>1, <1>6, <1>7, AskedInv DEF put

(* The multiplexer. *)
LEMMA WriteMuxInv == DmaInv /\ WriteMux => DmaInv'
  <1> SUFFICES ASSUME DmaInv, WriteMux PROVE DmaInv'
    OBVIOUS
  <1>1. PICK c \in Channels, value \in Mux :
          Asked(QueueAlwaysEnabled([dma EXCEPT !.mux[c] = value, !.waiting = @ \ {c}], {c}))
    BY ValuesAssumption DEF WriteMux
  <1> DEFINE d == [dma EXCEPT !.mux[c] = value, !.waiting = @ \ {c}]
  <1>2. dma \in Dma /\ Good(dma, InTransfer)
    BY DEF DmaInv, Good
  <1>3. d \in Dma /\ Same(dma, d)
    BY <1>2 DEF Dma, Same, SameErrors, SameLines, SameRequests, SameDescriptors
  <1>4. Good(QueueAlwaysEnabled(d, {c}), InTransfer)
    BY <1>2, <1>3, SameGood, AlwaysGood
  <1> QED BY <1>1, <1>4, AskedInv

(* A reset, also one in the middle of a service. *)
LEMMA ResetInv == DmaInv /\ Reset => DmaInv'
  <1> SUFFICES ASSUME DmaInv, Reset PROVE DmaInv'
    OBVIOUS
  <1>1. Good(AfterReset, InTransfer)
    BY ResetFacts DEF Good, Quiet
  <1> QED BY <1>1, AskedInv DEF Reset

-----------------------------------------------------------------------------
(* The loop of the controller *)

(* An advance begins and ends outside of transfers. *)
LEMMA AdvanceInv == DmaInv /\ (Advance \/ AdvanceEnds) => DmaInv'
  <1> SUFFICES ASSUME DmaInv, Advance \/ AdvanceEnds PROVE DmaInv'
    OBVIOUS
  <1>1. CASE Advance
    <2>1. PICK cycles \in Budgets, halted \in BOOLEAN :
            /\ dma' = [dma EXCEPT !.halted = halted]
            /\ budget' = cycles
      BY <1>1 DEF Advance
    <2>2. dma' \in Dma /\ Same(dma, dma')
      BY <2>1 DEF DmaInv, Good, Dma, Same, SameErrors, SameLines, SameRequests, SameDescriptors
    <2>3. InTransfer' = InTransfer
      BY <1>1 DEF Advance, InTransfer
    <2>4. Good(dma', InTransfer')
      BY <2>2, <2>3, SameGood DEF DmaInv
    <2>5. budget' \in Nat \ {0}
      BY <2>1, ValuesAssumption
    <2> QED BY <1>1, <2>4, <2>5 DEF DmaInv, Advance
  <1>2. CASE AdvanceEnds
    BY <1>2 DEF AdvanceEnds, DmaInv, InTransfer
  <1> QED BY <1>1, <1>2

(* Requests that end in an error before the transfer. *)
LEMMA PriorityErrorInv == DmaInv /\ PriorityError => DmaInv'
  <1> SUFFICES ASSUME DmaInv, PriorityError PROVE DmaInv'
    OBVIOUS
  <1>1. PICK c \in Channels :
          dma' = [Error(dma, c, "priority") EXCEPT !.requests = @ \ {c}, !.hardware = @ \ {c}]
    BY DEF PriorityError
  <1> DEFINE d == Error(dma, c, "priority")
  <1>2. Good(d, InTransfer)
    BY ErrorGood DEF DmaInv, Reasons
  <1> HIDE DEF d
  <1>3. /\ dma' \in Dma /\ SameErrors(d, dma') /\ SameLines(d, dma')
        /\ SameDescriptors(d, dma') /\ dma'.priority = d.priority
    BY <1>1, <1>2 DEF d, Good, Dma, SameErrors, SameLines, SameDescriptors
  <1>4. PriorityValues # {}
    <2>1. ~PrioritiesValid(dma)
      BY DEF PriorityError, Conflict
    <2>2. ~InOrder(dma)
      BY <2>1 DEF PrioritiesValid, InOrder
    <2> QED BY <2>2 DEF DmaInv, Good
  <1>5. InTransfer' = InTransfer
    BY DEF PriorityError, InTransfer
  <1>6. Good(dma', InTransfer')
    BY <1>2, <1>3, <1>4, <1>5
       DEF Good, SameErrors, SameLines, SameDescriptors, Told, LinesOf, Quiet
  <1> QED BY <1>6 DEF DmaInv, PriorityError

(* A descriptor that does not fit. *)
LEMMA ConfigErrorInv == DmaInv /\ ConfigError => DmaInv'
  <1> SUFFICES ASSUME DmaInv, ConfigError PROVE DmaInv'
    OBVIOUS
  <1>1. PICK c \in Channels : dma' = Error(Taken(dma, c), c, "config")
    BY DEF ConfigError
  <1>2. Good(Taken(dma, c), InTransfer)
    BY TakenGood DEF DmaInv
  <1>3. Good(dma', InTransfer)
    BY <1>1, <1>2, ErrorGood DEF Reasons
  <1>4. UNCHANGED <<service, phase, budget>>
    BY DEF ConfigError
  <1> QED BY <1>3, <1>4 DEF DmaInv, InTransfer

(* A transfer begins: the only active channel is the one it serves. *)
LEMMA BeginInv == DmaInv /\ Begin => DmaInv'
  <1> SUFFICES ASSUME DmaInv, Begin PROVE DmaInv'
    OBVIOUS
  <1>1. PICK c \in Channels :
          /\ Fits(dma.tcd[c])
          /\ dma' = [Taken(dma, c) EXCEPT !.tcd[c].csr = @ \cup {"ACTIVE"}, !.active = @ \cup {c}]
          /\ service' = [channel |-> c, source |-> dma.source[c], count |-> dma.tcd[c].citer,
                         link |-> dma.tcd[c].link, beginning |-> dma.tcd[c].biter,
                         csr |-> dma.tcd[c].csr]
    BY DEF Begin
  <1> DEFINE taken == Taken(dma, c)
             t == [taken.tcd[c] EXCEPT !.csr = @ \cup {"ACTIVE"}]
  <1>2. /\ dma \in Dma /\ Good(taken, {}) /\ taken \in Dma /\ taken.tcd = dma.tcd
        /\ CleanDescriptors => Quiet(dma, {})
    <2>1. InTransfer = {}
      BY DEF Begin, InTransfer
    <2> QED BY <2>1, TakenGood, TakenFacts DEF DmaInv, Good, SameDescriptors
  <1> HIDE DEF taken
  <1>3. taken.tcd \in [Channels -> Tcd] /\ t \in Tcd
    <2>1. taken.tcd \in [Channels -> Tcd]
      BY <1>2 DEF Dma
    <2>2. taken.tcd[c] \in Tcd
      BY <2>1
    <2> QED BY <2>1, <2>2 DEF Tcd, Flags
  <1> HIDE DEF t
  <1>4. /\ dma' \in Dma /\ SameErrors(taken, dma') /\ SameLines(taken, dma')
        /\ SameRequests(taken, dma') /\ dma'.priority = taken.priority
        /\ dma'.tcd = [taken.tcd EXCEPT ![c] = t] /\ dma'.active = taken.active \cup {c}
    BY <1>1, <1>2, <1>3 DEF taken, t, Dma, SameErrors, SameLines, SameRequests
  <1>5. CleanDescriptors => Quiet(dma', {c})
    BY <1>2, <1>3, <1>4 DEF Good, Quiet
  <1>6. InTransfer' = {c}
    BY <1>1 DEF Begin, InTransfer
  <1>7. Good(dma', InTransfer')
    BY <1>2, <1>4, <1>5, <1>6
       DEF Good, SameErrors, SameLines, SameRequests, Told, LinesOf, OnRecord, InOrder
  <1>8. service' \in Service /\ service'.count # 0
    BY <1>1, <1>2 DEF Service, Dma, Tcd, Fits
  <1>9. CleanDescriptors => "ACTIVE" \notin service'.csr
    BY <1>1, <1>2 DEF Quiet
  <1> QED BY <1>7, <1>8, <1>9 DEF DmaInv, Begin

(* A service ends, and no channel is active. *)
LEMMA BusErrorInv == DmaInv /\ BusError => DmaInv'
  <1> SUFFICES ASSUME DmaInv, BusError PROVE DmaInv'
    OBVIOUS
  <1> DEFINE c == service.channel
             d == Error(dma, c, "bus")
  <1>1. dma' = Ended(d) /\ c \in Channels /\ InTransfer = {c} /\ InTransfer' = {}
    BY DEF BusError, DmaInv, Service, InTransfer
  <1>2. Good(d, {c})
    BY <1>1, ErrorGood DEF DmaInv, Reasons
  <1> HIDE DEF d
  <1>3. /\ dma' \in Dma /\ SameErrors(d, dma') /\ SameLines(d, dma') /\ SameRequests(d, dma')
        /\ dma'.priority = d.priority
        /\ Quiet(d, {c}) /\ "ACTIVE" \notin service.csr => Quiet(dma', {})
    BY <1>1, <1>2, EndedFacts DEF DmaInv, Good
  <1>4. Good(dma', {})
    BY <1>2, <1>3 DEF DmaInv, Good, SameErrors, SameLines, SameRequests,
                      Told, LinesOf, OnRecord, InOrder
  <1>5. NoService \in Service /\ NoService.csr = {}
    BY CountsAssumption DEF NoService, Service, Channels, LinkChannels, Flags
  <1> QED BY <1>1, <1>4, <1>5 DEF DmaInv, BusError

(* A transfer that went well, with all that follows. *)
LEMMA CompleteInv == DmaInv /\ Complete => DmaInv'
  <1> SUFFICES ASSUME DmaInv, Complete PROVE DmaInv'
    OBVIOUS
  <1> DEFINE c == service.channel
  <1>1. PICK served \in Served(dma, c) :
          dma' = IF service.source \in AlwaysEnabled
                 THEN QueueAlwaysEnabled(UpdateInterrupts(served), {c})
                 ELSE UpdateInterrupts(served)
    BY DEF Complete
  <1>2. /\ service \in Service /\ service.count # 0 /\ c \in Channels /\ InTransfer = {c}
        /\ InTransfer' = {}
    BY DEF Complete, DmaInv, Service, InTransfer
  <1>3. /\ served \in Dma /\ served.priority = dma.priority
        /\ Told(dma) => Told(served)
        /\ OnRecord(dma) => OnRecord(served)
        /\ CleanDescriptors /\ Quiet(dma, {c}) /\ "ACTIVE" \notin service.csr => Quiet(served, {})
    BY <1>2, ServedFacts DEF DmaInv, Good
  <1>4. /\ "REGISTERS" \notin Features => Told(served)
        /\ PriorityValues = {} => OnRecord(served) /\ InOrder(served)
        /\ CleanDescriptors => Quiet(served, {})
    BY <1>2, <1>3 DEF DmaInv, Good, InOrder
  <1>5. Good(UpdateInterrupts(served), {})
    BY <1>3, <1>4, UpdateGood
  <1>6. Good(dma', InTransfer')
    BY <1>1, <1>2, <1>5, AlwaysGood
  <1>7. NoService \in Service /\ NoService.csr = {}
    BY CountsAssumption DEF NoService, Service, Channels, LinkChannels, Flags
  <1>8. /\ budget' \in Nat /\ phase' \in {"idle", "arbitrate"}
        /\ phase' # "idle" => budget' # 0
    BY DEF Complete, DmaInv
  <1> QED BY <1>6, <1>7, <1>8 DEF DmaInv, Complete

-----------------------------------------------------------------------------
(* The controller starts in the state after a reset. *)
LEMMA InitInv == Init => DmaInv
  <1>1. NoService \in Service /\ NoService.csr = {}
    BY CountsAssumption DEF NoService, Service, Channels, LinkChannels, Flags
  <1>2. Init => Good(dma, InTransfer)
    BY ResetFacts DEF Init, Good, InTransfer
  <1> QED BY <1>1, <1>2 DEF Init, DmaInv

(* Every step keeps the invariant. *)
LEMMA NextInv == DmaInv /\ [Next]_vars => DmaInv'
  <1> SUFFICES ASSUME DmaInv, [Next]_vars PROVE DmaInv'
    OBVIOUS
  <1>1. CASE UNCHANGED vars
    BY <1>1 DEF vars, DmaInv, InTransfer
  <1>2. CASE Next
    BY <1>2, AdvanceInv, PriorityErrorInv, ConfigErrorInv, BeginInv, BusErrorInv, CompleteInv,
       RequestInv, TriggerInv, CommandInv, StartOrRearmInv, WriteControlInv, WriteEnablesInv,
       WriteTcdInv, WriteMuxInv, ResetInv DEF Next
  <1> QED BY <1>1, <1>2

(* The invariant, of which the properties are parts. *)
THEOREM DmaInvariant == Spec => []DmaInv
  BY InitInv, NextInv, PTL DEF Spec

(* Every field keeps its range: counts and links fit, requests are only those
   of channels that are there. *)
THEOREM DmaTypeCorrect == Spec => []TypeOK
  <1>1. DmaInv => TypeOK
    BY DEF DmaInv, Good, TypeOK
  <1> QED BY <1>1, DmaInvariant, PTL

(* Errors are told by channel and in summary, or not at all. *)
THEOREM ErrorsAreTold == Spec => []ErrorsTold
  <1>1. DmaInv => ErrorsTold
    BY DEF DmaInv, Good, Told, ErrorsTold
  <1> QED BY <1>1, DmaInvariant, PTL

(* The interrupt lines are never behind the registers. *)
THEOREM LinesAreInStep == Spec => []LinesInStep
  <1>1. DmaInv => LinesInStep
    BY DEF DmaInv, Good, LinesOf, LinesInStep, InStep
  <1> QED BY <1>1, DmaInvariant, PTL

(* Sources are on record for the requests of the hardware and no others. *)
THEOREM SourcesAreOnRecord == Spec => []SourcesOnRecord
  <1>1. DmaInv => SourcesOnRecord
    BY DEF DmaInv, Good, OnRecord, SourcesOnRecord
  <1> QED BY <1>1, DmaInvariant, PTL

(* No service leaves a channel active behind. *)
THEOREM NobodyStaysActive == Spec => []OnlyTheServedIsActive
  <1>1. DmaInv => OnlyTheServedIsActive
    BY DEF DmaInv, Good, Quiet, CleanDescriptors, InTransfer, OnlyTheServedIsActive
  <1> QED BY <1>1, DmaInvariant, PTL

(* A service that ends well: what the last two theorems need of it. *)
LEMMA CompleteFacts ==
  ASSUME DmaInv, Complete
  PROVE  LinesOf(dma') /\ dma'.hardware \subseteq dma.hardware \cup dma'.erq
  <1> DEFINE c == service.channel
  <1>1. PICK served \in Served(dma, c) :
          dma' = IF service.source \in AlwaysEnabled
                 THEN QueueAlwaysEnabled(UpdateInterrupts(served), {c})
                 ELSE UpdateInterrupts(served)
    BY DEF Complete
  <1>2. served \in Dma /\ served.hardware = dma.hardware /\ {c} \in SUBSET Channels
    BY ServedFacts DEF DmaInv, Good, Complete, Service
  <1> DEFINE d == UpdateInterrupts(served)
  <1>3. d \in Dma /\ d.hardware = dma.hardware /\ LinesOf(d)
    BY <1>2, UpdateFacts DEF SameRequests
  <1> HIDE DEF c, d
  <1>4. LET e == QueueAlwaysEnabled(d, {c})
        IN  /\ SameErrors(d, e) /\ SameLines(d, e)
            /\ e.hardware \subseteq d.hardware \cup d.erq /\ e.erq = d.erq
    BY <1>2, <1>3, QueueAlwaysFacts
  <1>5. LinesOf(QueueAlwaysEnabled(d, {c}))
    BY <1>3, <1>4 DEF SameErrors, SameLines, LinesOf
  <1>6. dma' = d \/ dma' = QueueAlwaysEnabled(d, {c})
    BY <1>1 DEF c, d
  <1> QED BY <1>3, <1>4, <1>5, <1>6

(* After a service or a command the lines are what the registers say, even if
   the firmware wrote the registers directly before. *)
THEOREM LinesAlwaysCatchUp == Spec => LinesCatchUp
  <1>1. DmaInv /\ [Next]_vars => [Complete \/ Command \/ StartOrRearm => InStep']_vars
    <2> SUFFICES ASSUME DmaInv, Complete \/ Command \/ StartOrRearm PROVE LinesOf(dma')
      BY DEF InStep, LinesOf
    <2>1. CASE Complete
      BY <2>1, CompleteFacts
    <2>2. ASSUME NEW d \in Dma, Commanded(d)
          PROVE  LinesOf(dma')
      <3>1. QueueAlwaysEnabled(d, Channels) \in Dma
        BY QueueAlwaysFacts
      <3> QED BY <2>2, <3>1, UpdateFacts DEF Commanded, Asked
    <2>3. CASE Command
      <3>1. PICK cs \in SUBSET Channels : \E d : Commanded(d) /\ CommandEffect(cs, d)
        BY <2>3 DEF Command, OneOrAll, CommandEffect
      <3>2. PICK d : Commanded(d) /\ CommandEffect(cs, d)
        BY <3>1
      <3>3. dma \in Dma
        BY DEF DmaInv, Good
      <3>4. ClearErrors(dma, cs) \in Dma
        BY <3>3, ClearErrorsFacts
      <3>5. d \in Dma
        BY <3>2, <3>3, <3>4 DEF CommandEffect, Dma
      <3> QED BY <3>2, <3>5, <2>2
    <2>4. CASE StartOrRearm
      <3>1. PICK c \in Channels : \/ Commanded(Queue(dma, c))
                                  \/ Commanded([dma EXCEPT !.tcd[c].csr = @ \ {"DONE"}])
        BY <2>4 DEF StartOrRearm
      <3>2. dma \in Dma
        BY DEF DmaInv, Good
      <3>3. Queue(dma, c) \in Dma
        BY <3>2, QueueFacts
      <3>4. [dma EXCEPT !.tcd[c].csr = @ \ {"DONE"}] \in Dma
        <4>1. dma.tcd[c] \in Tcd
          BY <3>2 DEF Dma
        <4>2. [dma.tcd[c] EXCEPT !.csr = @ \ {"DONE"}] \in Tcd
          BY <4>1 DEF Tcd
        <4> QED BY <3>2, <4>2 DEF Dma
      <3> QED BY <3>1, <3>3, <3>4, <2>2
    <2> QED BY <2>1, <2>3, <2>4
  <1> QED BY <1>1, DmaInvariant, PTL DEF Spec, LinesCatchUp

(* A channel that its own service disables does not start over. *)
THEOREM DisabledStaysDisabled == Spec => DisabledAtTheEnd
  <1> DEFINE Ends == phase = "transfer" /\ phase' # "transfer" =>
                       \A c \in dma.erq \ dma'.erq : c \in dma'.hardware => c \in dma.hardware
  <1>1. DmaInv /\ [Next]_vars => [Ends]_vars
    <2> SUFFICES ASSUME DmaInv, Next, phase = "transfer", phase' # "transfer"
                 PROVE  \A c \in dma.erq \ dma'.erq : c \in dma'.hardware => c \in dma.hardware
      OBVIOUS
    <2>1. BusError \/ Complete
      BY DEF Next, Advance, AdvanceEnds, PriorityError, ConfigError, Begin, Request, Trigger,
             Command, Commanded, StartOrRearm, WriteControl, WriteEnables, WriteTcd, WriteMux,
             Reset, Asked
    <2>2. CASE Complete
      BY <2>2, CompleteFacts
    <2>3. CASE BusError
      <3>1. service.channel \in Channels /\ dma \in Dma
        BY DEF DmaInv, Good, Service
      <3>2. LET d == Error(dma, service.channel, "bus") IN d \in Dma /\ SameRequests(dma, d)
        BY <3>1, ErrorFacts DEF Reasons
      <3>3. SameRequests(dma, dma')
        BY <2>3, <3>2, EndedFacts DEF DmaInv, BusError, SameRequests
      <3> QED BY <3>3 DEF SameRequests
    <2> QED BY <2>1, <2>2, <2>3
  <1> QED BY <1>1, DmaInvariant, PTL DEF Spec, DisabledAtTheEnd

(* Errors show in the summary, by channel and on the lines, for any number of
   channels and descriptors. *)
THEOREM ErrorsAreReported == Spec => []ErrorsReported
  BY ErrorsAreTold, LinesAreInStep, PTL DEF ErrorsReported

(* Whatever ends a channel leaves it in order: types, sources, its request and, at the
   next service or command, the lines. *)
THEOREM ChannelsAreFinished == Spec => ChannelsFinish
  BY DmaTypeCorrect, SourcesAreOnRecord, DisabledStaysDisabled, LinesAlwaysCatchUp, PTL
     DEF ChannelsFinish
=============================================================================
