------------------------------- MODULE MCDma --------------------------------
(***************************************************************************)
(* Instances of the DMA controller for TLC.                                *)
(***************************************************************************)
EXTENDS DmaController

CONSTANTS Uart, Always   \* a source of a peripheral, an always enabled one

Descriptor(count, link, csr, major) ==
  [citer |-> count, link |-> link, biter |-> count, csr |-> csr, major |-> major, good |-> TRUE]

(* One iteration that disables its channel; two iterations with the half
   interrupt, linked to channel 1; one iteration that disables the channel, loads
   another descriptor and links to a channel that is not there. *)
Once == Descriptor(1, None, {"DREQ", "INTMAJOR"}, 0)
Twice == Descriptor(2, None, {"INTHALF", "MAJORELINK"}, 1)
Chained == Descriptor(1, None, {"ESG", "DREQ", "INTMAJOR", "MAJORELINK"}, N)

On(s) == [on |-> TRUE, periodic |-> FALSE, source |-> s]
Paced(s) == [on |-> TRUE, periodic |-> TRUE, source |-> s]
AllSources == {Uart, Always}
AlwaysSources == {Always}

OnceDescriptors == {Once}
ChainDescriptors == {Once, Chained}
LiveDescriptors == {Twice}
RequestMux == {On(Uart), On(Always), Paced(Uart)}
ChainMux == {On(Always)}
LiveMux == {On(Always)}

(* The run on requests and errors looks at each at the full while the other is
   simple: with control bits, priorities or error interrupts written no peripheral
   is let through, and the other way round. *)
RequestsOrErrors ==
  \/ dma.cr = {} /\ dma.eei = {} /\ PrioritiesValid(dma)
  \/ dma.erq = {} /\ \A c \in Channels : ~dma.mux[c].on
=============================================================================
