------------------------------ MODULE PinBinding ------------------------------
(***************************************************************************)
(* constraints/PinBinding.cpp: which bit of which port of the design each  *)
(* board resource is wired to, from a constraint document, and the write   *)
(* of one bit through the engine.                                          *)
(***************************************************************************)
EXTENDS VerilatorEngine, Xdc

CONSTANTS
  RangeOf(_),      \* external: the declared range <<left, right>> of a port, or nothing
  ResourceOf(_),   \* basys3::resourceForPin: the resource of a package pin, or nothing
  Driving          \* basys3::resourceDrivesDesign: resources that drive the design

VARIABLES
  doc,       \* the constraints that were read
  binding    \* map_: the port and the bit of each bound resource

BitOf(word, k) == (word \div 2 ^ k) % 2

-----------------------------------------------------------------------------
(* bind(). *)

\* The name of a constraint's port, if the design has it.
IsPort(pc) == Len(pc.port.port) = 1 /\ pc.port.port[1] \in Range(PortOrder)
PortOf(pc) == pc.port.port[1]

\* Storage offset of an HDL index: ranges descend or ascend, and may be signed.
Offset(pc) ==
  LET range == RangeOf(PortOf(pc))
      index == pc.port.bit[1]
  IN  IF pc.port.bit = Nothing THEN 0
      ELSE IF range[1] >= range[2] THEN index - range[2] ELSE range[2] - index

\* A constraint that names one bit of the design for a resource that fits it.
Lands(pc) ==
  /\ pc.package # Nothing
  /\ ResourceOf(pc.package[1]) # Nothing
  /\ IsPort(pc)
  /\ (pc.port.bit = Nothing) = (RangeOf(PortOf(pc)) = Nothing)
  /\ Offset(pc) \in 0..Width(PortOf(pc)) - 1
  /\ ResourceOf(pc.package[1])[1] \in Driving => PortOf(pc) \in Inputs \cup {Clock}

\* Of two constraints for one resource the later wins.
Bind(d) ==
  FoldLeft(LAMBDA b, pc :
             IF Lands(pc)
             THEN (ResourceOf(pc.package[1])[1] :> [port |-> PortOf(pc), bit |-> Offset(pc)]) @@ b
             ELSE b,
           <<>>, d.pins)

Bound(r) == r \in DOMAIN binding
PinOf(r) == binding[r]

-----------------------------------------------------------------------------
(* setPin(). *)

\* Mutant: the pin's level is written over the whole port.
LevelledWhole(word, k, on) == IF on THEN 2 ^ k ELSE 0

\* The word with one bit set or cleared.
Levelled(word, k, on) ==
  word - BitOf(word, k) * 2 ^ k + (IF on THEN 2 ^ k ELSE 0)

\* The port is read, and written with the bit changed.
SetPin(r, on) ==
  LET n == PinOf(r).port
  IN  PeekAndPoke(n, Levelled(Settled(model).data[n], PinOf(r).bit, on))

-----------------------------------------------------------------------------
(* The wires the document asks for, without the binding. *)

\* The constraint puts a bit that the port has on the resource.
Wires(pc, r) ==
  /\ pc.package # Nothing /\ ResourceOf(pc.package[1]) = <<r>>
  /\ IsPort(pc)
  /\ LET range == RangeOf(PortOf(pc))
     IN  IF range = Nothing THEN pc.port.bit = Nothing
         ELSE /\ pc.port.bit # Nothing
              /\ pc.port.bit[1] \in Min(Range(range))..Max(Range(range))

\* The last such constraint on one of these ports, or none.
LastWire(r, ports) ==
  LET at == {k \in DOMAIN doc.pins : Wires(doc.pins[k], r) /\ PortOf(doc.pins[k]) \in ports}
  IN  IF at = {} THEN Nothing ELSE <<doc.pins[Max(at)]>>

\* What the design has on that wire: the right end of a range is bit 0.
WireLevel(pc, data) ==
  LET range == RangeOf(PortOf(pc))
      away == pc.port.bit[1] - range[2]
  IN  BitOf(data[PortOf(pc)], IF range = Nothing THEN 0 ELSE IF away < 0 THEN -away ELSE away)
=============================================================================
