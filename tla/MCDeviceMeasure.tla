--------------------------- MODULE MCDeviceMeasure ---------------------------
(* Machines with one to three devices, seen by one API or two. *)
EXTENDS DeviceMeasure

Card(domain, bus) == <<domain, bus, 0>>
Seen(card, tells) == [card |-> card, tells |-> tells, units |-> 0, mem |-> 8]
Driven(card)      == [card |-> card, units |-> 1, mem |-> 8, opens |-> TRUE]
Lost(card)        == [Driven(card) EXCEPT !.opens = FALSE]

Machine(platforms, devices, opencl, cuda) ==
  [platforms |-> platforms, devices |-> devices, missing |-> [opencl |-> opencl, cuda |-> cuda]]
Host(platforms, devices) == Machine(platforms, devices, {}, {})

\* One card, neither driver of which is whole, and one that CUDA alone lacks.
Empty == Machine(<<<<Seen(Card(0, 1), "all")>>>>, <<Driven(Card(0, 1))>>,
                 {"its entry points"}, {"libnvrtc"})
OpenclOnly == Machine(<<<<Seen(Card(0, 1), "all")>>>>, <<Driven(Card(0, 1))>>, {}, {"cuInit"})
\* Two cards in two domains, as a vendor's query tells them, and as CUDA does.
Twins == Host(<<<<Seen(Card(0, 1), "nodom"), Seen(Card(1, 1), "nodom")>>>>,
              <<Driven(Card(1, 1)), Driven(Card(0, 1))>>)
\* One card that two platforms list, and a processor without an address.
Listed == Host(<<<<Seen(Card(0, 1), "all")>>,
                 <<Seen(Card(0, 1), "all"), Seen(Card(0, 9), "nothing")>>>>,
               <<Driven(Card(0, 1)), Lost(Card(0, 3)), Driven(Card(0, 2))>>)

Ask(h, api, named, groups, chunks) ==
  [host |-> h, api |-> api, named |-> named, groups |-> groups, chunks |-> chunks]

NoDevices == {Ask(Empty, "cuda", <<>>, 1, 0)}
TwoDevices == {Ask(Twins, "cuda", <<>>, 5, 0)}

MCAsks == NoDevices \cup TwoDevices \cup
  {Ask(Twins, "opencl", <<1, 0>>, 9, 4), Ask(Twins, "cuda", <<2>>, 3, 1), Ask(Twins, "opencl", <<0, 7>>, 3, 1),
   Ask(Listed, "opencl", <<>>, 8, 2), Ask(Listed, "opencl", <<>>, 2, 0),
   Ask(Listed, "cuda", <<3>>, 7, 0), Ask(Listed, "cuda", <<1>>, 7, 0),
   Ask(OpenclOnly, "cuda", <<>>, 2, 1)}
=============================================================================
