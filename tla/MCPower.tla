--------------------------------- MODULE MCPower ---------------------------------
(* A laptop, a server with a card two providers see, and one with two cards. *)
EXTENDS Power

MCMachines == {
  [domains |-> <<"package", "core", "uncore", "psys">>, drm |-> <<>>, nvml |-> <<>>,
   nvmlEnergy |-> TRUE],
  [domains |-> <<"package", "dram">>, drm |-> <<[card |-> "a", energy |-> FALSE]>>,
   nvml |-> <<[card |-> "a", pci |-> TRUE]>>, nvmlEnergy |-> TRUE],
  [domains |-> <<>>, drm |-> <<[card |-> "a", energy |-> TRUE]>>,
   nvml |-> <<[card |-> "a", pci |-> TRUE], [card |-> "b", pci |-> TRUE]>>,
   nvmlEnergy |-> TRUE],
  [domains |-> <<"uncore">>, drm |-> <<>>, nvml |-> <<[card |-> "b", pci |-> FALSE]>>,
   nvmlEnergy |-> FALSE]}

Address(c) == <<c, "api">>
MCJobs ==
  {[device |-> FALSE, cpu |-> TRUE, cards |-> {}],
   [device |-> TRUE, cpu |-> TRUE, cards |-> {}],
   [device |-> TRUE, cpu |-> FALSE, cards |-> {<<"igpu", NoId>>}]}
  \cup {[device |-> TRUE, cpu |-> FALSE, cards |-> C] :
          C \in {{<<"a", Address("a")>>}, {<<"b", Address("b")>>},
                 {<<"a", Address("a")>>, <<"b", NoId>>}, {<<"a", Address("a")>>, <<"b", Address("b")>>}}}
=============================================================================
