-------------------------------- MODULE MCSweep --------------------------------
(* Two machines, four grids and short command lines. *)
EXTENDS Sweep

MCAlgorithms ==
  [md5    |-> [digest |-> 16, block |-> 64, length |-> 8],
   sha512 |-> [digest |-> 64, block |-> 128, length |-> 16]]

Row(alg, isa, api) == [name |-> <<alg, isa>>, api |-> api]
MCRegistry ==
  {Row("md5", "scalar", "cpu"), Row("md5", "ocl", "opencl"), Row("md5", "cuda", "cuda"),
   Row("sha512", "scalar", "cpu"), Row("sha512", "cuda", "cuda"), Row("md5", "sve", "cpu")}

Names0 == {k.name : k \in MCRegistry}
MCMachines ==
  {[runs |-> Names0 \ {<<"md5", "sve">>}, odd |-> {}, devices |-> 2],
   [runs |-> {k.name : k \in {r \in MCRegistry : r.api = "cpu"}}, odd |-> {<<"md5", "sve">>},
    devices |-> 0]}

Plain == [algorithm |-> <<"md5">>, kernel |-> <<<<>>>>, where |-> <<"any">>,
          transfer |-> <<"resident">>, chunks |-> <<0>>, primitives |-> <<"steered">>,
          compile |-> <<"ptx-jit">>, bytes |-> <<55>>, iterations |-> <<1>>, ws |-> <<1024>>]
MCAxes ==
  {[Plain EXCEPT !.algorithm = <<"md5", "sha512">>, !.iterations = <<1, 2>>, !.bytes = <<16>>],
   [Plain EXCEPT !.kernel = <<<<>>, <<"md5", "ocl">>>>,
                 !.transfer = <<"overlap">>, !.where = <<"cpu", "device">>,
                 !.primitives = <<"steered", "neutral">>, !.chunks = <<2>>, !.bytes = <<1>>],
   [Plain EXCEPT !.kernel = <<<<"cuda">>>>, !.compile = <<"cubin", "import">>],
   [Plain EXCEPT !.kernel = <<<<"scalar">>, <<"md5", "scalar">>>>]}

Options ==
  <<<<"kernel", <<"md5", "cuda">>>>, <<"kernel", <<"sha512", "scalar">>>>,
   <<"kernel", <<"md5", "gone">>>>, <<"algorithm", "sha512">>, <<"algorithm", "md4">>,
   <<"where", "cpu">>, <<"backend", {"opencl"}>>, <<"backend", {}>>, <<"compile", "cubin">>,
   <<"transfer", "overlap">>, <<"chunks", 2>>, <<"device", <<1, 0>>>>, <<"device", <<1, 1>>>>,
   <<"device", <<3>>>>, <<"expect", "sha512">>, <<"iterations", 2>>, <<"bytes", 1>>,
   <<"bytes", 20>>, <<"ws", 2^24>>, <<"ladder", <<1, 4>>>>, <<"ladder", <<4, 1>>>>,
   <<"list", "">>, <<"import", "usable">>, <<"import", "missing">>, <<"geometry", <<64, 8>>>>,
   <<"help", "">>, <<"chunks", 0>>, <<"colour", "">>>>
Increasing(n) ==
  {f \in [1 .. n -> DOMAIN Options] : \A i \in 1 .. n - 1 : f[i] < f[i + 1]}
MCCommands ==
  {[i \in DOMAIN f |-> Options[f[i]]] : f \in UNION {Increasing(n) : n \in 0 .. 3}}
=============================================================================
