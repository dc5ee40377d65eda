---------------------------- MODULE MCDockerfile ----------------------------
(***************************************************************************)
(* An excerpt of the tables that Cog embeds, with the rows that are        *)
(* special: releases of PyTorch for CUDA versions without an image (12.4   *)
(* has none in the excerpt), two releases that differ in the patch, one    *)
(* for the CPU, one of exactly the first version that has base images, one *)
(* for a CUDA version before the first that has them, and releases of      *)
(* TensorFlow with and without an image.                                   *)
(***************************************************************************)
EXTENDS Dockerfile

MCImages == {[cuda |-> <<11, 3, 1>>, cudnn |-> 8],
             [cuda |-> <<11, 7, 1>>, cudnn |-> 8],
             [cuda |-> <<11, 8, 0>>, cudnn |-> 8],
             [cuda |-> <<12, 1, 0>>, cudnn |-> 8],
             [cuda |-> <<12, 1, 1>>, cudnn |-> 8],
             [cuda |-> <<12, 3, 2>>, cudnn |-> 9]}

\* Of these releases those before 2.0 have a "+".
Row(torch, vision, cuda, pythons) ==
    [torch |-> torch, plus |-> torch[1] < 2, vision |-> vision, cuda |-> cuda,
     pythons |-> pythons]

Old == {<<3, 8>>, <<3, 11>>}
New == {<<3, 11>>, <<3, 12>>}

MCTorchRows ==
    <<Row(<<2, 5, 0>>, <<0, 20, 0>>, <<11, 8>>, New),
      Row(<<2, 5, 0>>, <<0, 20, 0>>, <<12, 1>>, New),
      Row(<<2, 5, 0>>, <<0, 20, 0>>, <<12, 4>>, New),
      Row(<<2, 0, 1>>, <<0, 15, 2>>, <<11, 7>>, Old),
      Row(<<2, 0, 1>>, <<0, 15, 2>>, <<11, 8>>, Old),
      Row(<<2, 0, 1>>, <<0, 15, 2>>, None, Old),
      Row(<<2, 0, 0>>, <<0, 15, 1>>, <<11, 7>>, Old),
      Row(<<1, 13, 1>>, <<0, 14, 1>>, <<11, 7>>, {<<3, 8>>}),
      Row(<<1, 12, 1>>, <<0, 13, 1>>, <<11, 3>>, {<<3, 8>>}),
      Row(<<1, 12, 1>>, <<0, 13, 1>>, <<10, 2>>, {<<3, 8>>})>>

MCTFRows ==
    <<[tf |-> <<2, 16, 1>>, cuda |-> <<12, 3>>, cudnn |-> <<8, 9>>],
      [tf |-> <<2, 14, 0>>, cuda |-> <<11, 8, 0>>, cudnn |-> <<8, 7>>]>>

MCVenvs == {[python |-> <<3, 12>>, torch |-> <<2, 5, 0>>, cuda |-> <<12, 1>>],
            [python |-> <<3, 11>>, torch |-> <<2, 0, 1>>, cuda |-> None]}

MCMinPython == <<3, 8>>
MCMinTorch == <<1, 13, 1>>
MCMinCUDA == <<11, 6>>

Line(name, spec, ver, cu, index) ==
    [name |-> name, spec |-> spec, ver |-> ver, cu |-> cu, index |-> index]
Pinned(name, ver) == Line(name, "==", ver, None, FALSE)

MCLines ==
    {<<>>,
     <<Pinned("torch", <<2, 5, 0>>), Pinned("torchvision", <<0, 20, 0>>)>>,
     <<Pinned("torch", <<2, 0, 1>>), Pinned("torchvision", <<0, 15, 2>>)>>,
     <<Line("torch", "==", <<2, 0, 1>>, <<11, 7>>, FALSE)>>,
     <<Pinned("torch", <<2, 0>>), Pinned("torchvision", <<0, 15, 1>>)>>,
     <<Line("torch", ">=", <<2, 0>>, None, FALSE)>>,
     <<Line("torch", "==", <<2, 5, 0>>, None, TRUE), Pinned("coglet", <<1, 0>>)>>,
     <<Pinned("torch", <<1, 12, 1>>)>>,
     <<Pinned("torch", <<1, 13, 1>>), Pinned("torchvision", <<0, 14, 1>>)>>,
     <<Pinned("torch", <<1, 4, 0>>)>>,
     <<Line("torch", "", <<>>, None, FALSE)>>,
     <<Pinned("tensorflow", <<2, 14, 0>>), Pinned("numpy", <<1, 0>>)>>,
     <<Pinned("numpy", <<1, 0>>), Pinned("tensorflow", <<2, 16, 1>>)>>,
     <<Pinned("tensorflow", <<2, 1, 0>>)>>}

Model(gpu, cuda, cudnn, python, packages, file, system) ==
    [schema |-> TRUE, predict |-> TRUE, gpu |-> gpu, cuda |-> cuda,
     cudnn |-> cudnn, python |-> python, packages |-> packages,
     file |-> file, lines |-> <<>>, system |-> system, newline |-> FALSE,
     env |-> <<>>, runtime |-> FALSE, concurrent |-> FALSE]

MCVersions ==
    {Model(gpu, cuda, cudnn, python, packages, None, {"git", "vim"}) :
        gpu \in BOOLEAN,
        cuda \in {None, <<11, 8>>, <<11, 8, 0>>, <<12, 1>>, <<12, 4>>},
        cudnn \in {None, 8, 9},
        python \in {<<3, 11>>, <<3, 12>>, <<3, 11, 4>>},
        packages \in MCLines}

Plain == Model(TRUE, None, None, <<3, 11>>, <<>>, <<Pinned("numpy", <<1, 0>>)>>, {})

MCOthers ==
    {[Plain EXCEPT !.schema = FALSE], [Plain EXCEPT !.predict = FALSE],
     [Plain EXCEPT !.packages = <<Pinned("torch", <<2, 5, 0>>)>>],
     [Plain EXCEPT !.env = <<"A", "B">>], [Plain EXCEPT !.env = <<"A", "A">>],
     [Plain EXCEPT !.env = <<"PATH">>], [Plain EXCEPT !.env = <<"novalue">>],
     [Plain EXCEPT !.newline = TRUE], [Plain EXCEPT !.runtime = TRUE],
     [Plain EXCEPT !.runtime = TRUE, !.python = <<3, 11, 4>>],
     [Plain EXCEPT !.concurrent = TRUE],
     [Plain EXCEPT !.concurrent = TRUE, !.python = <<3, 8>>],
     [Plain EXCEPT !.python = <<3, 7>>], [Plain EXCEPT !.cuda = <<12>>],
     [Plain EXCEPT !.cuda = <<10, 2>>], Plain}

MCYamls == MCVersions \cup MCOthers
=============================================================================
