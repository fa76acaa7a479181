------------------------------- MODULE MCFlowRun -------------------------------
\* An instance of FlowRun for TLC: six files, and runs of one to three of them.
EXTENDS FlowRun

File(ext, parses, linked, infos, setup, teardown) ==
  [ext |-> ext, parses |-> parses, linked |-> linked, infos |-> infos, setup |-> setup, teardown |-> teardown]

MCDisk ==
  <<File("js", TRUE, FALSE, <<Info("a", {"smoke"}, FALSE, FALSE), Info("b", {}, FALSE, TRUE)>>, TRUE, TRUE),
    File("js", TRUE, FALSE, <<Info("a", {}, FALSE, FALSE), Info("c", {"smoke"}, FALSE, FALSE), Info("d", {}, TRUE, FALSE)>>, FALSE, FALSE),
    File("js", TRUE, FALSE, << >>, FALSE, FALSE),
    File("rhai", TRUE, FALSE, <<Info("a", {}, FALSE, FALSE)>>, TRUE, TRUE),
    File("rhai", FALSE, FALSE, << >>, FALSE, FALSE),
    File("rhai", TRUE, TRUE, << >>, FALSE, FALSE)>>

Named(files) == [files |-> files, dir |-> {}]
In(dir) == [files |-> {}, dir |-> dir]
MCAsked == {Named({1, 2}), Named({2, 3}), Named({3, 5}), Named({4, 6}), In({4, 5, 6})}

NoFilter == [name |-> {}, tags |-> {}, exclude |-> {}]
MCFiltering == {NoFilter, [NoFilter EXCEPT !.name = {"a"}], [NoFilter EXCEPT !.exclude = {"smoke"}],
                [NoFilter EXCEPT !.tags = {"smoke"}]}
=============================================================================
