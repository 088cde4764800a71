---------------------------- MODULE MCBrowserBench ----------------------------
(* Two suites, of one and of two benchmarks; two benchmarks of RoboHornet.  *)
EXTENDS BrowserBench

MCSuites == <<"Richards", "Crypto">>
MCBenchmarks == <<1, 2>>
MCRoboBenchmarks == <<"Add Rows", "SVG">>
===============================================================================
