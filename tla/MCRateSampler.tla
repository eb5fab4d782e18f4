---------------------------- MODULE MCRateSampler ----------------------------
(* RateSampler with a limited level, an unlimited and an exempt one, for TLC.  *)
(* The list of limits has a part that does not parse, a level that is given    *)
(* twice and a limit for a level that is never dropped.                        *)
EXTENDS RateSampler, TLC

CONSTANTS debug, info, fatal

MCLevels == {debug, info, fatal}
MCExempt == {fatal}
Part(v, n) == [level |-> v, limit |-> n]
MCParts == << Part(debug, 1), Part(Invalid, 3), Part(debug, 2), Part(info, Invalid),
              Part(fatal, 1) >>

LoggerSymmetry == Permutations(Loggers)
=============================================================================
