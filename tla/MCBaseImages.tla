---------------------------- MODULE MCBaseImages ----------------------------
(***************************************************************************)
(* One warmer and one executor, one tag that moves between two images on a *)
(* registry and its mirror.                                                *)
(***************************************************************************)
EXTENDS BaseImages

CONSTANTS t, d1, d2, mirror

MCMirrors == <<mirror>>

Run(images, force, cacheDir, skip) ==
    [images |-> images, Force |-> force, CacheDir |-> cacheDir,
     SkipDefaultRegistryFallback |-> skip]

MCWarmerRun == {Run(<<t, d1>>, FALSE, TRUE, FALSE), Run(<<t>>, TRUE, TRUE, TRUE)}

MCExecutorRun == {Run(<<t, t>>, FALSE, TRUE, FALSE), Run(<<d1, t>>, FALSE, TRUE, TRUE),
                  Run(<<t, t>>, FALSE, FALSE, FALSE)}
=============================================================================
