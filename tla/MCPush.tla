------------------------------- MODULE MCPush -------------------------------
(***************************************************************************)
(* A run that pushes up to two layers to the cache and an image to tags in *)
(* two repositories, one of them immutable.                                *)
(***************************************************************************)
EXTENDS Push

MCTag == {"t1", "t2"}
MCRepo(t) == IF t = "t1" THEN "r1" ELSE "r2"
MCImmutable == {"t2"}

MCOptions ==
    LET base == [Destinations |-> <<"t1", "t2">>, NoPush |-> FALSE, NoPushCache |-> FALSE,
                 Cache |-> TRUE, CacheRepo |-> "registry", DigestFile |-> TRUE,
                 ImageNameDigestFile |-> TRUE, OCILayoutPath |-> None, TarPath |-> FALSE,
                 PushRetry |-> 1, PushIgnoreImmutableTagErrors |-> FALSE,
                 SkipPushPermissionCheck |-> FALSE]
    IN {base,
        [base EXCEPT !.PushIgnoreImmutableTagErrors = TRUE, !.OCILayoutPath = "out"],
        [base EXCEPT !.PushRetry = 0, !.SkipPushPermissionCheck = TRUE, !.TarPath = TRUE],
        [base EXCEPT !.NoPush = TRUE, !.Destinations = << >>, !.TarPath = TRUE,
                     !.ImageNameDigestFile = FALSE],
        [base EXCEPT !.NoPush = TRUE, !.CacheRepo = "oci", !.OCILayoutPath = "out"],
        [base EXCEPT !.NoPush = TRUE, !.NoPushCache = TRUE, !.OCILayoutPath = "out"]}

=============================================================================
