----------------------------- MODULE MCOffsite -----------------------------
(***************************************************************************)
(* A service with a dump of three bytes (two chunks) and an object archive *)
(* that is empty in odd runs; a part of a multipart upload holds two       *)
(* blocks.  Its keys sort before manifest.json, so a prune that is cut     *)
(* short leaves a manifest without its objects.                            *)
(***************************************************************************)
EXTENDS Offsite

MCFiles == <<"live.dump", "live.tar">>
MCServiceOf == [f \in FileSet |-> "live"]
MCListing == <<"live.dump", "live.tar", "manifest.json">>
MCPlain == [r \in Runs |->
              [f \in FileSet |-> IF f = "live.dump" THEN <<r, 7, 8>>
                                 ELSE IF r % 2 = 0 THEN <<9>> ELSE <<>>]]
MCBatches == {{"live.dump", "live.tar"}, {"live.dump"}}
MCSalts == 1..9
MCLive == {<<"srv", "live">>}
MCOuts == {<<"restore", "a">>, <<"srv", "live", "data">>}
=============================================================================
