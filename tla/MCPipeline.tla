----------------------------- MODULE MCPipeline -----------------------------
(* A client that pipelines a bit of everything. *)
EXTENDS Pipeline
CONSTANTS jobs, feed
Mix ==
    {<<<<"append", jobs>>, <<"subscribe", jobs>>, <<"read", jobs>>>>,
     <<<<"append", jobs>>, <<"append", feed>>, <<"ping", jobs>>>>,
     <<<<"subscribe", jobs>>, <<"append", jobs>>, <<"append", jobs>>>>,
     <<<<"refused", jobs>>, <<"junk", jobs>>, <<"ping", jobs>>>>}
=============================================================================
