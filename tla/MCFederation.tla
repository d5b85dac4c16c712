----------------------------- MODULE MCFederation -----------------------------
(* Federation for TLC: values too long for MCFederation.cfg.               *)
EXTENDS Federation

MCUpstreams == [top |-> {"mid", "leaf"}, mid |-> {"leaf"}, leaf |-> {}]
MCSystems == [top |-> {"x", "y", "login"}, mid |-> {}, leaf |-> {"x"}]
MCSiteOf == [top |-> [x |-> "s", y |-> "s", login |-> "s"], mid |-> <<>>, leaf |-> [x |-> "s"]]
MCShows == [top |-> {"x", "y"}, leaf |-> {"x"}]
MCSwept == <<"top", "leaf">>
=============================================================================
