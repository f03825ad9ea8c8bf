----------------------------- MODULE MCStartup -----------------------------
(* Configurations for TLC: every small shape of the draft, and one wrong or *)
(* unusual field at a time.                                                 *)
EXTENDS Startup

Base ==
  [draft_scoring |-> "backend", draft_model |-> "present", dtype |-> "fp16",
   device |-> "", named |-> TRUE, forward_log |-> FALSE,
   max_len |-> 4, max_new_tokens |-> 2, max_seqs |-> 0,
   max_n_beams |-> 2, max_beam_len |-> 2, max_branch_width |-> 2, max_budget |-> 2,
   proactive_type |-> "included",
   pro_max_n_beams |-> 1, pro_max_beam_len |-> 1, pro_max_branch_width |-> 2,
   pro_max_budget |-> 1, sample_req_cnt |-> 1, max_request_num |-> -1]

Shapes ==
  {[Base EXCEPT !.draft_scoring = sc, !.max_seqs = ms, !.max_n_beams = nb,
                !.max_beam_len = bl, !.max_branch_width = bw,
                !.proactive_type = pt, !.pro_max_beam_len = pl,
                !.pro_max_branch_width = pw] :
     sc \in {"backend", "host"}, ms \in {0, 1, 2, Cap, Cap + 1}, nb \in {1, 3},
     bl \in 1 .. 2, bw \in 1 .. 2, pt \in {"disabled", "excluded", "included"},
     pl \in 1 .. 2, pw \in 1 .. 2}

Oddities ==
  {[Base EXCEPT !.draft_scoring = "gpu"], [Base EXCEPT !.draft_model = ""],
   [Base EXCEPT !.draft_model = "absent"], [Base EXCEPT !.dtype = "fp8"],
   [Base EXCEPT !.device = "unknown"], [Base EXCEPT !.proactive_type = "maybe"],
   [Base EXCEPT !.max_n_beams = 0], [Base EXCEPT !.max_beam_len = 0],
   [Base EXCEPT !.max_branch_width = 0], [Base EXCEPT !.max_budget = 0],
   [Base EXCEPT !.pro_max_n_beams = 0], [Base EXCEPT !.pro_max_budget = 0],
   [Base EXCEPT !.sample_req_cnt = 0], [Base EXCEPT !.max_request_num = -2],
   [Base EXCEPT !.max_len = 0], [Base EXCEPT !.max_new_tokens = -3],
   [Base EXCEPT !.max_seqs = -1], [Base EXCEPT !.named = FALSE],
   [Base EXCEPT !.forward_log = TRUE], [Base EXCEPT !.named = FALSE, !.forward_log = TRUE]}

AllConfigs == Shapes \cup Oddities

=============================================================================
