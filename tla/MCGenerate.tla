----------------------------- MODULE MCGenerate ------------------------------
(***************************************************************************)
(* Bodies of chat requests for Generate: one with nothing but messages, and *)
(* what each field of a body may add to it.                                *)
(***************************************************************************)
EXTENDS Generate

Message(role) == [role |-> role, parts |-> {"text"}]

Plain ==
    [messages |-> <<Message("system"), Message("user")>>, stream |-> FALSE,
     stream_options |-> << >>, max_tokens |-> << >>, max_completion_tokens |-> << >>,
     temperature |-> << >>, top_p |-> << >>, top_k |-> << >>,
     repetition_penalty |-> << >>, stop |-> << >>, n |-> << >>]

MCBodies ==
    {[Plain EXCEPT !.max_tokens = a, !.max_completion_tokens = c] :
        a \in {<< >>} \cup {<<m>> : m \in 0 .. Context}, c \in {<< >>, <<0>>, <<2>>, <<6>>}}
      \cup {[Plain EXCEPT !.n = <<n>>] : n \in {1, 2}}
      \cup {[Plain EXCEPT !.stream = s, !.stream_options = <<[include_usage |-> TRUE]>>] :
              s \in BOOLEAN}
      \cup {[Plain EXCEPT !.messages = m] :
              m \in {<< >>, <<Message("user"), Message("system")>>,
                     <<[role |-> "user", parts |-> {"text", "image_url"}]>>}}
      \cup {[Plain EXCEPT !.temperature = <<t>>] : t \in {-1, 0, 20, 21}}
      \cup {[Plain EXCEPT !.top_p = <<p>>] : p \in {0, 10, 11}}
      \cup {[Plain EXCEPT !.top_k = <<k>>] : k \in {-2, -1, 0}}
      \cup {[Plain EXCEPT !.repetition_penalty = <<r>>] : r \in {0, 100}}
      \cup {[Plain EXCEPT !.stop = s] :
              s \in {<<0>>, <<4096>>, <<4097>>, <<1, 1, 1, 1>>, <<1, 1, 1, 1, 1>>}}

\* The command line's defaults, and a temperature it has to refuse.
MCSamplings ==
    {SamplingFor("hunyuan-dense"), [SamplingFor("hunyuan-dense") EXCEPT !.temperature = 21]}
=============================================================================
