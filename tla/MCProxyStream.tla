---------------------------- MODULE MCProxyStream ----------------------------
(* A small instance of ProxyStream for TLC. *)
EXTENDS ProxyStream

ThreeIndexes == {0, 1, 2}

AllAgents == {"claude", "codex", "gemini"}

TwoReasons == {"", "length"}

(* Call 0 is an object from its second fragment on and begins with '{'; call 1
   is one with its first fragment, behind a blank; calls in a text are both. *)
ObjectArguments ==
    {args \in Seq([tag : {"native", "inline"}, n : Nat]) :
        /\ args # <<>>
        /\ args[1].tag = "native" => Len(args) = 2 - args[1].n}

BracedArguments ==
    {args \in Seq([tag : {"native", "inline"}, n : Nat]) :
        /\ args # <<>>
        /\ args[1].tag = "native" => args[1].n = 0}

Line(reasoning, content, call) ==
    [reasoning |-> reasoning, content |-> content, call |-> call]

(* Reasoning, fragments of two calls, and texts, each alone and together:
   one token, a word or '<' before an opening tag (where the code leaks), a
   word around a closing one, an opening tag behind a closing one, blocks. *)
MixedChunks ==
    LET Deltas ==
            {<<tag>> : tag \in TextTags}
            \cup {<<"word", "thinkOpen">>, <<"word", "callOpen">>, <<"angle", "callOpen">>,
                  <<"word", "thinkClose">>, <<"thinkClose", "word">>, <<"callClose", "word">>,
                  <<"thinkClose", "thinkOpen">>, <<"thinkClose", "callOpen">>,
                  <<"thinkClose", "callOpen", "callClose">>,
                  <<"word", "thinkOpen", "thinkClose", "word">>,
                  <<"word", "callOpen", "callClose", "word">>}
    IN  {Line(0, delta, None) : delta \in Deltas}
        \cup {Line(1, <<>>, None), Line(3, <<>>, None), Line(1, <<"word">>, None),
              Line(0, <<>>, <<0, 0>>), Line(0, <<>>, <<0, 1>>), Line(0, <<>>, <<1, 1>>),
              Line(0, <<"word">>, <<0, 0>>), Line(1, <<"word">>, <<1, 1>>)}
=============================================================================
