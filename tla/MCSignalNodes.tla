---------------------------- MODULE MCSignalNodes ----------------------------
(* Instances of SignalNodes for TLC. *)
EXTENDS SignalNodes

MCClass ==
  [gain |-> GainNode(1), shaper |-> WaveshaperNode, gate |-> GateNode, dc |-> DcBlockerNode,
   biquad |-> BiquadNode(TRUE), raw |-> BiquadNode(FALSE), eq |-> ParametricEqNode(1),
   meter |-> MeterNode, neural |-> NeuralNode, wide |-> StereoWidthNode(2),
   width |-> StereoWidthNode(1), pan |-> PanNode, upmix |-> UpmixNode(3),
   downmix |-> DownmixNode, matrix |-> ChannelMatrixNode(2), latency |-> LatencyNode(2, 1),
   late |-> LatencyNode(1, 2), none |-> LatencyNode(0, 1), limiter |-> CompressorNode(1, 1),
   comp |-> CompressorNode(0, 2), echo |-> DelayNode(1, 1, 0, 1, 2), loop |-> DelayNode(1, 3, 1, 2, 1),
   same |-> DelayNode(1, 0, 0, 1, 2), dry |-> DelayNode(1, 0, 1, 0, 2),
   osc |-> OscillatorNode, mixer |-> MixerNode, noise |-> NoiseNode]

Wire(a, b, device) == [a |-> a, b |-> b, join |-> <<>>, device |-> device, map |-> ""]
At(w, mode) == [w EXCEPT !.map = mode]
Mix(w) == [w EXCEPT !.join = <<"mixer">>]
MCSetups ==
  {Mix(Wire(<<"latency", "gain">>, <<"shaper">>, 2)), Wire(<<"downmix", "late">>, <<"pan", "gate">>, 2),
   At(Wire(<<"upmix", "latency">>, <<"wide", "meter">>, 3), "DownmixToMono"), At(Wire(<<"matrix">>, <<"late", "eq">>, 1), "Auto"),
   Wire(<<"limiter", "biquad">>, <<"neural">>, 2), Wire(<<"comp", "dc">>, <<"raw", "none", "dry">>, 2),
   Wire(<<"echo">>, <<"late">>, 2), At(Wire(<<"loop", "downmix">>, <<>>, 2), "DuplicateMono"),
   Mix(Wire(<<"same">>, <<"width">>, 2)), Wire(<<"late", "late">>, <<"noise", "late">>, 2),
   Wire(<<"osc", "latency">>, <<"downmix", "upmix">>, 1)}
=============================================================================
