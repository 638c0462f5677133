------------------------------ MODULE MCFeeds ------------------------------
EXTENDS Feeds

MCScript == <<"audio", "delta", "key", "audio", "delta", "key">>
MCInputs == <<"cam1", "cam2">>
=============================================================================
