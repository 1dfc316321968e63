SPECIFICATION FairSpec
CONSTANTS
    prompt_tokens = prompt_tokens
    decode_calls = decode_calls
    Counters <- MCCounters
    Levels = {0, 1}
    SlotCounts = {2}
    StallTimeout = 3
    RequestTimeout = 2
    Flavors = {"vllm", "llama-cpp"}
    PollsFail = TRUE
PROPERTIES
    StallIsGenuine
    WedgeIsDetected
    StallClears
