SPECIFICATION Spec
CONSTANTS
    Aliases = {"claude", "gpt"}
    DefaultAlias = "claude"
    Builtins = {"datetime", "web_search"}
    Configs <- SomeConfigs
    ToolDefs = {"t", "b__t"}
    PrefixedName <- Prefixed
    Callbacks = {1, 2}
INVARIANTS TypeOK OneBadServerIsHarmless RegisteredToolsLive NoClientLeft  CancelledBeforeClosed
