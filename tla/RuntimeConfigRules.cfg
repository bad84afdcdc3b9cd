SPECIFICATION SamlSpec
CONSTANTS
    Providers = {"okta", "entra"}
    EnvProvider = "okta"
    NoProvider = "none"
    SamlRequests = {"r"}
    MaxSaml = 3
PROPERTY
    RuntimeConfigRules
CHECK_DEADLOCK FALSE
